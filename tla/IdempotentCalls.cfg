SPECIFICATION FairSpec
CONSTANTS
  NoCall = NoCall
  r1 = r1
  r2 = r2
  r3 = r3
  k1 = k1
  k2 = k2
  Calls = {r1, r2, r3}
  Keys = {k1, k2}
  KeyOf <- TwoKeys
  MaxFaults = 2
  MaxExpiries = 1
INVARIANTS TypeOK OneOrderUnlessSlipped OneOrderPerCall
PROPERTIES AnswerIsStable EveryCallEnds
CHECK_DEADLOCK FALSE
