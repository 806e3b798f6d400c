SPECIFICATION FairSpec
CONSTANTS
  NoReader = NoReader
  Abandoned = Abandoned
  Objects = {a, b}
  Visitors = {v}
  Requests = {r1, r2}
  Readers = {d1}
  MaxBatch = 1
  MaxFaults = 1
  MaxExpiries = 1
INVARIANTS TypeOK VisitIsKept NoDoubleCount
PROPERTIES EventuallyLogged EveryReadEnds
CHECK_DEADLOCK FALSE
