SPECIFICATION FairSpec
CONSTANTS
  EventIds = {e1}
  CategoryIds = {c1, c2}
  Sessions = {s1, s2}
  NoCategory = NoCategory
  NoEvent = NoEvent
  NoSession = NoSession
INVARIANTS TypeOK AcknowledgedHolds
PROPERTIES ImplementsLifecycle EveryRequestEnds
