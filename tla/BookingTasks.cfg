SPECIFICATION FairSpec
CONSTANTS
  NoOrder = NoOrder
  NoSession = NoSession
  o1 = o1
  o2 = o2
  c1 = c1
  p1 = p1
  p2 = p2
  w1 = w1
  w2 = w2
  Orders = {o1, o2}
  Messages = {o1, o2}
  Payers = {p1}
  Workers = {w1}
  Categories = {c1}
  TotalQuantity <- TwoSeats
  Requests <- OneSeatRequests
  Resizes = {}
  MaxFaults = 1
  MaxInFlight = 2
INVARIANTS TypeOK PendingIsTracked TicketsFollowStatus ConfirmedIsPaid
PROPERTIES ImplementsLedger ReleasedUnlessLost
CHECK_DEADLOCK FALSE
