SPECIFICATION ReservationFairSpec
CONSTANTS
  NoOrder = NoOrder
  o1 = o1
  o2 = o2
  c1 = c1
  c2 = c2
  Orders = {o1, o2}
  Categories = {c1, c2}
  TotalQuantity <- TwoSeats
  Requests <- ContendingRequests
  Resizes = {1}
  MaxInFlight = 2
INVARIANTS LockHoldersRun GrantedFits
PROPERTIES OversellNeedsStaleCount RefusedOnlyWhenShort EveryBookingEnds
CHECK_DEADLOCK FALSE
