SPECIFICATION ReservationSpec
CONSTANTS
  NoOrder = NoOrder
  o1 = o1
  o2 = o2
  c1 = c1
  c2 = c2
  Orders = {o1, o2}
  Categories = {c1}
  TotalQuantity <- OneSeat
  Requests <- SingleRequests
  Resizes = {}
  MaxInFlight = 2
INVARIANTS NoOversell
CHECK_DEADLOCK FALSE
