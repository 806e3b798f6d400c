SPECIFICATION ReservationSpec
CONSTANTS
  NoOrder = NoOrder
  o1 = o1
  o2 = o2
  c1 = c1
  c2 = c2
  Orders = {o1}
  Categories = {c1}
  TotalQuantity <- TwoSeats
  Requests <- SingleRequests
  Resizes = {1, 3}
  MaxInFlight = 1
PROPERTIES FrozenOncePublished
CHECK_DEADLOCK FALSE
