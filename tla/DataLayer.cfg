SPECIFICATION Spec
CONSTANTS
  t1 = t1  t2 = t2  i1 = i1  i2 = i2  o1 = o1  o2 = o2
  held = held  paid = paid  red = red
  Nothing = Nothing
  Tickets = {t1, t2}
  Items = {i1, i2}
  Statuses = {held, paid}
  ItemOf <- MCItemOf
  OrderOf <- MCOrderOf
  Queries <- MCQueries
  MaxBlocks = 3
  MaxWrites = 2
  MaxFaults = 1
INVARIANTS TypeOK BookkeepingFollowsBlocks
INVARIANTS DroppedFiltersWiden EveryStatementMeansTheSameRows
PROPERTIES FailedBlockIsUndone
