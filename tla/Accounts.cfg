SPECIFICATION FairSpec
CONSTANTS
  e1=e1 boss=boss r1=r1 r2=r2 m1=m1 l1=l1 c1=c1 c2=c2 k1=k1 k2=k2
  Nothing = Nothing
  Emails = {e1, boss}
  Admins = {boss}
  Registrations = {r1, r2}
  Commands = {m1}
  Logins = {l1}
  Calls = {c1, c2}
  Bookings = {k1, k2}
  Arrivals <- MCArrivals
  MaxFaults = 1
INVARIANTS TypeOK OrdersFollowTheirEmail OrphanIsExplained ApprovalHolds
PROPERTIES ParadoxNeedsRace TokenIsCurrentUnlessRaced EventuallyMigrated
CHECK_DEADLOCK FALSE
