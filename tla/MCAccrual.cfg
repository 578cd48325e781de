\* Scheduled accruals of two tenants, in one of which HR accrues and adjusts by hand.
SPECIFICATION FairSpec
CONSTANTS
  calm = calm
  wild = wild
  ann = ann
  bob = bob
  eve = eve
  monthly = monthly
  yearly = yearly
  Tenants = {calm, wild}
  RetentionPolicies <- MCRetentionPolicies
  QueueSize = 1
  Requests = {r1}
  ByHand = {wild}
  Employees = {ann, bob, eve}
  TenantOf <- MCTenantOf
  StartOf <- MCStartOf
  LeaveTypes = {"vacation"}
  Policies = {monthly, yearly}
  Policy <- MCPolicy
  Begins <- MCBegins
  LastDay = 1
  Adjustments = {5}
  None = None
CHECK_DEADLOCK FALSE
INVARIANTS TypeOK PeriodsCredited WithinCap CompletedMeansAccrued DaysAreHalfDays
PROPERTIES EveryJobEnds
