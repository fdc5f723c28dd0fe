\* Two API processes and an administrator change the plan of one workspace by
\* name while processes start; one request fails or one event is delivered once too often.
CONSTANTS
  Processes = {p1, p2}
  Admins = {d1}
  Starters = {s1}
  DefaultWorkspace = w1
  DefaultPlan = "starter"
  DefaultLimit = 200
  Workspaces = {w1}
  w1 = w1
  failed = failed
  stray = stray
  changed = changed
  deleted = deleted
  customer = customer
  subscription = subscription
  Events = {changed, deleted}
  Payload <- PlanPayload
  AdminUpdates <- NamedUpdates
  InitialRow <- MCInitialRow
  Plans = {"starter", "pro", "business"}
  Limits = {200, 5000, 25000}
  Ids = {customer, subscription}
  None = None
  Unknown = Unknown
  MaxFaults = 1
SYMMETRY ProcessSymmetry
SPECIFICATION Spec
INVARIANTS TypeOK AckedIsApplied PlanAndLimitAgree
