\* The same without failures, and with an administrator who saves the plan form.
CONSTANTS
  Processes = {p1}
  Admins = {d1}
  Starters = {}
  DefaultWorkspace = w1
  DefaultPlan = "starter"
  DefaultLimit = 200
  Workspaces = {w1}
  w1 = w1
  failed = failed
  stray = stray
  changed = changed
  deleted = deleted
  customer = customer
  subscription = subscription
  Events = {changed, deleted, failed}
  Payload <- LinkPayload
  AdminUpdates <- FormUpdates
  InitialRow <- MCInitialRow
  Plans = {"starter", "pro"}
  Limits = {200, 300, 5000}
  Ids = {customer, subscription}
  None = None
  Unknown = Unknown
  MaxFaults = 0
SPECIFICATION Spec
INVARIANTS LinkedEventsResolve
