\* One API process handles events that name the workspace, its subscription or its
\* customer, in any order, with two failures or superfluous deliveries,
\* while another process starts.
CONSTANTS
  Processes = {p1}
  Admins = {}
  Starters = {s1}
  DefaultWorkspace = w1
  DefaultPlan = "starter"
  DefaultLimit = 200
  Workspaces = {w1, w2}
  w1 = w1
  failed = failed
  stray = stray
  changed = changed
  deleted = deleted
  customer = customer
  subscription = subscription
  Events = {changed, deleted, failed, stray}
  Payload <- LinkPayload
  AdminUpdates = {}
  InitialRow <- MCInitialRow
  Plans = {"starter", "pro"}
  Limits = {200, 5000}
  Ids = {customer, subscription}
  None = None
  Unknown = Unknown
  MaxFaults = 2
SPECIFICATION FairSpec
INVARIANTS LinkedEventsResolve
PROPERTIES DuplicatesIgnored EveryEventApplied
