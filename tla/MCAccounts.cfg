\* Two threads that create, update and reset users, confirm resets and start
\* processes, four times in all from an empty table: a user and three changes around one
\* token, or two administrators and the deactivation of each.
CONSTANTS
  c1 = c1
  c2 = c2
  Callers = {c1, c2}
  Users = {boss, client}
  Workspaces = {w1, w2}
  DefaultAdmin = boss
  DefaultClient = client
  DefaultWorkspace = w1
  None = None
  MaxLoads = 4
SPECIFICATION Spec
SYMMETRY Symmetric
INVARIANTS TypeOK PasswordStands MembershipValid
PROPERTIES UsedIsRefused AdministratorRemains
CHECK_DEADLOCK FALSE
