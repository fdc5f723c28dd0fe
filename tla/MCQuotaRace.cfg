\* Two submitters and the scheduler race for the row of one workspace within a
\* month, under plan changes between a limit of one and of two jobs.
CONSTANTS
  Submitters = {s1, s2}
  Readers = {}
  Scheduler = scheduler
  Workspaces = {w1}
  Limits = {1, 2}
  Retention = 1
  MaxPeriod = 0
  Unread = Unread
  Nobody = Nobody
SPECIFICATION FairSpec
INVARIANTS TypeOK
PROPERTIES NoOverage EveryRequestAnswered
