\* Two submitters and a reader of one workspace over three months with one month
\* of retention, so that the scheduler purges month 0 while requests of it run.
CONSTANTS
  Submitters = {s1, s2}
  Readers = {v1}
  Scheduler = scheduler
  Workspaces = {w1}
  Limits = {1}
  Retention = 1
  MaxPeriod = 2
  Unread = Unread
  Nobody = Nobody
SPECIFICATION Spec
SYMMETRY SubmitterSymmetry
INVARIANTS CountMatchesJobs
PROPERTIES NoOverage ImplementsLedger
