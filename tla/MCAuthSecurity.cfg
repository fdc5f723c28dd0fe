\* Four requests of any kind on two threads of one process, with each backend and
\* one failure of Redis.  At time 1 everything of time 0 has left its window; a lockout
\* of time 0 has ended on Redis, which rounds, and has not ended in memory.
CONSTANTS
  c1 = c1
  c2 = c2
  Callers = {c1, c2}
  Processes = {p1}
  ProcessOf <- MCProcessOf
  Redis = Redis
  Backends = {"memory", "redis", "auto"}
  Ips = {i1}
  Emails = {e1}
  Limit <- MCLimit
  Window = 1
  Threshold = 2
  LockoutSeconds = 2
  RoundedOff = 1
  FailureWindow = 2
  Kinds = {"login", "request", "confirm"}
  None = None
  MaxTime = 1
  MaxRequests = 4
  MaxFaults = 1
SPECIFICATION Spec
SYMMETRY Symmetric
INVARIANTS TypeOK WindowBound AllowedIsCounted MissesBounded
