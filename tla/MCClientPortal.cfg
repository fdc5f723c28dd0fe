\* One page, as pages share nothing but the session, with two submissions,
\* and one request that fails or one finished job that is taken back or executed again.
CONSTANTS
  Jobs = {j1, j2}
  Pages = {p1}
  None = None
  MaxFaults = 1
  MaxAnswers = 2
SPECIFICATION Spec
INVARIANTS TypeOK IntervalsOwned DoneIsDownloadable BusyIsUnderWay
PROPERTIES PollingEnds EndIsShown
CHECK_DEADLOCK FALSE
