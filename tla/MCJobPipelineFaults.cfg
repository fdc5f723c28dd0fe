\* Two jobs, two workers, either queue backend; up to two faults of the kinds
\* that keep delivery at most once.
CONSTANTS
  Jobs = {j1, j2}
  Workers = {x1, x2}
  Backends = {"local", "celery"}
  Storages = {"local", "s3"}
  Faults = {"handler", "execution", "report", "crash"}
  MaxFaults = 2
  NoJob = NoJob
SPECIFICATION FairSpec
INVARIANTS TypeOK UploadsMatchJobs SomebodyCarriesOn CompletedIsWhole DownloadsServed
PROPERTIES FinishesUnlessStruck ImplementsLifecycle
