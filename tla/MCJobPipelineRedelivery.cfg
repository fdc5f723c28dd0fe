\* The same with a broker that may deliver a message again and a publish that
\* may raise after it succeeded.
CONSTANTS
  Jobs = {j1, j2}
  Workers = {x1, x2}
  Backends = {"celery"}
  Storages = {"local", "s3"}
  Faults = {"handler", "execution", "report", "crash", "duplicate", "ambiguous"}
  MaxFaults = 2
  NoJob = NoJob
SPECIFICATION Spec
INVARIANTS UploadsMatchJobs SomebodyCarriesOn DownloadsServed
