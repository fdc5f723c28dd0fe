\* The API process, which holds the local queue, dies once and starts again.
CONSTANTS
  Jobs = {j1}
  Workers = {x1}
  Backends = {"local"}
  Storages = {"local", "s3"}
  Faults = {"crash"}
  MaxFaults = 1
  NoJob = NoJob
SPECIFICATION FairSpec
PROPERTIES AcceptedJobFinishes
