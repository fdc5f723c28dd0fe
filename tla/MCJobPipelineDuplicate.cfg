\* One message is delivered twice.
CONSTANTS
  Jobs = {j1}
  Workers = {x1, x2}
  Backends = {"celery"}
  Storages = {"local", "s3"}
  Faults = {"duplicate"}
  MaxFaults = 1
  NoJob = NoJob
SPECIFICATION Spec
PROPERTIES CompletedStays
