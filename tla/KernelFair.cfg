CONSTANTS
  SCHED_TYPE = "RR"
  Parts = {"timed", "mutex", "threads"}
SPECIFICATION FairSpec
PROPERTIES
  ReadyRuns
  WaitsEnd
