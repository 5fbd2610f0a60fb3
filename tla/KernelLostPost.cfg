CONSTANTS
  SCHED_TYPE = "PRIO"
  Parts = {"timed"}
SPECIFICATION Spec
INVARIANT TimedLosesNoPost
