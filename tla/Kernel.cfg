CONSTANTS
  SCHED_TYPE = "PRIO"
  Parts = {"sem", "timed", "mutex", "msg", "scarce", "threads", "buf", "fifo", "heap"}
SPECIFICATION Spec
INVARIANTS
  
  SemaphoresTrue
  MutexTrue
  
  QueuesTrue
