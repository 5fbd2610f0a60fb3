------------------------------ MODULE MCKernel ------------------------------
(***************************************************************************)
(* xilkernel's services, each under its own workload.  They share the      *)
(* kernel record and nothing else, so a behaviour exercises one of them,   *)
(* named by part: its variables are x1, x2, ...                            *)
(***************************************************************************)
EXTENDS Integers, Sequences

CONSTANTS SCHED_TYPE, Parts

VARIABLES part, k, kont, kernel_ticks, x1, x2, x3, x4, x5, x6, x7

vars == <<part, k, kont, kernel_ticks, x1, x2, x3, x4, x5, x6, x7>>

\* Three processes and the idle task, at two priorities.
Contexts == 4
Lowest == IF SCHED_TYPE = "RR" THEN 0 ELSE 1

\* One semaphore, with every call but the timed wait.
Sem == INSTANCE KernelSem WITH
  MAX_PROCESS_CONTEXTS <- Contexts, MAX_READYQ <- 5, MAX_TMRS <- 3,
  PRIO_LOWEST <- Lowest, WaitQueues <- {0}, MAX_SEM <- 1, MAX_SEM_WAITQ <- 5,
  Calls <- {"init", "wait", "trywait", "post", "irq", "close", "destroy", "force_destroy"},
  Names <- {"name"}, InitValues <- {0, 1}, MaxValue <- 2, MaxTicks <- 2, MaxInits <- 2,
  sem <- x1, ret <- x2

\* One semaphore and timeouts; under round robin with yields and sleeps.
Timed == INSTANCE KernelSem WITH
  MAX_PROCESS_CONTEXTS <- Contexts, MAX_READYQ <- 5, MAX_TMRS <- 3,
  PRIO_LOWEST <- Lowest, WaitQueues <- {0}, MAX_SEM <- 1, MAX_SEM_WAITQ <- 5,
  Calls <- {"init", "timedwait", "post"}
           \cup (IF SCHED_TYPE = "RR" THEN {"yield", "sleep"} ELSE {"wait"}),
  Names <- {}, InitValues <- IF SCHED_TYPE = "RR" THEN {0} ELSE {0, 1},
  MaxValue <- IF SCHED_TYPE = "RR" THEN 1 ELSE 2, MaxTicks <- 2,
  MaxInits <- IF SCHED_TYPE = "RR" THEN 1 ELSE 2,
  sem <- x1, ret <- x2

\* One mutex for two handles.
Mutex == INSTANCE KernelMutex WITH
  MAX_PROCESS_CONTEXTS <- Contexts, MAX_READYQ <- 5, MAX_TMRS <- 1,
  PRIO_LOWEST <- Lowest, WaitQueues <- {0},
  MAX_PTHREAD_MUTEX <- 1, MAX_PTHREAD_MUTEX_WAITQ <- 5,
  Handles <- {"m", "n"}, MaxDepth <- 2,
  mutex <- x1, handle <- x2, holds <- x3, ret <- x4

\* A message queue of two places and three buffers, removed only when empty.
Msg == INSTANCE KernelMsg WITH
  MAX_PROCESS_CONTEXTS <- Contexts, MAX_READYQ <- 5, MAX_TMRS <- 1,
  PRIO_LOWEST <- Lowest, WaitQueues <- {0, 1}, MAX_SEM <- 2, MAX_SEM_WAITQ <- 5,
  MSGQ_CAPACITY <- 2, Bufs <- {"b1", "b2", "b3"}, MaxGets <- 1,
  RemoveFilled <- FALSE, OtherSems <- 0, SmallBuffers <- FALSE,
  sem <- x1, msgq <- x2, live <- x3, wild <- x4, sent <- x5, misdelivered <- x6, others <- x7

\* A queue of one place, removed at any time, whose semaphores others compete
\* for and whose receivers may have too small a buffer.
Scarce == INSTANCE KernelMsg WITH
  MAX_PROCESS_CONTEXTS <- Contexts, MAX_READYQ <- 5, MAX_TMRS <- 1,
  PRIO_LOWEST <- Lowest, WaitQueues <- {0, 1}, MAX_SEM <- 2, MAX_SEM_WAITQ <- 5,
  MSGQ_CAPACITY <- 1, Bufs <- {"b1", "b2"}, MaxGets <- 1,
  RemoveFilled <- TRUE, OtherSems <- 2, SmallBuffers <- TRUE,
  sem <- x1, msgq <- x2, live <- x3, wild <- x4, sent <- x5, misdelivered <- x6, others <- x7

\* A first thread and two more.
Threads == INSTANCE KernelThreads WITH
  MAX_PROCESS_CONTEXTS <- Contexts, MAX_READYQ <- 5, MAX_TMRS <- 1,
  PRIO_LOWEST <- Lowest, WaitQueues <- {0, 1, 2}, MAX_PTHREADS <- 3, MaxCreates <- 2,
  thr <- x1, thread <- x2, creates <- x3

\* Three areas for two pools.
Areas == <<[nblks |-> 3, blksiz |-> 1], [nblks |-> 2, blksiz |-> 2], [nblks |-> 1, blksiz |-> 2]>>

Buf == INSTANCE KernelStructs WITH
  Pid <- {}, Prio <- {}, max_items <- 0, N_MBUFS <- 2, Sizes <- {1, 2},
  citems <- x1, qfront <- x2, qend <- x3, item_count <- x4, item <- x5, line <- x6,
  heap <- x1, prio <- x2, waiting <- x3, served <- x4,
  mbufheap <- x1, word <- x2, held <- x3

\* Three processes, also enqueued more than once, in an array of four.
Fifo == INSTANCE KernelStructs WITH
  Pid <- 1 .. 3, Prio <- {0}, max_items <- 4, N_MBUFS <- 0, Sizes <- {},
  citems <- x1, qfront <- x2, qend <- x3, item_count <- x4, item <- x5, line <- x6,
  heap <- x1, prio <- x2, waiting <- x3, served <- x4,
  mbufheap <- x1, word <- x2, held <- x3

\* Five processes: three levels of the heap.
Heap == INSTANCE KernelStructs WITH
  Pid <- 1 .. 5, Prio <- 0 .. 2, max_items <- 5, N_MBUFS <- 0, Sizes <- {},
  citems <- x1, qfront <- x2, qend <- x3, item_count <- x4, item <- x5, line <- x6,
  heap <- x1, prio <- x2, waiting <- x3, served <- x4,
  mbufheap <- x1, word <- x2, held <- x3
-----------------------------------------------------------------------------
Off == "unused"
NoKernel == k = Off /\ kont = Off /\ kernel_ticks = Off

Init ==
  /\ part \in Parts
  /\ \/ part = "sem" /\ Sem!Init /\ x3 = Off /\ x4 = Off /\ x5 = Off /\ x6 = Off /\ x7 = Off
     \/ part = "timed" /\ Timed!Init /\ x3 = Off /\ x4 = Off /\ x5 = Off /\ x6 = Off /\ x7 = Off
     \/ part = "mutex" /\ Mutex!Init /\ x5 = Off /\ x6 = Off /\ x7 = Off
     \/ part = "msg" /\ Msg!Init
     \/ part = "scarce" /\ Scarce!Init
     \/ part = "threads" /\ Threads!Init /\ x4 = Off /\ x5 = Off /\ x6 = Off /\ x7 = Off
     \/ part = "buf" /\ Buf!BufInit /\ NoKernel /\ x4 = Off /\ x5 = Off /\ x6 = Off /\ x7 = Off
     \/ part = "fifo" /\ Fifo!FifoInit /\ NoKernel /\ x7 = Off
     \/ part = "heap" /\ Heap!HeapInit /\ NoKernel /\ x5 = Off /\ x6 = Off /\ x7 = Off

Next ==
  /\ UNCHANGED part
  /\ \/ part = "sem" /\ Sem!Next /\ UNCHANGED <<x3, x4, x5, x6, x7>>
     \/ part = "timed" /\ Timed!Next /\ UNCHANGED <<x3, x4, x5, x6, x7>>
     \/ part = "mutex" /\ Mutex!Next /\ UNCHANGED <<x5, x6, x7>>
     \/ part = "msg" /\ Msg!Next
     \/ part = "scarce" /\ Scarce!Next
     \/ part = "threads" /\ Threads!Next /\ UNCHANGED <<x4, x5, x6, x7>>
     \/ part = "buf" /\ Buf!BufNext /\ UNCHANGED <<k, kont, kernel_ticks, x4, x5, x6, x7>>
     \/ part = "fifo" /\ Fifo!FifoNext /\ UNCHANGED <<k, kont, kernel_ticks, x7>>
     \/ part = "heap" /\ Heap!HeapNext /\ UNCHANGED <<k, kont, kernel_ticks, x5, x6, x7>>

Spec == Init /\ [][Next]_vars
FairSpec == Spec /\ Threads!KernelFairness
-----------------------------------------------------------------------------
\* A process is where the process table says, whatever timeouts, posts, joins
\* and kills meet, and threads and process contexts belong to each other
\* (process_unblock, handle_timeout, sys_kill, sys_pthread_create,
\* sys_pthread_exit, sys_pthread_join).
TableTrue == /\ part = "timed" => Timed!TableTrue
             /\ part = "threads" => Threads!TableTrue /\ Threads!ThreadsTrue

\* Semaphores: nobody waits while a post that nobody took is there
\* (sys_sem_post), nobody is left waiting on a semaphore that is gone
\* (sys_sem_destroy, sys_sem_close, sem_force_destroy), and the count is exact
\* although a timed out wait is put back only when its process runs
\* (sys_sem_timedwait).
SemaphoresTrue == /\ part = "sem" => Sem!NoLostPost /\ Sem!NoneStranded
                  /\ part = "timed" => Timed!CountTrue

\* A mutex has one holder, and one given up is offered to a process that waits
\* (pthread_mutex_lock_basic, sys_pthread_mutex_unlock).
MutexTrue == part = "mutex" => Mutex!OneHolder /\ Mutex!FreeIsOffered

\* Messages arrive once and in order, every buffer has one owner, and nobody
\* waits for a message or a place that is there (sys_msgsnd, sys_msgrcv).
MessagesTrue == /\ part = "msg" => Msg!BuffersOwned /\ Msg!NoIdleWait
                /\ part = "scarce" => Scarce!InOrder

\* The circular array is the processes in line (penq, pdeq, pdelq); the heap
\* holds who waits and serves the highest priority first (prio_penq, prio_pdeq,
\* prio_pdelq); the chain of a pool is its free blocks (sys_bufmalloc, sys_buffree).
QueuesTrue == /\ part = "fifo" => Fifo!ArrayIsLine
              /\ part = "heap" => Heap!HoldsTheWaiting /\ Heap!HighestFirst
              /\ part = "buf" => Buf!ChainTrue

\* Whoever is ready comes to run under round robin (sched_rr).
ReadyRuns == Timed!ReadyRuns

Untaken(i) == part = "mutex" /\ Mutex!Untaken(i)
JoinsEnded(p, t) == part = "threads" /\ Threads!JoinsEnded(p, t)

\* A timed wait ends, whoever posts or does not (soft_tmr_handler); a mutex free
\* while processes wait is taken (sys_pthread_mutex_unlock); and the join of a
\* thread that ends returns (sys_pthread_join).
WaitsEnd ==
  /\ Timed!TimedWaitEnds
  /\ \A i \in Mutex!Slots : Untaken(i) ~> ~Untaken(i)
  /\ \A p \in Threads!Procs, t \in Threads!Thr : JoinsEnded(p, t) ~> ~JoinsEnded(p, t)

\* A timed wait blocks only "If resource unavailable" (semaphore.c:388).
TimedLosesNoPost == part = "timed" => Timed!NoLostPost
=============================================================================
