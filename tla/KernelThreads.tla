--------------------------- MODULE KernelThreads ---------------------------
(***************************************************************************)
(* xilkernel's threads (sys/pthread.c) and kill (sys/process.c) on top of  *)
(* its scheduler.  A thread has a slot of thread_info_list and, while it   *)
(* is alive or waits to be joined, a process context and a stack.          *)
(*                                                                         *)
(* The threads keep to what pthread.c can do: they do not join a thread    *)
(* created detached, nor join or detach one that another is about to free, *)
(* and they do not kill a process before it has run (its place in the      *)
(* ready queue would stay) or while it waits to join (join_thread would    *)
(* stay set).                                                              *)
(***************************************************************************)
EXTENDS Kernel

CONSTANTS
  MAX_PTHREADS,
  MaxCreates       \* bound on the threads created

VARIABLES
  thr,             \* thread_info_list
  thread,          \* of each process context, its thread
  creates          \* how many threads have been created

vars == <<k, kont, kernel_ticks, thr, thread, creates>>
Thr == 0 .. MAX_PTHREADS - 1
None == -1

\* thread_info after invalidate_thread_info.  The joinq of thread t is the wait
\* queue t of the kernel.
NoThread == [is_allocated |-> FALSE, state |-> "DETACHED", join_thread |-> None,
             detachstate |-> "CREATE_DETACHED", parent |-> None, mem |-> FALSE]

Alive(p, detachstate) ==
  [is_allocated |-> TRUE, state |-> "ALIVE", join_thread |-> None,
   detachstate |-> detachstate, parent |-> p, mem |-> TRUE]

\* Thread 0, in process 1, is the one the kernel is started with.
Init ==
  /\ k = Start({1}, [p \in Procs |-> PRIO_LOWEST])
  /\ kont = [p \in Procs |-> Done] /\ kernel_ticks = 0
  /\ thr = [t \in Thr |-> IF t = 0 THEN Alive(1, "CREATE_JOINABLE") ELSE NoThread]
  /\ thread = [p \in Procs |-> IF p = 1 THEN 0 ELSE None]
  /\ creates = 0
-----------------------------------------------------------------------------
FirstFreeThread == {t \in Thr : ~thr[t].is_allocated /\
                                \A u \in Thr : u < t => thr[u].is_allocated}

\* Fails without a thread slot (a stack goes with it) or without a context; the
\* slot taken is given back.
sys_pthread_create(prio, detachstate) ==
  /\ User
  /\ \/ /\ FirstFreeThread = {} \/ FirstFree(k) = {}
        /\ Call(k, Done) /\ UNCHANGED <<thr, thread, creates>>
     \/ /\ creates < MaxCreates
        /\ \E t \in FirstFreeThread, p \in FirstFree(k) :
             /\ thr' = [thr EXCEPT ![t] = Alive(p, detachstate)]
             /\ thread' = [thread EXCEPT ![p] = t]
             /\ creates' = creates + 1
             /\ Call([proc_create(k, p, prio) EXCEPT !.wait[t] = <<>>], Done)

\* What is left of thread t, and of the kernel, when it ends: whoever waits to
\* join is woken; a detached thread vanishes, another stays until it is joined.
Wake(s, t) == IF thr[t].join_thread # None THEN process_unblock(s, t) ELSE s

Vanish(s, t) == [process_invalidate(s, thr[t].parent) EXCEPT !.wait[t] = <<>>]

Ended(s, t) ==
  IF thr[t].detachstate = "CREATE_DETACHED" THEN Vanish(Wake(s, t), t)
  ELSE [Wake(s, t) EXCEPT !.state[thr[t].parent] = "DEAD"]

EndedThr(t) ==
  [thr EXCEPT ![t] = IF @.detachstate = "CREATE_DETACHED" THEN NoThread
                     ELSE [@ EXCEPT !.state = "EXIT"]]

sys_pthread_exit ==
  /\ User
  /\ thr' = EndedThr(thread[self])
  /\ Suspended(suspend(Ended(k, thread[self])), Done)
  /\ UNCHANGED <<thread, creates>>

\* Of another process; killing oneself is an exit.  The state decides where the
\* process is taken out.
sys_kill(p) ==
  /\ User /\ p \notin {self, Idle} /\ k.alloc[p]
  /\ k.state[p] # "NEW" /\ kont[p].op # "join"
  /\ thr' = EndedThr(thread[p])
  /\ k' = ret_syscall([Ended(Unqueue(k, p), thread[p]) EXCEPT !.resched = TRUE])
  /\ kont' = [kont EXCEPT ![p] = Done]
  /\ UNCHANGED <<kernel_ticks, thread, creates>>
-----------------------------------------------------------------------------
Joining(t) == {p \in Procs : kont[p].op = "join" /\ kont[p].target = t}

Freed(t) == /\ thr' = [thr EXCEPT ![t] = NoThread]
            /\ Call(Vanish(k, t), Done)

Taken(t) == thr[t].join_thread # None

sys_pthread_join(t) ==
  /\ User /\ t # thread[self]
  /\ thr[t].is_allocated => thr[t].detachstate # "CREATE_DETACHED"
  /\ thr[t].state = "EXIT" => Joining(t) = {}
  /\ \/ /\ thr[t].state = "ALIVE" /\ Taken(t)
        /\ Call(k, Done) /\ UNCHANGED thr
     \/ /\ thr[t].state = "ALIVE" /\ ~Taken(t)
        /\ thr' = [thr EXCEPT ![t].join_thread = thread[self]]
        /\ Suspended(process_block(k, t, 1, "WAIT"),
                     [op |-> "join", target |-> t])
     \/ thr[t].state = "DETACHED" /\ Call(k, Done) /\ UNCHANGED thr
     \/ thr[t].state = "EXIT" /\ Freed(t)
  /\ UNCHANGED <<thread, creates>>

join_resumed ==
  /\ kont[self].op = "join"
  /\ LET t == kont[self].target
     IN  \/ thr[t].state = "DETACHED" /\ Call(k, Done) /\ UNCHANGED thr
         \/ thr[t].state # "DETACHED" /\ Freed(t)
  /\ UNCHANGED <<thread, creates>>

\* The detachstate stored is not the one an exit looks for.
sys_pthread_detach(t) ==
  /\ User /\ thr[t].is_allocated /\ Joining(t) = {}
  /\ \/ thr[t].state = "EXIT" /\ Freed(t)
     \/ /\ thr[t].state # "EXIT"
        /\ thr' = [thr EXCEPT ![t].detachstate = "STATE_DETACHED"]
        /\ Call(k, Done)
  /\ UNCHANGED <<thread, creates>>

\* The process changes its queue with its priority, or its place in a heap; one
\* that has not yet run keeps both.
Requeued(s, p, prio) ==
  LET t == [s EXCEPT !.prio[p] = prio]
  IN  IF p = s.current \/ s.state[p] = "DELAY" THEN t
      ELSE IF s.state[p] = "READY"
      THEN Enready([t EXCEPT !.ready[ReadyOf(s, p)] = pdelq(@, p)], p)
      ELSE IF s.state[p] \in {"WAIT", "TIMED_WAIT"}
      THEN LET q == s.blockq[p]
               u == [t EXCEPT !.wait[q] = WaitDel(s, q, p)]
           IN  [u EXCEPT !.wait[q] = WaitEnq(u, q, 1, p)]
      ELSE s

sys_pthread_setschedparam(t, prio) ==
  /\ User /\ SCHED_TYPE = "PRIO" /\ thr[t].parent # None
  /\ Call([Requeued(k, thr[t].parent, prio) EXCEPT !.resched = TRUE], Done)
  /\ UNCHANGED <<thr, thread, creates>>
-----------------------------------------------------------------------------
Next ==
  \/ \E prio \in 0 .. PRIO_LOWEST :
       \/ \E d \in {"CREATE_DETACHED", "CREATE_JOINABLE"} : sys_pthread_create(prio, d)
       \/ \E t \in Thr : sys_pthread_setschedparam(t, prio)
  \/ sys_pthread_exit
  \/ \E t \in Thr : sys_pthread_join(t) \/ sys_pthread_detach(t)
  \/ join_resumed
  \/ \E p \in Procs : sys_kill(p)
  \/ (Tick \/ sys_sleep(1) \/ Awaken) /\ UNCHANGED <<thr, thread, creates>>

Spec == Init /\ [][Next]_vars
FairSpec == Spec /\ KernelFairness
-----------------------------------------------------------------------------
\* Threads and process contexts belong to each other, one to one: a thread alive
\* has a context that is not dead, a thread that ended has one that is dead and
\* still allocated, and a context without a thread, or a stack without one,
\* does not exist.
ThreadsTrue ==
  /\ \A t \in Thr :
       /\ thr[t].is_allocated <=> thr[t].state # "DETACHED"
       /\ thr[t].mem <=> thr[t].is_allocated
       /\ thr[t].is_allocated =>
            /\ k.alloc[thr[t].parent] /\ thread[thr[t].parent] = t
            /\ k.state[thr[t].parent] = "DEAD" <=> thr[t].state = "EXIT"
  /\ \A p \in Procs \ {Idle} : k.alloc[p] =>
       thr[thread[p]].is_allocated /\ thr[thread[p]].parent = p

\* A join of a thread that ends returns.
JoinsEnded(p, t) == p \in Joining(t) /\ thr[t].state = "EXIT"
JoinReturns == \A p \in Procs, t \in Thr : JoinsEnded(p, t) ~> ~JoinsEnded(p, t)
=============================================================================
