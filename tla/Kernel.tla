------------------------------- MODULE Kernel -------------------------------
(***************************************************************************)
(* The core of xilkernel: process table, ready queues, wait queues, soft   *)
(* timers and the scheduler (sys/process.c, sched.c, timer.c, the timer    *)
(* interrupt and the entry code of arch/ppc).                              *)
(*                                                                         *)
(* Kernel code runs with interrupts off, so that a system call is atomic   *)
(* up to the point where it suspends the caller.  The kernel's data is one *)
(* record k and its routines are operators from one such record to the     *)
(* next: system calls nest them.  The rest of a call that was suspended is *)
(* kept in kont and runs, interrupts still off, when the process is        *)
(* scheduled again.                                                        *)
(***************************************************************************)
EXTENDS KernelQueue, FiniteSets, FiniteSetsExt

CONSTANTS
  MAX_PROCESS_CONTEXTS,    \* process 0 is the idle task
  MAX_READYQ, MAX_TMRS,
  SCHED_TYPE,              \* "RR" or "PRIO"
  PRIO_LOWEST,             \* 0 is the highest priority
  WaitQueues               \* names of the queues a process can wait in

VARIABLES k, kont, kernel_ticks    \* the ticks are kept modulo 2

Procs == 0 .. MAX_PROCESS_CONTEXTS - 1
Idle == 0
NoQueue == -1
Done == [op |-> "none"]

\* The kernel after xilkernel_init, with the processes of ps created.
Start(ps, prio) ==
  [state |-> [p \in Procs |-> IF p = Idle THEN "RUN"
                              ELSE IF p \in ps THEN "NEW" ELSE "DEAD"],
   alloc |-> [p \in Procs |-> p = Idle \/ p \in ps],
   prio |-> prio,
   blockq |-> [p \in Procs |-> NoQueue],
   timeout |-> [p \in Procs |-> FALSE],
   ready |-> [i \in 0 .. PRIO_LOWEST |->
                SetToSortSeq({p \in ps : IF SCHED_TYPE = "RR" THEN i = 0 ELSE prio[p] = i}, <)],
   wait |-> [q \in WaitQueues |-> <<>>],
   tmrs |-> <<>>,             \* active_tmrs, with pid and timeout of each
   current |-> Idle,
   resched |-> SCHED_TYPE = "PRIO", did_resched |-> FALSE,
   timer_need_refresh |-> FALSE, sched_partial_tick |-> FALSE]
-----------------------------------------------------------------------------
\* Queues of the configured discipline.
ReadyOf(s, p) == IF SCHED_TYPE = "RR" THEN 0 ELSE s.prio[p]

Enready(s, p) ==
  [s EXCEPT !.ready[ReadyOf(s, p)] = penq(@, MAX_READYQ, p)]

WaitEnq(s, q, max, p) ==
  IF SCHED_TYPE = "RR" THEN penq(s.wait[q], max, p)
  ELSE prio_penq(s.wait[q], max, p, s.prio)

WaitDeq(s, q) ==
  IF SCHED_TYPE = "RR" THEN Tail(s.wait[q]) ELSE prio_pdeq(s.wait[q], s.prio)

WaitDel(s, q, p) ==
  IF SCHED_TYPE = "RR" THEN pdelq(s.wait[q], p)
  ELSE prio_pdelq(s.wait[q], p, s.prio)
-----------------------------------------------------------------------------
\* Timers.
remove_tmr(s, p) == [s EXCEPT !.tmrs = SelectSeq(@, LAMBDA t : t.pid # p)]

\* Out of timers, nothing is added.
add_tmr(s, p, ticks) ==
  IF Len(s.tmrs) = MAX_TMRS THEN s
  ELSE [s EXCEPT !.tmrs = Append(@, [pid |-> p, left |-> ticks])]

\* A slip that leaves a timed out process in its wait queue.
handle_timeoutMutant(s, p) ==
  [Enready([s EXCEPT !.state[p] = "READY", !.timeout[p] = s.blockq[p] # NoQueue,
                     !.blockq[p] = NoQueue], p) EXCEPT !.resched = TRUE]

handle_timeout(s, p) ==
  LET q == s.blockq[p]
      t == IF q = NoQueue THEN s
           ELSE [s EXCEPT !.wait[q] = WaitDel(s, q, p),
                          !.timeout[p] = TRUE, !.blockq[p] = NoQueue]
  IN  [Enready([t EXCEPT !.state[p] = "READY"], p) EXCEPT !.resched = TRUE]

RECURSIVE TimeOut(_, _)
TimeOut(s, expired) ==
  IF expired = <<>> THEN s ELSE TimeOut(handle_timeout(s, Head(expired).pid), Tail(expired))

\* A slip that ends after the first timer that expires.
soft_tmr_handlerMutant(s) ==
  LET counted == [i \in DOMAIN s.tmrs |-> [s.tmrs[i] EXCEPT !.left = @ - 1]]
      expired == SelectSeq(counted, LAMBDA t : t.left = 0)
  IN  [IF expired = <<>> THEN s ELSE handle_timeout(s, expired[1].pid)
         EXCEPT !.tmrs = SelectSeq(counted, LAMBDA t : t.left # 0)]

soft_tmr_handler(s) ==
  LET counted == [i \in DOMAIN s.tmrs |-> [s.tmrs[i] EXCEPT !.left = @ - 1]]
      expired == SelectSeq(counted, LAMBDA t : t.left = 0)
  IN  [TimeOut(s, expired)
         EXCEPT !.tmrs = SelectSeq(counted, LAMBDA t : t.left # 0)]
-----------------------------------------------------------------------------
\* The scheduler.  Dead processes are dropped as they come to the head of a
\* ready queue.
RECURSIVE Flush(_, _)
Flush(q, state) ==
  IF q # <<>> /\ state[Head(q)] = "DEAD" THEN Flush(Tail(q), state) ELSE q

\* A slip that puts the running process back at the head of its queue.
EnqueueCurrentMutant(s) ==
  IF s.state[s.current] # "RUN" THEN s
  ELSE LET t == [s EXCEPT !.state[s.current] = "READY"]
       IN  IF s.current = Idle THEN t
           ELSE [t EXCEPT !.ready[ReadyOf(t, s.current)] = <<s.current>> \o @]

EnqueueCurrent(s) ==
  IF s.state[s.current] # "RUN" THEN s
  ELSE LET t == [s EXCEPT !.state[s.current] = "READY"]
       IN  IF s.current = Idle THEN t ELSE Enready(t, s.current)

scheduler(s) ==
  LET t == EnqueueCurrent(s)
      flushed == [i \in DOMAIN t.ready |-> Flush(t.ready[i], t.state)]
      some == {i \in DOMAIN flushed : flushed[i] # <<>>}
      first == Min(some)
      next == IF some = {} THEN Idle ELSE Head(flushed[first])
  IN  [t EXCEPT !.ready = [i \in DOMAIN @ |->
                             IF some = {} \/ i < first THEN <<>>
                             ELSE IF i = first THEN Tail(flushed[i]) ELSE @[i]],
                !.state[next] = "RUN", !.current = next,
                !.did_resched = TRUE, !.resched = FALSE]

\* The PIT on the way to the process restored: a full slice after a timer
\* interrupt, otherwise what is left of the last one.
pit_reset(s) ==
  IF s.timer_need_refresh
  THEN [s EXCEPT !.timer_need_refresh = FALSE, !.sched_partial_tick = FALSE,
                 !.did_resched = FALSE]
  ELSE [s EXCEPT !.sched_partial_tick = @ \/ s.did_resched,
                 !.did_resched = FALSE]

suspend(s) == pit_reset(scheduler(s))

\* The end of every system call.
ret_syscall(s) ==
  IF ~s.resched THEN s
  ELSE LET t == scheduler(s)
       IN  IF t.current = s.current /\ s.state[s.current] # "DEAD"
           THEN t ELSE pit_reset(t)

\* The end of an interrupt.
out_irq(s) == pit_reset(IF s.resched THEN scheduler(s) ELSE s)

timer_int_handler(s) ==
  LET t == soft_tmr_handler(s)
  IN  [t EXCEPT !.resched = IF s.sched_partial_tick
                            THEN @ /\ SCHED_TYPE # "RR" ELSE TRUE,
                !.sched_partial_tick = FALSE, !.timer_need_refresh = TRUE]
-----------------------------------------------------------------------------
\* Processes.
FirstFree(s) == {p \in Procs : ~s.alloc[p] /\ \A o \in Procs : o < p => s.alloc[o]}

\* proc_create; the caller has found p to be the first free context.
proc_create(s, p, prio) ==
  [Enready([s EXCEPT !.alloc[p] = TRUE, !.state[p] = "NEW", !.prio[p] = prio,
                     !.blockq[p] = NoQueue], p)
     EXCEPT !.resched = @ \/ SCHED_TYPE = "PRIO"]

process_invalidate(s, p) ==
  [s EXCEPT !.alloc[p] = FALSE, !.state[p] = "DEAD"]

\* The caller waits in q, of at most max processes.
process_block(s, q, max, state) ==
  suspend([s EXCEPT !.wait[q] = WaitEnq(s, q, max, s.current),
                    !.blockq[s.current] = q, !.state[s.current] = state])

process_unblock(s, q) ==
  IF s.wait[q] = <<>> THEN s
  ELSE LET p == Head(s.wait[q])
           t == IF s.state[p] = "TIMED_WAIT" THEN remove_tmr(s, p) ELSE s
       IN  [Enready([t EXCEPT !.wait[q] = WaitDeq(s, q), !.state[p] = "READY",
                              !.blockq[p] = NoQueue], p)
              EXCEPT !.resched = @ \/ SCHED_TYPE = "PRIO"]

\* The processes that a semaphore of this value holds back are let go.
RECURSIVE UnblockAll(_, _, _)
UnblockAll(s, q, value) ==
  IF value > 0 \/ s.wait[q] = <<>> THEN s
  ELSE UnblockAll(process_unblock(s, q), q, value + 1)

\* sys_kill of another process: off its queue and its timer, then gone.
Unqueue(s, p) ==
  LET t == IF s.state[p] = "READY"
           THEN [s EXCEPT !.ready[ReadyOf(s, p)] = pdelq(@, p)]
           ELSE IF s.state[p] \in {"WAIT", "TIMED_WAIT"}
           THEN [s EXCEPT !.wait[s.blockq[p]] = WaitDel(s, s.blockq[p], p)]
           ELSE s
  IN  IF s.state[p] \in {"TIMED_WAIT", "DELAY"} THEN remove_tmr(t, p) ELSE t
-----------------------------------------------------------------------------
\* The running process is in user mode and may make a call or be interrupted.
self == k.current
User == self # Idle /\ kont[self].op = "none"

\* A call of the running process that leaves kernel state s, and c to do when
\* the process is scheduled again.
Call(s, c) ==
  k' = ret_syscall(s) /\ kont' = [kont EXCEPT ![self] = c] /\ UNCHANGED kernel_ticks
Suspended(s, c) ==
  k' = s /\ kont' = [kont EXCEPT ![self] = c] /\ UNCHANGED kernel_ticks

Tick ==
  /\ kont[self].op = "none"
  /\ kernel_ticks' = 1 - kernel_ticks
  /\ k' = out_irq(timer_int_handler(k))
  /\ UNCHANGED kont

\* Time passes, and a process scheduled inside the kernel runs on: the only
\* steps that change kernel_ticks, and that take a process out of a call.
TicksOn == kont[self].op = "none" /\ kernel_ticks' = 1 - kernel_ticks
RunsOn == kont[self].op # "none" /\ kont' = [kont EXCEPT ![self] = Done]
KernelFairness == WF_kernel_ticks(TicksOn) /\ WF_kont(RunsOn)

sys_yield == User /\ Call([k EXCEPT !.resched = TRUE], Done)

\* Awakens after the timeout, and returns; without a timer it returns at once.
sys_sleep(ticks) ==
  /\ User
  /\ IF Len(k.tmrs) = MAX_TMRS THEN Call(k, Done)
     ELSE Suspended(suspend([add_tmr(k, self, ticks)
                               EXCEPT !.state[self] = "DELAY"]),
                    [op |-> "sleep"])

Awaken == kont[self].op = "sleep" /\ Call(k, Done)
-----------------------------------------------------------------------------
Places(s, p) == Cardinality(UNION {{<<i, n>> : n \in {n \in DOMAIN s.ready[i] :
                                      s.ready[i][n] = p}} : i \in DOMAIN s.ready})
Timers(s, p) == Cardinality({n \in DOMAIN s.tmrs : s.tmrs[n].pid = p})
InWait(s, p, q) == Cardinality({n \in DOMAIN s.wait[q] : s.wait[q][n] = p})

\* What the process table says of a process is where it is: ready and new
\* processes stand in a ready queue once, waiting ones in the one queue they
\* are blocked on, delayed and timed ones have their one timer, and nobody has
\* anything more.  This is what the states of process.h mean.
TableTrue ==
  /\ k.state[self] = "RUN" /\ \A p \in Procs : k.state[p] = "RUN" => p = self
  /\ \A p \in Procs \ {Idle} :
       /\ Places(k, p) <= 1
       /\ k.state[p] # "DEAD" =>
            (Places(k, p) = 1 <=> k.state[p] \in {"READY", "NEW"})
       /\ Timers(k, p) = IF k.state[p] \in {"TIMED_WAIT", "DELAY"} THEN 1 ELSE 0
       /\ \A q \in WaitQueues : InWait(k, p, q) =
            IF k.state[p] \in {"WAIT", "TIMED_WAIT"} /\ k.blockq[p] = q
            THEN 1 ELSE 0
       /\ k.state[p] \in {"WAIT", "TIMED_WAIT"} => k.blockq[p] # NoQueue

\* Round robin: whoever is ready gets to run.
ReadyRuns == \A p \in Procs \ {Idle} :
  k.state[p] \in {"READY", "NEW"} ~> k.state[p] \notin {"READY", "NEW"}
=============================================================================
