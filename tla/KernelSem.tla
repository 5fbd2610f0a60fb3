----------------------------- MODULE KernelSem -----------------------------
(***************************************************************************)
(* xilkernel's semaphores (ipc/semaphore.c) on top of its scheduler:       *)
(* anonymous and named, with waits that block, time out or are forced out. *)
(***************************************************************************)
EXTENDS Kernel

CONSTANTS
  MAX_SEM, MAX_SEM_WAITQ,
  Calls,                   \* the system calls the processes make
  Names,                   \* names for sem_open
  InitValues, MaxValue,    \* bounds on a semaphore's value
  MaxTicks,                \* longest timeout
  MaxInits                 \* bound on the semaphores made in a slot

VARIABLES sem, ret

vars == <<k, kont, kernel_ticks, sem, ret>>
Sems == 0 .. MAX_SEM - 1
NoName == "no name"

\* sem_id # -1 is "valid".  unclaimed and inits are history: the value the
\* semaphore began with plus the posts that no wait has taken, and how many
\* semaphores the slot has been.
NoSem == [valid |-> FALSE, value |-> 0, unlink |-> FALSE, name |-> NoName,
          unclaimed |-> 0, inits |-> 0]

Init ==
  /\ k = Start(Procs \ {Idle}, [p \in Procs |-> IF p = Idle THEN PRIO_LOWEST
                                               ELSE p % (PRIO_LOWEST + 1)])
  /\ kont = [p \in Procs |-> Done] /\ kernel_ticks = 0
  /\ sem = [s \in Sems |-> NoSem]
  /\ ret = ""

Return(s, r) == Call(s, Done) /\ ret' = r
-----------------------------------------------------------------------------
FirstSem == {s \in Sems : ~sem[s].valid /\ \A t \in Sems : t < s => sem[t].valid}

NewSem(s, value, name) ==
  /\ sem[s].inits < MaxInits
  /\ sem' = [sem EXCEPT ![s] = [@ EXCEPT !.valid = TRUE, !.value = value,
               !.unlink = FALSE, !.name = name,
               !.unclaimed = value, !.inits = @ + 1]]

\* Takes the first free slot, whose wait queue it empties; the name the slot
\* was opened under stays.
sys_sem_init(value) ==
  /\ User
  /\ \/ FirstSem = {} /\ Return(k, "ENOSPC") /\ UNCHANGED sem
     \/ \E s \in FirstSem :
          /\ NewSem(s, value, sem[s].name)
          /\ Return([k EXCEPT !.wait[s] = <<>>], "0")

get_semt_by_name(name) == {s \in Sems : sem[s].name = name /\ sem[s].valid}

sys_sem_open(name, value) ==
  /\ User
  /\ LET found == get_semt_by_name(name)
     IN  \/ found # {} /\ Return(k, "0") /\ UNCHANGED sem
         \/ found = {} /\ FirstSem = {} /\ Return(k, "ENOSPC") /\ UNCHANGED sem
         \/ /\ found = {}
            /\ \E s \in FirstSem :
                 /\ NewSem(s, value, name)
                 /\ Return([k EXCEPT !.wait[s] = <<>>], "0")

Busy(s) == sem[s].value <= 0 /\ k.wait[s] # <<>>

Gone(s, name) == [sem EXCEPT ![s] =
  [NoSem EXCEPT !.name = name, !.inits = sem[s].inits]]

sys_sem_close(s) ==
  /\ User
  /\ \/ ~sem[s].valid /\ Return(k, "EINVAL") /\ UNCHANGED sem
     \/ sem[s].valid /\ Busy(s) /\ Return(k, "ENOTSUP") /\ UNCHANGED sem
     \/ sem[s].valid /\ ~Busy(s) /\ Return(k, "0") /\ sem' = Gone(s, NoName)

sys_sem_unlink(name) ==
  /\ User
  /\ \/ /\ get_semt_by_name(name) = {}
        /\ Return(k, "ENOENT") /\ UNCHANGED sem
     \/ /\ get_semt_by_name(name) # {}
        /\ LET s == Min(get_semt_by_name(name))
           IN  sem' = IF sem[s].value <= 0 THEN [sem EXCEPT ![s].unlink = TRUE]
                      ELSE Gone(s, NoName)
        /\ Return(k, "0")

sys_sem_destroy(s) ==
  /\ User
  /\ \/ ~sem[s].valid /\ Return(k, "EINVAL") /\ UNCHANGED sem
     \/ sem[s].valid /\ Busy(s) /\ Return(k, "EBUSY") /\ UNCHANGED sem
     \/ /\ sem[s].valid /\ ~Busy(s) /\ Return(k, "0")
        /\ sem' = Gone(s, sem[s].name)

\* Only the kernel calls it, when it removes a message queue.
sem_force_destroy(s) ==
  /\ User /\ sem[s].valid
  /\ Return(UnblockAll(k, s, sem[s].value), "0")
  /\ sem' = Gone(s, sem[s].name)
-----------------------------------------------------------------------------
Lower(s) == [sem EXCEPT ![s].value = @ - 1,
                        ![s].unclaimed = IF sem[s].value > 0 THEN @ - 1 ELSE @]

Waiting(op, s) == [op |-> op, sem |-> s]

sys_sem_wait(s) ==
  /\ User
  /\ \/ ~sem[s].valid /\ Return(k, "EINVAL") /\ UNCHANGED sem
     \/ sem[s].valid /\ sem[s].value > 0 /\ Return(k, "0") /\ sem' = Lower(s)
     \/ /\ sem[s].valid /\ sem[s].value <= 0
        /\ Suspended(process_block(k, s, MAX_SEM_WAITQ, "WAIT"), Waiting("wait", s))
        /\ sem' = Lower(s) /\ UNCHANGED ret

sys_sem_timedwait(s, ticks) ==
  /\ User
  /\ \/ ~sem[s].valid /\ Return(k, "EINVAL") /\ UNCHANGED sem
     \/ sem[s].valid /\ sem[s].value > 0 /\ Return(k, "0") /\ sem' = Lower(s)
     \/ /\ sem[s].valid /\ sem[s].value <= 0
        /\ Suspended(process_block(add_tmr(k, self, ticks), s, MAX_SEM_WAITQ,
                                   "TIMED_WAIT"), Waiting("timedwait", s))
        /\ sem' = Lower(s) /\ UNCHANGED ret

\* The rest of a wait, when its process is scheduled again.
Removed(s) == IF sem[s].valid THEN "0" ELSE "EIDRM"

sem_wait_resumed ==
  /\ kont[self].op = "wait"
  /\ Return(k, Removed(kont[self].sem)) /\ UNCHANGED sem

\* A slip that keeps the count lowered after a timeout.
RestoreValueMutant(s) == sem

RestoreValue(s) == [sem EXCEPT ![s].value = @ + 1]

sem_timedwait_resumed ==
  /\ kont[self].op = "timedwait"
  /\ LET s == kont[self].sem
     IN  \/ /\ k.timeout[self]
            /\ sem' = RestoreValue(s)
            /\ Return([k EXCEPT !.timeout[self] = FALSE], "ETIMEDOUT")
         \/ /\ ~k.timeout[self]
            /\ Return(remove_tmr(k, self), Removed(s)) /\ UNCHANGED sem

sys_sem_trywait(s) ==
  /\ User
  /\ \/ ~sem[s].valid /\ Return(k, "EINVAL") /\ UNCHANGED sem
     \/ sem[s].valid /\ sem[s].value > 0 /\ Return(k, "0") /\ sem' = Lower(s)
     \/ sem[s].valid /\ sem[s].value <= 0 /\ Return(k, "EAGAIN") /\ UNCHANGED sem

\* Whether a post finds someone to wake.
Wakes(s) == sem[s].value + 1 <= 0 /\ k.wait[s] # <<>>

Posted(s) ==
  IF sem[s].value + 1 > 0 /\ sem[s].unlink THEN Gone(s, sem[s].name)
  ELSE [sem EXCEPT ![s].value = @ + 1,
                   ![s].unclaimed = IF k.wait[s] # <<>> /\ Wakes(s) THEN @ ELSE @ + 1]

PostedK(s) == IF Wakes(s) THEN process_unblock(k, s) ELSE k

sys_sem_post(s) ==
  /\ User
  /\ \/ ~sem[s].valid /\ Return(k, "EINVAL") /\ UNCHANGED sem
     \/ /\ sem[s].valid /\ sem[s].value < MaxValue
        /\ Return(PostedK(s), "0") /\ sem' = Posted(s)

\* A device's interrupt handler posts; the switch is left to the end of the
\* interrupt.
irq_sem_post(s) ==
  /\ kont[self].op = "none" /\ sem[s].valid /\ sem[s].value < MaxValue
  /\ k' = out_irq(PostedK(s)) /\ sem' = Posted(s)
  /\ UNCHANGED <<kont, kernel_ticks, ret>>
-----------------------------------------------------------------------------
OnSem(s) ==
  \/ "wait" \in Calls /\ sys_sem_wait(s)
  \/ "timedwait" \in Calls /\ \E n \in 1 .. MaxTicks : sys_sem_timedwait(s, n)
  \/ "trywait" \in Calls /\ sys_sem_trywait(s)
  \/ "post" \in Calls /\ sys_sem_post(s)
  \/ "irq" \in Calls /\ irq_sem_post(s)
  \/ "close" \in Calls /\ sys_sem_close(s)
  \/ "destroy" \in Calls /\ sys_sem_destroy(s)
  \/ "force_destroy" \in Calls /\ sem_force_destroy(s)

Make ==
  \E v \in InitValues :
    \/ "init" \in Calls /\ sys_sem_init(v)
    \/ \E name \in Names : sys_sem_open(name, v)

Resume ==
  \/ sem_wait_resumed
  \/ sem_timedwait_resumed
  \/ Awaken /\ UNCHANGED <<sem, ret>>

Other ==
  \/ Tick
  \/ "yield" \in Calls /\ sys_yield
  \/ "sleep" \in Calls /\ \E n \in 1 .. MaxTicks : sys_sleep(n)

Next ==
  \/ Make
  \/ \E s \in Sems : OnSem(s)
  \/ \E name \in Names : sys_sem_unlink(name)
  \/ Resume
  \/ Other /\ UNCHANGED <<sem, ret>>

Spec == Init /\ [][Next]_vars

FairSpec == Spec /\ KernelFairness
-----------------------------------------------------------------------------
\* The processes whose timeout has expired and that have not run since: they
\* are out of the queue, but their wait is still counted.
TimedOut(s) == {p \in Procs : kont[p].op = "timedwait" /\ kont[p].sem = s /\ k.timeout[p]}

\* The count is what it says: what is unclaimed, less one for each process
\* that waits or has timed out and not yet put its wait back.
CountTrue == \A s \in Sems : sem[s].valid =>
  sem[s].value = sem[s].unclaimed - Len(k.wait[s]) - Cardinality(TimedOut(s))

\* Nobody waits on a semaphore that has an unclaimed post: sem_wait blocks
\* only "If resource unavailable".
NoLostPost == \A s \in Sems : sem[s].valid /\ k.wait[s] # <<>> => sem[s].unclaimed = 0

\* Nobody is left waiting on a semaphore that is gone: destroy and close refuse
\* while processes are blocked, and a forced destroy wakes them first.
NoneStranded == \A s \in Sems : ~sem[s].valid => k.wait[s] = <<>>

\* A timed wait ends, whoever posts or does not.
TimedWaitEnds == \A p \in Procs :
  k.state[p] = "TIMED_WAIT" ~> k.state[p] # "TIMED_WAIT"

=============================================================================
