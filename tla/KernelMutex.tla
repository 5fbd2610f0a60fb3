---------------------------- MODULE KernelMutex ----------------------------
(***************************************************************************)
(* xilkernel's mutexes (ipc/mutex.c) on top of its scheduler: plain and    *)
(* recursive ones, made by an init call or by the first use of a           *)
(* statically initialised handle.                                          *)
(*                                                                         *)
(* Processes are assumed to unlock what they hold, and to destroy a mutex  *)
(* only when nobody is inside a lock call on it: mutex.c says that it does *)
(* not check the owner of a plain mutex, and that destroy gives no         *)
(* consideration to waiting processes.                                     *)
(***************************************************************************)
EXTENDS Kernel

CONSTANTS
  MAX_PTHREAD_MUTEX, MAX_PTHREAD_MUTEX_WAITQ,
  Handles,       \* the variables of type pthread_mutex_t
  MaxDepth       \* bound on the depth of recursive locking

VARIABLES
  mutex,         \* pthread_mutex_heap
  handle,        \* a slot, INITIALIZER or INVALID
  holds,         \* how often each process has locked each slot and not unlocked
  ret

vars == <<k, kont, kernel_ticks, mutex, handle, holds, ret>>
Slots == 0 .. MAX_PTHREAD_MUTEX - 1
INITIALIZER == -1
INVALID == -2
None == -1

Init ==
  /\ k = Start(Procs \ {Idle}, [p \in Procs |-> IF p = Idle THEN PRIO_LOWEST
                                               ELSE p % (PRIO_LOWEST + 1)])
  /\ kont = [p \in Procs |-> Done] /\ kernel_ticks = 0
  /\ mutex = [i \in Slots |-> [is_allocated |-> FALSE, locked |-> 0,
                               owner |-> None, recursive |-> FALSE]]
  /\ handle = [h \in Handles |-> INITIALIZER]
  /\ holds = [p \in Procs |-> [i \in Slots |-> 0]]
  /\ ret = "0"

Return(s, r) == Call(s, Done) /\ ret' = r

Inside(p, i) == kont[p].op = "lock" /\ kont[p].slot = i

FirstFreeSlot == {i \in Slots : ~mutex[i].is_allocated /\
                                \A j \in Slots : j < i => mutex[j].is_allocated}

Made(i, recursive) == [mutex EXCEPT ![i] =
  [is_allocated |-> TRUE, locked |-> 0, owner |-> None, recursive |-> recursive]]

sys_pthread_mutex_init(h, recursive) ==
  /\ User /\ handle[h] < 0
  /\ \/ FirstFreeSlot = {} /\ Return(k, "EAGAIN") /\ UNCHANGED <<mutex, handle>>
     \/ \E i \in FirstFreeSlot :
          /\ mutex' = Made(i, recursive)
          /\ handle' = [handle EXCEPT ![h] = i]
          /\ Return([k EXCEPT !.wait[i] = <<>>], "0")
  /\ UNCHANGED holds

sys_pthread_mutex_destroy(h) ==
  /\ User
  /\ \/ /\ handle[h] = INITIALIZER /\ Return(k, "0")
        /\ handle' = [handle EXCEPT ![h] = INVALID] /\ UNCHANGED mutex
     \/ /\ handle[h] = INVALID
        /\ Return(k, "EINVAL") /\ UNCHANGED <<handle, mutex>>
     \/ /\ handle[h] \in Slots /\ mutex[handle[h]].locked # 0
        /\ Return(k, "EBUSY") /\ UNCHANGED <<handle, mutex>>
     \/ /\ handle[h] \in Slots /\ mutex[handle[h]].locked = 0
        /\ ~\E p \in Procs : Inside(p, handle[h])
        /\ mutex' = [mutex EXCEPT ![handle[h]].is_allocated = FALSE]
        /\ handle' = [handle EXCEPT ![h] = INVALID]
        /\ Return(k, "0")
  /\ UNCHANGED holds
-----------------------------------------------------------------------------
\* A slip that takes a mutex without looking whether it is locked, for a process
\* that was woken to have it.
MustWaitMutant(i) == mutex[i].locked # 0 /\ kont[self].op # "lock" /\
                     (~mutex[i].recursive \/ mutex[i].owner # self)

MustWait(i) == mutex[i].locked # 0 /\ (~mutex[i].recursive \/ mutex[i].owner # self)

\* From the while loop to the end, for slot i; entered when the
\* lock is called, and again whenever the caller has been woken.
LockLoop(i, trylock, s) ==
  \/ /\ MustWait(i) /\ trylock
     /\ Return(s, "EBUSY") /\ UNCHANGED <<mutex, holds>>
  \/ /\ MustWait(i) /\ ~trylock
     /\ Suspended(process_block(s, i, MAX_PTHREAD_MUTEX_WAITQ, "WAIT"),
                  [op |-> "lock", slot |-> i])
     /\ UNCHANGED <<mutex, holds, ret>>
  \/ /\ ~MustWait(i)
     /\ mutex[i].locked < MaxDepth
     /\ mutex' = [mutex EXCEPT ![i].locked = IF mutex[i].recursive THEN @ + 1 ELSE 1,
                               ![i].owner = self]
     /\ holds' = [holds EXCEPT ![self][i] = @ + 1]
     /\ Return(s, "0")

\* The first use of a static handle makes the mutex, and finds it unlocked.
pthread_mutex_lock_basic(h, trylock) ==
  /\ User
  /\ \/ /\ handle[h] = INVALID
        /\ Return(k, "EINVAL") /\ UNCHANGED <<handle, mutex, holds>>
     \/ /\ handle[h] = INITIALIZER /\ FirstFreeSlot = {}
        /\ Return(k, "-1") /\ UNCHANGED <<handle, mutex, holds>>
     \/ /\ handle[h] = INITIALIZER
        /\ \E i \in FirstFreeSlot :
             /\ mutex' = [Made(i, FALSE) EXCEPT ![i].locked = 1, ![i].owner = self]
             /\ handle' = [handle EXCEPT ![h] = i]
             /\ holds' = [holds EXCEPT ![self][i] = @ + 1]
             /\ Return([k EXCEPT !.wait[i] = <<>>], "0")
     \/ handle[h] \in Slots /\ LockLoop(handle[h], trylock, k) /\ UNCHANGED handle

lock_resumed ==
  /\ kont[self].op = "lock"
  /\ LockLoop(kont[self].slot, FALSE, k) /\ UNCHANGED handle

WakeNext(i) == k.wait[i] # <<>>

sys_pthread_mutex_unlock(h) ==
  /\ User /\ handle[h] \in Slots
  /\ LET i == handle[h]
     IN  \/ /\ mutex[i].recursive /\ mutex[i].owner # self
            /\ Return(k, "EPERM") /\ UNCHANGED <<mutex, holds>>
         \/ /\ holds[self][i] > 0
            /\ LET left == IF mutex[i].recursive THEN mutex[i].locked - 1 ELSE 0
               IN  /\ mutex' = [mutex EXCEPT ![i].locked = left,
                                  ![i].owner = IF left = 0 THEN None ELSE @]
                   /\ Return(IF left = 0 /\ WakeNext(i) THEN process_unblock(k, i)
                             ELSE k, "0")
            /\ holds' = [holds EXCEPT ![self][i] = @ - 1]
  /\ UNCHANGED handle
-----------------------------------------------------------------------------
Next ==
  \/ \E h \in Handles :
       \/ \E r \in BOOLEAN : sys_pthread_mutex_init(h, r)
       \/ sys_pthread_mutex_destroy(h)
       \/ \E t \in BOOLEAN : pthread_mutex_lock_basic(h, t)
       \/ sys_pthread_mutex_unlock(h)
  \/ lock_resumed
  \/ (Tick \/ sys_sleep(1) \/ Awaken) /\ UNCHANGED <<mutex, handle, holds, ret>>

Spec == Init /\ [][Next]_vars
FairSpec == Spec /\ KernelFairness
-----------------------------------------------------------------------------
\* A mutex has one holder at a time, however the processes that were woken for
\* it and those that come fresh race for it.
OneHolder == \A i \in Slots : \A p, q \in Procs :
  holds[p][i] > 0 /\ holds[q][i] > 0 => p = q

\* A mutex that is free while processes wait has been offered to one of them: it
\* is on its way out of the wait, and will look again.
FreeIsOffered == \A i \in Slots :
  mutex[i].is_allocated /\ mutex[i].locked = 0 /\ k.wait[i] # <<>> =>
    \E p \in Procs : Inside(p, i) /\ k.state[p] \in {"READY", "RUN"}

\* A process that blocks on a mutex that is given up gets to try again.
Untaken(i) == mutex[i].locked = 0 /\ k.wait[i] # <<>>
FreeIsTaken == \A i \in Slots : Untaken(i) ~> ~Untaken(i)

=============================================================================
