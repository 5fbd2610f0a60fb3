----------------------------- MODULE KernelMsg -----------------------------
(***************************************************************************)
(* xilkernel's message queues (ipc/msg.c): a circular array of message     *)
(* buffers, and two semaphores that count its free and its filled places.  *)
(* The buffers come from a heap that is not in the repository.             *)
(***************************************************************************)
EXTENDS Kernel

CONSTANTS
  MAX_SEM, MAX_SEM_WAITQ,
  MSGQ_CAPACITY,
  Bufs,              \* blocks of the heap
  MaxGets,           \* bound on the queues made
  RemoveFilled,      \* whether a queue is removed that still holds messages
  OtherSems,         \* how many semaphores the processes make for other uses
  SmallBuffers       \* whether a receiver's buffer may be too small

VARIABLES
  sem,               \* sem_heap: valid and value
  others,            \* semaphores made for other uses
  msgq,              \* the one queue of msgq_heap
  live,              \* buffers allocated
  wild,              \* a buffer was freed that was not allocated
  sent, misdelivered \* history: the messages sent and not received, in order,
                     \* and whether one was received that was not the first

vars == <<k, kont, kernel_ticks, sem, others, msgq, live, wild, sent, misdelivered>>
Sems == 0 .. MAX_SEM - 1
Cells == 0 .. MSGQ_CAPACITY - 1
Garbage == "garbage"

Init ==
  /\ k = Start(Procs \ {Idle}, [p \in Procs |-> IF p = Idle THEN PRIO_LOWEST
                                               ELSE p % (PRIO_LOWEST + 1)])
  /\ kont = [p \in Procs |-> Done] /\ kernel_ticks = 0
  /\ sem = [s \in Sems |-> [valid |-> FALSE, value |-> 0]]
  /\ others = 0
  /\ msgq = [valid |-> FALSE, full |-> 0, empty |-> 0, gets |-> 0, qnum |-> 0,
             items |-> [i \in Cells |-> Garbage], qfront |-> 0, item_count |-> 0]
  /\ live = {} /\ wild = FALSE
  /\ sent = <<>> /\ misdelivered = FALSE

Returns(s) == Call(s, Done)
-----------------------------------------------------------------------------
\* The semaphore routines, as operators on a kernel record and a heap.
FreeSems(h) == {s \in Sems : ~h[s].valid}
sem_init(h, value) == [h EXCEPT ![Min(FreeSems(h))] = [valid |-> TRUE, value |-> value]]
sem_post(s, h, id) ==
  IF h[id].value + 1 <= 0 /\ s.wait[id] # <<>> THEN process_unblock(s, id) ELSE s
Up1(h, id) == [h EXCEPT ![id].value = @ + 1]
Down1(h, id) == [h EXCEPT ![id].value = @ - 1]

sem_force_destroy(s, h, id) == UnblockAll(s, id, h[id].value)
-----------------------------------------------------------------------------
\* A queue that exists is returned.  A queue is made with its two semaphores,
\* but when the second cannot be had, it stays with the first.
sys_msgget ==
  /\ User
  /\ \/ msgq.valid /\ Returns(k) /\ UNCHANGED <<sem, msgq, sent, misdelivered>>
     \/ /\ ~msgq.valid /\ msgq.gets < MaxGets
        /\ LET made == [msgq EXCEPT !.valid = TRUE, !.gets = @ + 1]
               one == sem_init(sem, MSGQ_CAPACITY)
               two == sem_init(one, 0)
               f == Min(FreeSems(sem))
               e == Min(FreeSems(one))
           IN  \/ /\ FreeSems(sem) = {} /\ Returns(k)
                  /\ msgq' = made /\ UNCHANGED <<sem, sent, misdelivered>>
               \/ /\ FreeSems(sem) # {} /\ FreeSems(one) = {}
                  /\ Returns([k EXCEPT !.wait[f] = <<>>])
                  /\ msgq' = [made EXCEPT !.full = f]
                  /\ sem' = one /\ UNCHANGED <<sent, misdelivered>>
               \/ /\ FreeSems(sem) # {} /\ FreeSems(one) # {}
                  /\ Returns([k EXCEPT !.wait[f] = <<>>, !.wait[e] = <<>>])
                  /\ msgq' = [made EXCEPT !.full = f, !.empty = e, !.qnum = 0,
                                          !.qfront = 0, !.item_count = 0]
                  /\ sem' = two /\ sent' = <<>> /\ UNCHANGED misdelivered
  /\ UNCHANGED <<live, wild>>

Invalid(h, id) == [h EXCEPT ![id] = [valid |-> FALSE, value |-> 0]]

\* enq does nothing when the array is full.
Enqueued(b) ==
  IF msgq.item_count = MSGQ_CAPACITY THEN [msgq EXCEPT !.qnum = @ + 1]
  ELSE [msgq EXCEPT !.items[(msgq.qfront + msgq.item_count) % MSGQ_CAPACITY] = b,
                    !.item_count = @ + 1, !.qnum = @ + 1]

\* The loop that frees the messages of a queue that is removed: deq lowers the
\* count, and the loop lowers it again.  It is a byte.
EndsAt(i, count) == i >= (count - 2 * i) % 256
Turns(count) == CHOOSE n \in 0 .. 255 : EndsAt(n, count) /\ \A i \in 0 .. n - 1 : ~EndsAt(i, count)
FreeAll == [i \in 1 .. Turns(msgq.item_count) |->
              msgq.items[(msgq.qfront + i - 1) % MSGQ_CAPACITY]]

\* The frees of a sequence of buffers, one after the other.
IsWild(bs, l) == \E i \in DOMAIN bs : bs[i] \notin l \/ \E j \in 1 .. i - 1 : bs[j] = bs[i]

sys_msgctl_rmid ==
  /\ User /\ msgq.valid
  /\ RemoveFilled \/ msgq.item_count = 0
  /\ LET s == sem_force_destroy(k, sem, msgq.full)
         h == Invalid(sem, msgq.full)
         bs == FreeAll
     IN  \/ /\ ~sem[msgq.full].valid
            /\ Returns(k) /\ UNCHANGED <<sem, msgq, live, wild>>
         \/ /\ sem[msgq.full].valid /\ ~h[msgq.empty].valid
            /\ Returns(s) /\ sem' = h /\ UNCHANGED <<msgq, live, wild>>
         \/ /\ sem[msgq.full].valid /\ h[msgq.empty].valid
            /\ Returns(sem_force_destroy(s, h, msgq.empty))
            /\ sem' = Invalid(h, msgq.empty)
            /\ live' = live \ ToSet(bs) /\ wild' = (wild \/ IsWild(bs, live))
            /\ msgq' = [msgq EXCEPT !.valid = FALSE]
  /\ UNCHANGED <<sent, misdelivered>>
-----------------------------------------------------------------------------
\* A slip that wakes no receiver.
PutMutant(b, h, l) ==
  /\ msgq' = Enqueued(b)
  /\ sent' = Append(sent, b)
  /\ sem' = Up1(h, msgq.empty) /\ Returns(k)
  /\ live' = l /\ UNCHANGED misdelivered

\* The end of a send, with semaphores h and buffers l: the message enters the
\* array and the semaphore of filled places is posted.
Put(b, h, l) ==
  /\ msgq' = Enqueued(b)
  /\ sent' = Append(sent, b)
  /\ sem' = Up1(h, msgq.empty) /\ Returns(sem_post(k, h, msgq.empty))
  /\ live' = l /\ UNCHANGED misdelivered

\* Without a buffer, or a queue, or its semaphore, nothing is done.
sys_msgsnd(b, nowait) ==
  /\ User /\ msgq.valid /\ sem[msgq.full].valid /\ b \notin live
  /\ \/ /\ sem[msgq.full].value > 0
        /\ Put(b, Down1(sem, msgq.full), live \cup {b})
     \/ /\ sem[msgq.full].value <= 0 /\ nowait
        /\ Returns(k) /\ UNCHANGED <<sem, msgq, live, sent, misdelivered>>
     \/ /\ sem[msgq.full].value <= 0 /\ ~nowait
        /\ Suspended(process_block(k, msgq.full, MAX_SEM_WAITQ, "WAIT"),
                     [op |-> "snd", sem |-> msgq.full, buf |-> b])
        /\ sem' = Down1(sem, msgq.full)
        /\ live' = live \cup {b} /\ UNCHANGED <<msgq, sent, misdelivered>>
  /\ UNCHANGED wild

msgsnd_resumed ==
  /\ kont[self].op = "snd"
  /\ LET b == kont[self].buf
     IN  \/ /\ ~sem[kont[self].sem].valid \/ ~msgq.valid
            /\ live' = live \ {b} /\ Returns(k)
            /\ UNCHANGED <<sem, msgq, sent, misdelivered>>
         \/ /\ sem[kont[self].sem].valid /\ msgq.valid
            /\ Put(b, sem, live)
  /\ UNCHANGED wild

\* What deq hands out; nothing is assigned when the queue is empty.
Taken == IF msgq.item_count = 0 THEN Garbage ELSE msgq.items[msgq.qfront]

Dequeued == IF msgq.item_count = 0 THEN msgq
            ELSE [msgq EXCEPT !.qfront = (@ + 1) % MSGQ_CAPACITY, !.item_count = @ - 1]

\* The end of a receive, with semaphores h.  A message too large for the
\* receiver is freed, and nothing else.
Take(h) ==
  /\ live' = live \ {Taken} /\ wild' = (wild \/ Taken \notin live)
  /\ sent' = SubSeq(sent, 2, Len(sent))
  /\ misdelivered' = (misdelivered \/ sent = <<>> \/ Taken # Head(sent))
  /\ \/ /\ SmallBuffers /\ msgq' = Dequeued
        /\ sem' = h /\ Returns(k)
     \/ /\ msgq' = [Dequeued EXCEPT !.qnum = @ - 1]
        /\ sem' = Up1(h, msgq.full) /\ Returns(sem_post(k, h, msgq.full))

sys_msgrcv(nowait) ==
  /\ User /\ msgq.valid /\ sem[msgq.empty].valid
  /\ \/ sem[msgq.empty].value > 0 /\ Take(Down1(sem, msgq.empty))
     \/ /\ sem[msgq.empty].value <= 0 /\ nowait
        /\ Returns(k) /\ UNCHANGED <<sem, msgq, live, wild, sent, misdelivered>>
     \/ /\ sem[msgq.empty].value <= 0 /\ ~nowait
        /\ Suspended(process_block(k, msgq.empty, MAX_SEM_WAITQ, "WAIT"),
                     [op |-> "rcv", sem |-> msgq.empty])
        /\ sem' = Down1(sem, msgq.empty)
        /\ UNCHANGED <<msgq, live, wild, sent, misdelivered>>

msgrcv_resumed ==
  /\ kont[self].op = "rcv"
  /\ \/ /\ ~sem[kont[self].sem].valid \/ ~msgq.valid
        /\ Returns(k) /\ UNCHANGED <<sem, msgq, live, wild, sent, misdelivered>>
     \/ sem[kont[self].sem].valid /\ msgq.valid /\ Take(sem)
-----------------------------------------------------------------------------
\* A process makes a semaphore of its own.
other_sem_init ==
  /\ User /\ others < OtherSems /\ FreeSems(sem) # {}
  /\ others' = others + 1 /\ sem' = sem_init(sem, 0)
  /\ Returns([k EXCEPT !.wait[Min(FreeSems(sem))] = <<>>])
  /\ UNCHANGED <<msgq, live, wild, sent, misdelivered>>

OnQueue ==
  \/ sys_msgget
  \/ sys_msgctl_rmid
  \/ \E nowait \in BOOLEAN : sys_msgrcv(nowait) \/ \E b \in Bufs : sys_msgsnd(b, nowait)
  \/ msgsnd_resumed
  \/ msgrcv_resumed
  \/ (Tick \/ sys_sleep(1) \/ Awaken)
     /\ UNCHANGED <<sem, msgq, live, wild, sent, misdelivered>>

Next == other_sem_init \/ (OnQueue /\ UNCHANGED others)

Spec == Init /\ [][Next]_vars
-----------------------------------------------------------------------------
Queued == [i \in 1 .. msgq.item_count |-> msgq.items[(msgq.qfront + i - 1) % MSGQ_CAPACITY]]
Senders == {p \in Procs : kont[p].op = "snd"}
Woken(op) == {p \in Procs : kont[p].op = op /\ k.state[p] \in {"READY", "RUN"}}

\* A queue whose "Structure" is "valid" has its two semaphores.
QueueWhole == msgq.valid =>
  sem[msgq.full].valid /\ sem[msgq.empty].valid /\ msgq.full # msgq.empty

\* Every buffer of the heap is in the queue or with a sender that waits: none is
\* lost, and none is freed that was not allocated.
BuffersOwned ==
  /\ ~wild
  /\ live = {kont[p].buf : p \in Senders} \cup (IF msgq.valid THEN ToSet(Queued) ELSE {})

\* What was sent and not received is what is queued, in order: nothing is lost,
\* duplicated or overtaken, whoever waits at either end.
InOrder == msgq.valid /\ QueueWhole => sent = Queued /\ ~misdelivered

\* Nobody waits for a message while there is one that no other receiver has
\* been woken for, or for a place while there is one.
NoIdleWait ==
  msgq.valid =>
    /\ k.wait[msgq.empty] # <<>> => msgq.item_count <= Cardinality(Woken("rcv"))
    /\ k.wait[msgq.full] # <<>> =>
         MSGQ_CAPACITY - msgq.item_count <= Cardinality(Woken("snd"))

=============================================================================
