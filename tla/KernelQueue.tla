----------------------------- MODULE KernelQueue -----------------------------
(***************************************************************************)
(* The queues of xilkernel (sys/queue.c) as values: a FIFO of process ids  *)
(* is a sequence, a priority queue is the array of a binary heap whose     *)
(* root has the smallest priority number.  KernelStructs shows that the    *)
(* circular array of the code is such a sequence.                          *)
(***************************************************************************)
EXTENDS Integers, Sequences, SequencesExt

\* No error is flagged when a queue is full: the item is dropped.
penq(q, max, p) == IF Len(q) = max THEN q ELSE Append(q, p)

Place(q, p) == CHOOSE i \in DOMAIN q : q[i] = p /\ \A j \in 1 .. i - 1 : q[j] # p

pdelq(q, p) ==
  IF Contains(q, p) THEN RemoveAt(q, Place(q, p)) ELSE q
-----------------------------------------------------------------------------
\* The heap, in the code's array with indices from 1 instead of 0.
Swap(q, i, j) == [q EXCEPT ![i] = q[j], ![j] = q[i]]

RECURSIVE Up(_, _, _)
Up(q, i, prio) ==
  IF i > 1 /\ prio[q[i \div 2]] > prio[q[i]]
  THEN Up(Swap(q, i, i \div 2), i \div 2, prio) ELSE q

prio_penq(q, max, p, prio) ==
  IF Len(q) = max THEN q ELSE Up(Append(q, p), Len(q) + 1, prio)

\* The last item moves to the root and down, while its old place, still
\* within qend, takes part in the comparisons.
RECURSIVE Down(_, _, _)
Down(q, i, prio) ==
  IF 2 * i > Len(q) THEN q
  ELSE LET slct == IF \/ 2 * i + 1 > Len(q)
                      \/ prio[q[2 * i]] <= prio[q[2 * i + 1]]
                   THEN 2 * i ELSE 2 * i + 1
       IN  IF prio[q[slct]] <= prio[q[i]]
           THEN Down(Swap(q, i, slct), slct, prio) ELSE q

prio_pdeq(q, prio) == Front(Down([q EXCEPT ![1] = Last(q)], 1, prio))

RECURSIVE ToRoot(_, _)
ToRoot(q, i) == IF i = 1 THEN q ELSE ToRoot(Swap(q, i, i \div 2), i \div 2)

\* Deleting from the middle: the item is given priority -1, lifted to the
\* root and dequeued.
prio_pdelq(q, p, prio) ==
  IF Contains(q, p)
  THEN prio_pdeq(ToRoot(q, Place(q, p)),
                 [prio EXCEPT ![p] = -1])
  ELSE q
=============================================================================
