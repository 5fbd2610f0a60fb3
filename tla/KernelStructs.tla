---------------------------- MODULE KernelStructs ----------------------------
(***************************************************************************)
(* xilkernel's data structures.  The two forms of struct _queue            *)
(* (sys/queue.c): the circular array, penq, pdeq and pdelq with the        *)
(* arithmetic of its unsigned char indices and the sequence they are to    *)
(* implement; and the heap of the priority scheduler, prio_penq, prio_pdeq *)
(* and prio_pdelq, with the change of a waiting thread's priority by       *)
(* sys_pthread_setschedparam.  The buffer pools (sys/bufmalloc.c): the     *)
(* free blocks of a pool are chained through their own first words, which  *)
(* a user overwrites as soon as the block is handed out.                   *)
(***************************************************************************)
EXTENDS KernelQueue, FiniteSets

CONSTANTS Pid, Prio, max_items

VARIABLES citems, qfront, qend, item_count,
          item,       \* what the last pdeq returned, None when empty
          line        \* history: the processes in line, as a sequence

fifoVars == <<citems, qfront, qend, item_count, item, line>>

None == 255
Next1(i) == (i + 1) % max_items

FifoInit ==
  /\ citems = [i \in 0 .. max_items - 1 |-> None]
  /\ qfront = 0 /\ qend = 0 /\ item_count = 0
  /\ item = None /\ line = <<>>

penq1(p) ==
  /\ IF item_count = max_items
     THEN UNCHANGED <<citems, qend, item_count>>
     ELSE /\ citems' = [citems EXCEPT ![qend] = p]
          /\ qend' = Next1(qend) /\ item_count' = item_count + 1
  /\ line' = penq(line, max_items, p)
  /\ UNCHANGED <<qfront, item>>

pdeq1 ==
  /\ IF item_count = 0
     THEN item' = None /\ UNCHANGED <<qfront, item_count>>
     ELSE /\ item' = citems[qfront]
          /\ qfront' = Next1(qfront) /\ item_count' = item_count - 1
  /\ line' = IF line = <<>> THEN line ELSE Tail(line)
  /\ UNCHANGED <<citems, qend>>

\* The steps from the front to the wanted item, item_count if it is not there.
Distance(p) ==
  LET found == {d \in 0 .. item_count - 1 :
                  citems[(qfront + d) % max_items] = p}
  IN  IF found = {} THEN item_count
      ELSE CHOOSE d \in found : \A e \in found : d <= e

\* Everything from the place at up to qend moves one place forward.
Shifted(at) ==
  LET n == (qend + max_items - at) % max_items
  IN  [i \in DOMAIN citems |->
         IF (i + max_items - at) % max_items < n
         THEN citems[Next1(i)] ELSE citems[i]]

pdelq1(p) ==
  LET d == Distance(p)
  IN  /\ IF d = item_count THEN UNCHANGED <<citems, qfront, qend, item_count>>
         ELSE /\ item_count' = item_count - 1
              /\ IF d = 0
                 THEN qfront' = Next1(qfront) /\ UNCHANGED <<citems, qend>>
                 ELSE /\ citems' = Shifted((qfront + d) % max_items)
                      /\ qend' = (qend + max_items - 1) % max_items
                      /\ UNCHANGED qfront
      /\ line' = pdelq(line, p)
      /\ UNCHANGED item

FifoNext ==
  \/ \E p \in Pid : penq1(p) \/ pdelq1(p)
  \/ pdeq1

FifoSpec == FifoInit /\ [][FifoNext]_fifoVars
-----------------------------------------------------------------------------
\* Reading item_count places from qfront gives the processes in line, in
\* order, however often the indices of penq, pdeq and pdelq have wrapped.
ArrayIsLine ==
  /\ qend = (qfront + item_count) % max_items
  /\ line = [i \in 1 .. item_count |-> citems[(qfront + i - 1) % max_items]]
-----------------------------------------------------------------------------
VARIABLES heap, prio,
          waiting,     \* history: the processes that wait
          served       \* history: what the last dequeue returned, with the
                       \* processes it left waiting

heapVars == <<heap, prio, waiting, served>>

HeapInit ==
  /\ heap = <<>> /\ waiting = {} /\ served = <<>>
  /\ prio \in [Pid -> Prio]

Enqueue(p) ==
  /\ p \notin waiting /\ Len(heap) < max_items
  /\ heap' = prio_penq(heap, max_items, p, prio)
  /\ waiting' = waiting \cup {p} /\ served' = <<>>
  /\ UNCHANGED prio

Dequeue ==
  /\ heap # <<>>
  /\ heap' = prio_pdeq(heap, prio)
  /\ waiting' = waiting \ {heap[1]} /\ served' = <<heap[1]>>
  /\ UNCHANGED prio

Delete(p) ==
  /\ heap' = prio_pdelq(heap, p, prio)
  /\ waiting' = waiting \ {p} /\ served' = <<>>
  /\ UNCHANGED prio

\* A slip that changes the priority of a waiting thread in place.
RequeueMutant(p, n) == heap

Requeue(p, n) ==
  prio_penq(prio_pdelq(heap, p, prio), max_items, p, [prio EXCEPT ![p] = n])

\* sys_pthread_setschedparam on a blocked thread.
SetPriority(p, n) ==
  /\ p \in waiting
  /\ heap' = Requeue(p, n)
  /\ prio' = [prio EXCEPT ![p] = n] /\ served' = <<>>
  /\ UNCHANGED waiting

HeapNext ==
  \/ \E p \in Pid : Enqueue(p) \/ Delete(p) \/ \E n \in Prio : SetPriority(p, n)
  \/ Dequeue

HeapSpec == HeapInit /\ [][HeapNext]_heapVars
-----------------------------------------------------------------------------
\* The heap of the code holds exactly the waiting processes, each once,
\* whatever was enqueued, dequeued or deleted from its middle.
HoldsTheWaiting ==
  /\ ToSet(heap) = waiting
  /\ Len(heap) <= max_items
  /\ \A i, j \in DOMAIN heap : i # j => heap[i] # heap[j]

\* prio_pdeq serves a process than which no waiting one has a higher priority
\* (a smaller number), as sys_sem_post and the mutexes promise for SCHED_PRIO.
HighestFirst ==
  \A i \in DOMAIN served, p \in waiting : prio[served[i]] <= prio[p]
-----------------------------------------------------------------------------
CONSTANTS
  N_MBUFS,
  Areas,           \* memory areas to make pools of: number and size of blocks
  Sizes            \* sizes asked for

VARIABLES
  mbufheap,        \* per descriptor: active, area, freep, nfree
  word,            \* the first word of each block of each area
  held             \* blocks handed out and not given back

bufVars == <<mbufheap, word, held>>
Mbufs == 0 .. N_MBUFS - 1
NULL == -1
MEMBUF_ANY == -1
Data == -2         \* whatever a user writes
AreaNames == DOMAIN Areas
Blocks(a) == 0 .. Areas[a].nblks - 1

BufInit ==
  /\ mbufheap = [i \in Mbufs |-> [active |-> FALSE, area |-> NULL, freep |-> NULL, nfree |-> 0]]
  /\ word = [a \in AreaNames |-> [b \in Blocks(a) |-> Data]]
  /\ held = {}

Used(a) == \E i \in Mbufs : mbufheap[i].active /\ mbufheap[i].area = a

\* The first descriptor free gets the area, whose blocks are chained in order.
sys_bufcreate(a) ==
  /\ ~Used(a)
  /\ LET free == {i \in Mbufs : ~mbufheap[i].active}
     IN  \/ free = {} /\ UNCHANGED <<mbufheap, word>>
         \/ \E i \in free :
              /\ \A j \in free : i <= j
              /\ mbufheap' = [mbufheap EXCEPT ![i] =
                   [active |-> TRUE, area |-> a, freep |-> 0, nfree |-> Areas[a].nblks]]
              /\ word' = [word EXCEPT ![a] = [b \in Blocks(a) |->
                   IF b = Areas[a].nblks - 1 THEN NULL ELSE b + 1]]
  /\ UNCHANGED held

\* Asked of the user: no block of the pool is held.
sys_bufdestroy(i) ==
  /\ mbufheap[i].active /\ \A h \in held : h[1] # mbufheap[i].area
  /\ mbufheap' = [mbufheap EXCEPT ![i].active = FALSE]
  /\ UNCHANGED <<word, held>>

get_mbufblk(i) ==
  LET p == mbufheap[i]
  IN  /\ mbufheap' = [mbufheap EXCEPT ![i].freep = word[p.area][p.freep], ![i].nfree = @ - 1]
      /\ held' = held \cup {<<p.area, p.freep>>}
      /\ UNCHANGED word

\* A pool that the request fits and that has a block left.
Fits(i, siz) ==
  mbufheap[i].active /\ Areas[mbufheap[i].area].blksiz >= siz /\ mbufheap[i].nfree > 0

\* From any pool: the first that can serve.
bufmalloc_any(siz) ==
  \/ (\A i \in Mbufs : ~Fits(i, siz)) /\ UNCHANGED bufVars
  \/ \E i \in Mbufs : Fits(i, siz) /\ (\A j \in Mbufs : j < i => ~Fits(j, siz)) /\ get_mbufblk(i)

\* From pool i; the size is not looked at.
bufmalloc_from(i) ==
  \/ ~(mbufheap[i].active /\ mbufheap[i].nfree > 0) /\ UNCHANGED bufVars
  \/ mbufheap[i].active /\ mbufheap[i].nfree > 0 /\ get_mbufblk(i)

Chained(i, b) == mbufheap[i].freep

\* The block that holds the address goes to the head of its pool's chain.
sys_buffree(h) ==
  /\ h \in held
  /\ \E i \in Mbufs :
       /\ mbufheap[i].active /\ mbufheap[i].area = h[1]
       /\ word' = [word EXCEPT ![h[1]][h[2]] = Chained(i, h[2])]
       /\ mbufheap' = [mbufheap EXCEPT ![i].freep = h[2], ![i].nfree = @ + 1]
  /\ held' = held \ {h}

\* The user of a block writes to it.
Write(h) == h \in held /\ word' = [word EXCEPT ![h[1]][h[2]] = Data] /\ UNCHANGED <<mbufheap, held>>

BufNext ==
  \/ \E a \in AreaNames : sys_bufcreate(a)
  \/ \E i \in Mbufs : sys_bufdestroy(i) \/ bufmalloc_from(i)
  \/ \E s \in Sizes : bufmalloc_any(s)
  \/ \E h \in held : sys_buffree(h) \/ Write(h)

BufSpec == BufInit /\ [][BufNext]_bufVars
-----------------------------------------------------------------------------
\* The blocks reached from b through the words of area a, in n steps at most.
Reach(a, start, n) ==
  LET chain[i \in 0 .. n] ==
        IF i = 0 THEN start
        ELSE IF chain[i - 1] \in Blocks(a) THEN word[a][chain[i - 1]] ELSE Data
  IN  chain

\* The chain of a pool runs through exactly the blocks that nobody holds, as many
\* as nfree says, each once, and ends in NULL: whatever users write to the
\* blocks they hold, and in whatever order they give them back.
ChainTrue == \A i \in Mbufs : mbufheap[i].active =>
  LET a == mbufheap[i].area
      n == mbufheap[i].nfree
      chain == Reach(a, mbufheap[i].freep, n)
      free == {chain[j] : j \in 0 .. n - 1}
  IN  /\ chain[n] = NULL
      /\ free = {b \in Blocks(a) : <<a, b>> \notin held}
      /\ Cardinality(free) = n
=============================================================================
