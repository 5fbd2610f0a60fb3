-------------------------------- MODULE Pbuf --------------------------------
(***************************************************************************)
(* lwIP's memory: the heap (mem.c), the pools (memp.c) and the chains of   *)
(* packet buffers that are allocated from them (pbuf.c).                   *)
(***************************************************************************)
EXTENDS Integers, Sequences, FiniteSets, FiniteSetsExt, SequencesExt, TLC

CONSTANTS
  MEM_SIZE, MEM_ALIGNMENT, SIZEOF_STRUCT_MEM, MIN_SIZE, SIZEOF_STRUCT_PBUF, PBUF_POOL_BUFSIZE,
  PoolIds, RefIds,   \* the elements of MEMP_PBUF_POOL and MEMP_PBUF, numbers from MEM_SIZE + 1 on
  Sizes,             \* what the application asks of mem_malloc and mem_realloc
  Types, Layers, Lengths, Increments,   \* what it asks of pbuf_alloc and pbuf_header
  MaxHeld            \* bound on the pointers the application holds

VARIABLES
  heap,   \* ram, by the offset of each struct mem, and lfree
  tab,    \* memp_tab: the free elements of each pool
  pb,     \* the pbufs, by their address
  app     \* how many pointers to each block or pbuf the application holds

pbufVars == <<heap, tab, pb, app>>

NULL == -1
Align(n) == MEM_ALIGNMENT * ((n + MEM_ALIGNMENT - 1) \div MEM_ALIGNMENT)
END == Align(MEM_SIZE)
Asked(size) == IF Align(size) < Align(MIN_SIZE) THEN Align(MIN_SIZE) ELSE Align(size)
Without(fn, x) == [y \in DOMAIN fn \ {x} |-> fn[y]]
-----------------------------------------------------------------------------
(* The heap.  h: ram and lfree.                                             *)
mem_init ==
  [ram |-> (0 :> [next |-> END, prev |-> 0, used |-> FALSE]) @@ (END :> [next |-> END, prev |-> END, used |-> TRUE]),
   lfree |-> 0]

\* Joins m, which is free, with the block after it.
Join(h, m) ==
  LET n == h.ram[m].next
      after == h.ram[n].next
  IN [ram |-> Without([h.ram EXCEPT ![m].next = after, ![after].prev = m], n),
      lfree |-> IF h.lfree = n THEN m ELSE h.lfree]
plug_holes(h, m) ==
  LET n == h.ram[m].next
      forward == IF ~h.ram[n].used /\ n # END THEN Join(h, m) ELSE h
      p == h.ram[m].prev
  IN IF p # m /\ ~forward.ram[p].used THEN Join(forward, p) ELSE forward

mem_free(h, m) ==
  plug_holes([ram |-> [h.ram EXCEPT ![m].used = FALSE], lfree |-> IF m < h.lfree THEN m ELSE h.lfree], m)

\* The block at m is followed by a free one at ptr2 that ends at next.
Split(h, m, ptr2, next) ==
  LET mem2 == [next |-> next, prev |-> m, used |-> FALSE]
      linked == [h.ram EXCEPT ![m].next = ptr2]
  IN (ptr2 :> mem2) @@ (IF next = END THEN linked ELSE [linked EXCEPT ![next].prev = ptr2])

mem_realloc(h, m, newsize) ==
  LET new == Asked(newsize)
      n == h.ram[m].next
      size == n - m - SIZEOF_STRUCT_MEM
      ptr2 == m + SIZEOF_STRUCT_MEM + new
  IN IF new >= size THEN h
     ELSE IF ~h.ram[n].used
     THEN [ram |-> Split([h EXCEPT !.ram = Without(h.ram, n)], m, ptr2, h.ram[n].next),
           lfree |-> IF h.lfree = n THEN ptr2 ELSE h.lfree]
     ELSE IF new + SIZEOF_STRUCT_MEM + Align(MIN_SIZE) <= size
     THEN [ram |-> Split(h, m, ptr2, n), lfree |-> IF ptr2 < h.lfree THEN ptr2 ELSE h.lfree]
     ELSE h

Room(h, m) == h.ram[m].next - (m + SIZEOF_STRUCT_MEM)
Fitting(h, size) == {m \in DOMAIN h.ram : m >= h.lfree /\ m < END - size /\ ~h.ram[m].used /\ Room(h, m) >= size}
\* First fit from the lowest free block on.
mem_malloc(h, asked) ==
  LET size == Asked(asked)
      m == Min(Fitting(h, size))
      ram == IF Room(h, m) >= size + SIZEOF_STRUCT_MEM + Align(MIN_SIZE)
             THEN Split(h, m, m + SIZEOF_STRUCT_MEM + size, h.ram[m].next) ELSE h.ram
      taken == [ram EXCEPT ![m].used = TRUE]
  IN IF size > END \/ Fitting(h, size) = {} THEN [h |-> h, m |-> NULL]
     ELSE [h |-> [ram |-> taken,
                  lfree |-> IF m # h.lfree THEN h.lfree
                            ELSE Min({q \in DOMAIN taken : q >= m /\ (~taken[q].used \/ q = END)})],
           m |-> m]
-----------------------------------------------------------------------------
(* Pools and pbufs.  w: the heap, the pools and the pbufs.                  *)
memp_init == [pool |-> Reverse(PoolIds), ref |-> Reverse(RefIds)]
memp_free(w, type, p) == [w EXCEPT !.tab[type] = <<p>> \o w.tab[type]]

PBUF(type, len, tot, room, next) ==
  [type |-> type, len |-> len, tot |-> tot, room |-> room, next |-> next, ref |-> 1]
\* room: the octets between the struct and the payload.
Headroom(layer) == Align(SIZEOF_STRUCT_PBUF + layer) - SIZEOF_STRUCT_PBUF

\* A chain from the pool; when the pool runs out, what was taken is given back in turn.
AllocPool(w, layer, length) ==
  LET first == Min({length, Align(PBUF_POOL_BUFSIZE) - Align(layer)})
      rest == length - first
      n == 1 + ((rest + Align(PBUF_POOL_BUFSIZE) - 1) \div Align(PBUF_POOL_BUFSIZE))
      ids == w.tab.pool
      left(i) == IF i = 1 THEN length ELSE rest - (i - 2) * Align(PBUF_POOL_BUFSIZE)
      pbuf(i) == PBUF("pool", IF i = 1 THEN first ELSE Min({left(i), Align(PBUF_POOL_BUFSIZE)}), left(i),
                      IF i = 1 THEN Headroom(layer) ELSE 0, IF i = n THEN NULL ELSE ids[i + 1])
  IN IF Len(ids) < n THEN [w |-> [w EXCEPT !.tab.pool = Reverse(ids)], p |-> NULL]
     ELSE [w |-> [w EXCEPT !.tab.pool = SubSeq(ids, n + 1, Len(ids)),
                           !.pb = w.pb @@ [x \in {ids[i] : i \in 1 .. n} |-> pbuf(CHOOSE i \in 1 .. n : ids[i] = x)]],
           p |-> ids[1]]
AllocRam(w, layer, length) ==
  LET r == mem_malloc(w.heap, Align(SIZEOF_STRUCT_PBUF + layer) + Align(length)) IN
  IF r.m = NULL THEN [w |-> w, p |-> NULL]
  ELSE [w |-> [w EXCEPT !.heap = r.h,
                        !.pb = w.pb @@ (r.m :> PBUF("ram", length, length, Headroom(layer), NULL))],
        p |-> r.m]
AllocRef(w, length) ==
  IF w.tab.ref = <<>> THEN [w |-> w, p |-> NULL]
  ELSE [w |-> [w EXCEPT !.tab.ref = Tail(w.tab.ref),
                        !.pb = w.pb @@ (Head(w.tab.ref) :> PBUF("ref", length, length, 0, NULL))],
        p |-> Head(w.tab.ref)]
pbuf_alloc(w, layer, length, type) ==
  CASE type = "pool" -> AllocPool(w, layer, length)
    [] type = "ram" -> AllocRam(w, layer, length)
    [] type = "ref" -> AllocRef(w, length)

\* Frees p and what follows it as long as nothing else points there.
RECURSIVE pbuf_free(_, _)
pbuf_free(w, p) ==
  IF p = NULL THEN w
  ELSE IF w.pb[p].ref > 1 THEN [w EXCEPT !.pb[p].ref = @ - 1]
  ELSE LET gone == [w EXCEPT !.pb = Without(w.pb, p)]
           given == IF w.pb[p].type = "ram" THEN [gone EXCEPT !.heap = mem_free(w.heap, p)]
                    ELSE memp_free(gone, w.pb[p].type, p)
       IN pbuf_free(given, w.pb[p].next)

\* Shortens the chain p to new_len.
RECURSIVE Shorten(_, _, _, _)
Shorten(w, q, rem, grow) ==
  LET b == w.pb[q]
      shrunk == IF b.type = "ram" /\ rem # b.len
                THEN [w EXCEPT !.heap = mem_realloc(w.heap, q, SIZEOF_STRUCT_PBUF + b.room + rem)] ELSE w
      ended == [shrunk EXCEPT !.pb[q].len = rem, !.pb[q].tot = rem, !.pb[q].next = NULL]
  IN IF rem > b.len THEN Shorten([w EXCEPT !.pb[q].tot = @ + grow], b.next, rem - b.len, grow)
     ELSE pbuf_free(ended, b.next)
pbuf_realloc(w, p, new_len) ==
  IF new_len >= w.pb[p].tot THEN w ELSE Shorten(w, p, new_len, new_len - w.pb[p].tot)

\* Whether the payload can be moved by inc, and the pbuf afterwards.
pbuf_header(w, p, inc) ==
  LET b == w.pb[p]
      moves == IF inc < 0 THEN -inc <= b.len ELSE b.type # "ref" /\ inc <= b.room
      moved == [b EXCEPT !.room = IF b.type = "ref" THEN 0 ELSE b.room - inc, !.len = @ + inc, !.tot = @ + inc]
  IN IF inc = 0 \/ ~moves THEN w ELSE [w EXCEPT !.pb[p] = moved]

RECURSIVE ChainOf(_, _)
ChainOf(bufs, p) == IF p = NULL THEN <<>> ELSE <<p>> \o ChainOf(bufs, bufs[p].next)
pbuf_ref(w, p) == [w EXCEPT !.pb[p].ref = @ + 1]
pbuf_cat(w, h, t) ==
  LET c == ToSet(ChainOf(w.pb, h))
      end == Last(ChainOf(w.pb, h))
      longer == [q \in DOMAIN w.pb |-> IF q \in c THEN [w.pb[q] EXCEPT !.tot = @ + w.pb[t].tot] ELSE w.pb[q]]
  IN [w EXCEPT !.pb = [longer EXCEPT ![end].next = t]]
pbuf_chain(w, h, t) == pbuf_ref(pbuf_cat(w, h, t), t)
pbuf_dechain(w, p) ==
  LET q == w.pb[p].next IN
  IF q = NULL THEN w
  ELSE pbuf_free([w EXCEPT !.pb[q].tot = w.pb[p].tot - w.pb[p].len, !.pb[p].next = NULL,
                           !.pb[p].tot = w.pb[p].len], q)

\* Where each octet that is copied comes from, <<pbuf, offset>>.
RECURSIVE pbuf_copy_partial(_, _, _, _)
pbuf_copy_partial(bufs, p, len, offset) ==
  IF len = 0 \/ p = NULL THEN <<>>
  ELSE IF offset # 0 /\ offset >= bufs[p].len
  THEN pbuf_copy_partial(bufs, bufs[p].next, len, offset - bufs[p].len)
  ELSE LET n == Min({bufs[p].len - offset, len}) IN
       [i \in 1 .. n |-> <<p, offset + i>>] \o pbuf_copy_partial(bufs, bufs[p].next, len - n, 0)
Queue(bufs, p) == p # NULL /\ bufs[p].len = bufs[p].tot /\ bufs[p].next # NULL
\* The octets of the target and where each comes from; c is where the copy stands.
RECURSIVE CopyFrom(_, _)
CopyFrom(bufs, c) ==
  LET len == Min({bufs[c.to].len - c.oto, bufs[c.from].len - c.ofrom})
      part == [i \in 1 .. len |-> <<<<c.to, c.oto + i>>, <<c.from, c.ofrom + i>>>>]
      toEnds == c.oto + len = bufs[c.to].len
      fromEnds == c.ofrom + len >= bufs[c.from].len
      d == [to |-> IF toEnds THEN bufs[c.to].next ELSE c.to, oto |-> IF toEnds THEN 0 ELSE c.oto + len,
            from |-> IF fromEnds THEN bufs[c.from].next ELSE c.from,
            ofrom |-> IF fromEnds THEN 0 ELSE c.ofrom + len, done |-> c.done \o part]
  IN IF Queue(bufs, d.from) \/ Queue(bufs, d.to) THEN [err |-> "ERR_VAL", done |-> d.done]
     ELSE IF d.from = NULL THEN [err |-> "ERR_OK", done |-> d.done]
     ELSE IF d.to = NULL THEN [err |-> "assertion", done |-> d.done]
     ELSE CopyFrom(bufs, d)
pbuf_copy(bufs, to, from) ==
  IF bufs[to].tot < bufs[from].tot THEN [err |-> "ERR_ARG", done |-> <<>>]
  ELSE CopyFrom(bufs, [to |-> to, oto |-> 0, from |-> from, ofrom |-> 0, done |-> <<>>])
-----------------------------------------------------------------------------
(* The application.  It changes a chain only from its first pbuf.           *)
World == [heap |-> heap, tab |-> tab, pb |-> pb]
Become(w, held) == heap' = w.heap /\ tab' = w.tab /\ pb' = w.pb /\ app' = held
Held(p) == IF p \in DOMAIN app THEN app[p] ELSE 0
Take(p) == [q \in DOMAIN app \cup {p} |-> Held(q) + (IF q = p THEN 1 ELSE 0)]
Drop(p) == IF app[p] = 1 THEN Without(app, p) ELSE [app EXCEPT ![p] = @ - 1]
HeldTotal == MapThenSumSet(LAMBDA q : app[q], DOMAIN app)
Pbufs == DOMAIN app \cap DOMAIN pb
Heads == {p \in Pbufs : \A q \in DOMAIN pb : pb[q].next # p}
Blocks == DOMAIN app \ DOMAIN pb

PbufInit == heap = mem_init /\ tab = memp_init /\ pb = <<>> /\ app = <<>>

Malloc == \E s \in Sizes :
  LET r == mem_malloc(heap, s) IN
  HeldTotal < MaxHeld /\ r.m # NULL /\ Become([World EXCEPT !.heap = r.h], Take(r.m))
MemRealloc == \E m \in Blocks, s \in Sizes : Become([World EXCEPT !.heap = mem_realloc(heap, m, s)], app)
MemFree == \E m \in Blocks : Become([World EXCEPT !.heap = mem_free(heap, m)], Drop(m))

Alloc == \E l \in Layers, n \in Lengths, t \in Types :
  LET r == pbuf_alloc(World, l, n, t) IN
  HeldTotal < MaxHeld /\ Become(r.w, IF r.p = NULL THEN app ELSE Take(r.p))
Free == \E p \in Pbufs : Become(pbuf_free(World, p), Drop(p))
Ref == \E p \in Pbufs : HeldTotal < MaxHeld /\ Become(pbuf_ref(World, p), Take(p))
Realloc == \E p \in Heads, n \in Lengths \cup {0} : Become(pbuf_realloc(World, p, n), app)
Header == \E p \in Heads, inc \in Increments : Become(pbuf_header(World, p, inc), app)
Cat == \E h, t \in Heads : h # t /\ Become(pbuf_cat(World, h, t), Drop(t))
Chain == \E h, t \in Heads : h # t /\ Become(pbuf_chain(World, h, t), app)
Dechain == \E p \in Heads : Become(pbuf_dechain(World, p), app)

PbufNext == Malloc \/ MemRealloc \/ MemFree \/ Alloc \/ Free \/ Ref \/ Realloc \/ Header \/ Cat \/ Chain \/ Dechain
-----------------------------------------------------------------------------
Starts == DOMAIN heap.ram
FreeBlocks == {m \in Starts \ {END} : ~heap.ram[m].used}

\* The blocks tile the heap and link to their neighbours, no two free ones are adjacent, lfree is
\* the lowest free one, and mem_malloc refuses only what no free block can hold.
HeapTrue ==
  /\ \A m \in Starts \ {END} :
       LET n == heap.ram[m].next IN
       /\ n \in Starts /\ n >= m + SIZEOF_STRUCT_MEM + Align(MIN_SIZE) /\ \A k \in Starts : k <= m \/ k >= n
       /\ n # END => heap.ram[n].prev = m
       /\ ~(m \in FreeBlocks /\ n \in FreeBlocks)
  /\ heap.ram[0].prev = 0
  /\ heap.lfree = Min(FreeBlocks \cup {END})
  /\ Starts \ (FreeBlocks \cup {END}) = Blocks \cup {p \in DOMAIN pb : pb[p].type = "ram"}
  /\ \A s \in Sizes : mem_malloc(heap, s).m = NULL <=> \A m \in FreeBlocks : Room(heap, m) < Asked(s)

Flat(p) == FlattenSeq([i \in DOMAIN ChainOf(pb, p) |->
                         [j \in 1 .. pb[ChainOf(pb, p)[i]].len |-> <<ChainOf(pb, p)[i], j>>]])
Pointers(p) == Held(p) + Cardinality({q \in DOMAIN pb : pb[q].next = p})

\* Each pbuf is counted as often as it is pointed to, is free exactly when it is not, has its
\* total, and its octets lie in its memory; copies take the octets of a chain in order.
PbufTrue ==
  /\ \A p \in DOMAIN pb :
       /\ pb[p].ref = Pointers(p) /\ pb[p].ref > 0
       /\ pb[p].tot = pb[p].len + (IF pb[p].next = NULL THEN 0 ELSE pb[pb[p].next].tot)
       /\ pb[p].len >= 0 /\ pb[p].room >= 0
       /\ pb[p].type = "pool" => pb[p].room + pb[p].len <= Align(PBUF_POOL_BUFSIZE)
       /\ pb[p].type = "ram" => SIZEOF_STRUCT_PBUF + pb[p].room + pb[p].len <= Room(heap, p)
  /\ \A k \in {"pool", "ref"} :
       LET ids == ToSet(IF k = "pool" THEN PoolIds ELSE RefIds) IN
       /\ Cardinality(ToSet(tab[k])) = Len(tab[k])
       /\ ToSet(tab[k]) = ids \ {p \in DOMAIN pb : pb[p].type = k}
  /\ \A p \in Heads : \A off \in 0 .. pb[p].tot, n \in 1 .. 2 :
       pbuf_copy_partial(pb, p, n, off) = SubSeq(Flat(p), off + 1, Min({off + n, pb[p].tot}))
  /\ \A t, f \in Heads :
       (t # f /\ \A q \in DOMAIN pb : pb[q].len > 0) =>
         LET c == pbuf_copy(pb, t, f) IN
         IF pb[t].tot < pb[f].tot THEN c.err = "ERR_ARG"
         ELSE c.err = "ERR_OK" /\ c.done = [i \in 1 .. pb[f].tot |-> <<Flat(t)[i], Flat(f)[i]>>]
=============================================================================
