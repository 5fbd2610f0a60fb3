----------------------------------- MODULE Vj --------------------------------
(***************************************************************************)
(* Van Jacobson compression of TCP/IP headers (netif/ppp/vj.c), between    *)
(* vj_compress_tcp in pppifOutput and, at the other end, pppMain, which    *)
(* drops damaged frames, and pppInput, which runs in the TCP/IP thread.    *)
(*                                                                         *)
(* A header keeps what compression tells apart: conn (addresses and        *)
(* ports), fix (the fields that must not change), plain (not an ordinary   *)
(* ACK), id, win, ack, seq, urg and urp, psh, and len, the data octets.    *)
(***************************************************************************)
EXTENDS Integers, Sequences, FiniteSets

CONSTANTS Streams,   \* a sequence of [headers, max, losses]: what is sent, and the bounds
          MAX_SLOTS,
          W,         \* values of a 16-bit field (65536)
          L,         \* values of a 32-bit field
          compressSlot  \* negotiated by IPCP

VARIABLES tx,     \* the compressor, how many it was given, and, as history, whether
                  \* a frame was damaged while others waited for the TCP/IP thread
          mbox,   \* frames that pppMain has posted, with the headers they were made from
          rx,     \* the decompressor; good: slots of which no frame was lost since
                  \* the last uncompressed one
          last    \* of the last packet taken: its slot, its header, the one handed to IP
vars == <<tx, mbox, rx, last>>

Slots == 0..(MAX_SLOTS - 1)
Blank == [conn |-> 0, fix |-> 0, plain |-> FALSE, id |-> 0, win |-> 0, ack |-> 0, seq |-> 0,
          urg |-> FALSE, urp |-> 0, psh |-> FALSE, len |-> 0]

\* vj_compress_init; `order` lists the slots from the last used to the oldest.
Init ==
  /\ \E s \in DOMAIN Streams :
       tx = [stream |-> s, n |-> 0, lost |-> 0, raced |-> FALSE, order |-> [i \in 1..MAX_SLOTS |-> MAX_SLOTS - i],
             state |-> [i \in Slots |-> Blank], last_xmit |-> 255]
  /\ mbox = <<>>
  /\ rx = [state |-> [i \in Slots |-> Blank], last_recv |-> 255, toss |-> TRUE, good |-> {}]
  /\ last = [slot |-> 0, sent |-> Blank, got |-> Blank]

SPECIAL_I == {"S", "W", "U"}
SPECIAL_D == {"S", "A", "W", "U"}

\* The slot of h's connection, or the oldest one
Slot(h) ==
  IF \E i \in Slots : tx.state[i].conn = h.conn
  THEN CHOOSE i \in Slots : tx.state[i].conn = h.conn
  ELSE tx.order[MAX_SLOTS]

Front(i) == <<i>> \o SelectSeq(tx.order, LAMBDA j : j # i)

\* What changed since the slot's last header o, as the code encodes it
Changes(h, o) ==
  LET delta(f, m) == (h[f] - o[f]) % m
      new == {f \in {"win", "ack", "seq"} : h[f] # o[f]}
      plain == (IF h.urg THEN {"U"} ELSE {}) \cup (IF "win" \in new THEN {"W"} ELSE {})
                 \cup (IF "ack" \in new THEN {"A"} ELSE {})
                 \cup (IF "seq" \in new THEN {"S"} ELSE {})
      special == CASE plain = {"S", "A"} /\ delta("seq", L) = delta("ack", L)
                        /\ delta("seq", L) = o.len -> SPECIAL_I
                   [] plain = {"S"} /\ delta("seq", L) = o.len -> SPECIAL_D
                   [] OTHER -> plain
      id == delta("id", W)
  IN [possible |-> /\ h.fix = o.fix
                   /\ h.urg \/ h.urp = o.urp
                   /\ delta("ack", L) < W
                   /\ delta("seq", L) < W
                   /\ plain \notin {SPECIAL_I, SPECIAL_D}
                   /\ plain = {} => h.len # o.len /\ o.len = 0,
      bits |-> special \cup (IF id # 1 THEN {"I"} ELSE {}) \cup (IF h.psh THEN {"P"} ELSE {}),
      urp |-> h.urp, win |-> delta("win", W), ack |-> delta("ack", L),
      seq |-> delta("seq", L), id |-> id]

\* A frame: its type, and what is left of the header
Frame(type, cid, c, h) == [type |-> type, cid |-> cid, c |-> c, h |-> h, len |-> h.len]

\* pppifOutput and vj_compress_tcp; when the packet is lost the compressor
\* has changed all the same.
vj_compress_tcp(h) ==
  LET s == Slot(h)
      known == tx.state[s].conn = h.conn
      c == Changes(h, tx.state[s])
      implicit == compressSlot /\ tx.last_xmit = s
      none == [bits |-> {}]
      t == [tx EXCEPT !.n = @ + 1]
      n == [t EXCEPT !.order = Front(s), !.state[s] = h, !.last_xmit = s]
  IN CASE h.plain -> [tx |-> t, frame |-> Frame("IP", 255, none, h)]
       [] ~h.plain /\ known /\ c.possible ->
            [tx |-> n, frame |-> Frame("COMPRESSED", IF implicit THEN 255 ELSE s, c,
                                       [Blank EXCEPT !.len = h.len])]
       [] OTHER -> [tx |-> n, frame |-> Frame("UNCOMPRESSED", s, none, h)]

Send(h) ==
  LET f == vj_compress_tcp(h) IN
  /\ tx.n < Streams[tx.stream].max
  /\ \/ /\ mbox' = Append(mbox, [frame |-> f.frame, sent |-> h, slot |-> Slot(h)])
        /\ tx' = f.tx
        /\ UNCHANGED rx
     \/ \* pppDrop of a damaged frame, and vj_uncompress_err
        /\ tx.lost < Streams[tx.stream].losses
        /\ tx' = [f.tx EXCEPT !.lost = @ + 1, !.raced = @ \/ mbox # <<>>]
        /\ mbox' = Append(mbox, [frame |-> Frame("LOST", 255, [bits |-> {}], h), sent |-> h,
                                 slot |-> IF h.plain THEN 255 ELSE Slot(h)])
        /\ rx' = [rx EXCEPT !.toss = TRUE]
  /\ UNCHANGED last

vj_uncompress_uncomp(f) ==
  [rx EXCEPT !.last_recv = f.cid, !.toss = FALSE, !.state[f.cid] = f.h,
             !.good = @ \cup {f.cid}]

\* The header that the frame's changes make of the state o
Rebuilt(f, o) ==
  LET c == f.c
      has(b) == b \in c.bits
      base == c.bits \ {"I", "P"}
      special == base \in {SPECIAL_I, SPECIAL_D}
      add(m, a, b) == (a + b) % m
  IN [o EXCEPT !.psh = has("P"),
               !.urg = IF special THEN @ ELSE has("U"),
               !.urp = IF ~special /\ has("U") THEN c.urp ELSE @,
               !.win = IF ~special /\ has("W") THEN add(W, @, c.win) ELSE @,
               !.ack = CASE base = SPECIAL_I -> add(L, @, o.len)
                         [] ~special /\ has("A") -> add(L, @, c.ack)
                         [] OTHER -> @,
               !.seq = CASE special -> add(L, @, o.len)
                         [] ~special /\ has("S") -> add(L, @, c.seq)
                         [] OTHER -> @,
               !.id = IF has("I") THEN add(W, @, c.id) ELSE add(W, @, 1),
               !.len = f.len]

\* pppInput: the next frame is taken; memory for the rebuilt header may fail.
Take(memory) ==
  /\ mbox # <<>>
  /\ LET m == Head(mbox)
         f == m.frame
         cid == IF f.cid = 255 THEN rx.last_recv ELSE f.cid
         h == Rebuilt(f, rx.state[cid])
         Hand(g) == last' = [slot |-> m.slot, sent |-> m.sent, got |-> g]
         nothing == last' = [slot |-> 0, sent |-> Blank, got |-> Blank]
     IN \/ f.type = "LOST" /\ rx' = [rx EXCEPT !.good = @ \ {m.slot}] /\ nothing
        \/ f.type = "IP" /\ Hand(f.h) /\ UNCHANGED rx
        \/ f.type = "UNCOMPRESSED" /\ rx' = vj_uncompress_uncomp(f) /\ Hand(f.h)
        \/ /\ f.type = "COMPRESSED" /\ f.cid = 255 /\ rx.toss
           /\ rx' = [rx EXCEPT !.good = @ \ {m.slot}]
           /\ nothing
        \/ /\ f.type = "COMPRESSED"
           /\ f.cid # 255 \/ ~rx.toss
           /\ rx' = [rx EXCEPT !.last_recv = cid, !.state[cid] = h, !.toss = ~memory]
           /\ IF memory THEN Hand(h) ELSE nothing
  /\ mbox' = Tail(mbox)
  /\ UNCHANGED tx

Next == (\E h \in Streams[tx.stream].headers : Send(h)) \/ (\E m \in BOOLEAN : Take(m))

Spec == Init /\ [][Next]_vars

\* The slots are in an order of use.
TypeOK ==
  /\ Cardinality({tx.order[i] : i \in 1..MAX_SLOTS}) = MAX_SLOTS
  /\ rx.good \subseteq Slots

\* "If we've had a line error since the last time we got an explicit state
\* index, we have to toss the packet" (vj.c): what is handed to IP was sent.
HeadersRight == last.sent # last.got => last.slot \notin rx.good

\* The header vj_uncompress_tcp hands to IP is the one that was compressed,
\* unless a frame of its slot was lost since the last whole header: an error
\* never lets one connection's packet take the header of another.  A frame
\* damaged while earlier ones waited for the TCP/IP thread is not covered.
HeadersTrue == ~tx.raced => HeadersRight
=============================================================================
