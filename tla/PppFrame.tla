------------------------------- MODULE PppFrame ------------------------------
(***************************************************************************)
(* PPP frames on a serial line (netif/ppp/ppp.c): pppifOutput and pppWrite *)
(* build a frame in a chain of pool buffers, octet by octet, and pppInProc *)
(* takes frames out of the octets that arrive.  Octets are lost, changed   *)
(* and inserted on the line, writes are cut short and buffers run out.     *)
(***************************************************************************)
EXTENDS Integers, Sequences, SequencesExt, Bitwise

CONSTANTS Packets,    \* [proto, data]: what IP and the control protocols send
          Lines,      \* [accomp, pcomp]: what LCP negotiated
          OutACCM,    \* octets this end escapes
          InACCM,     \* octets the other end takes for controls
          Size,       \* PBUF_POOL_BUFSIZE
          Strays,     \* octets that noise puts on the line
          MaxSent,    \* bound: packets sent
          MaxFaults   \* bound: disturbances of the line and failed allocations

VARIABLES tx,    \* the sender: its line's options, what it sent, lastXMit is recent
          line,  \* octets on the line
          rx,    \* the receiver's PPPControl
          got,   \* packets that reached pppInput
          fault  \* [n, hit]: disturbances so far, the packets they hit
vars == <<tx, line, rx, got, fault>>

FLAG == 126
ESCAPE == 125
ALLSTATIONS == 255
UI == 3
INITFCS == 65535
GOODFCS == 61624

\* c ^ PPP_TRANS
Trans(c) == c ^^ 32

\* One octet through the shift register of RFC 1171: an entry of fcstab
Shift(v, i) == IF v % 2 = 1 THEN (v \div 2) ^^ 33800 ELSE v \div 2
fcstab == [c \in 0..255 |-> FoldLeft(Shift, c, <<1, 2, 3, 4, 5, 6, 7, 8>>)]
PPP_FCS(fcs, c) == (fcs \div 256) ^^ fcstab[(fcs % 256) ^^ c]

Fcs(octets) == FoldLeft(PPP_FCS, INITFCS, octets)

\* Adds c to the chain of buffers; <<>> is the chain that could not grow.
pppAppend(c, chain, accm, room) ==
  LET code == IF c \in accm THEN <<ESCAPE, Trans(c)>> ELSE <<c>>
      k == Len(chain)
  IN CASE chain = <<>> -> <<>>
       [] chain # <<>> /\ Size - Len(chain[k]) >= 2 -> [chain EXCEPT ![k] = @ \o code]
       [] OTHER -> IF k < room THEN Append(chain, code) ELSE <<>>

\* What is escaped and checked: header, packet, and the check sequence
Body(p, t) ==
  LET header == (IF t.accomp THEN <<>> ELSE <<ALLSTATIONS, UI>>)
                  \o (IF t.pcomp /\ p.proto <= 255 THEN <<>> ELSE <<p.proto \div 256>>)
                  \o <<p.proto % 256>>
      fcs == 65535 - Fcs(header \o p.data)
  IN header \o p.data \o <<fcs % 256, fcs \div 256>>

\* The frame's chain of buffers when `room` buffers can be had
Frame(p, t, idle, room) ==
  LET start == IF room = 0 THEN <<>>
               ELSE IF idle THEN pppAppend(FLAG, << <<>> >>, {}, room) ELSE << <<>> >>
      Add(chain, c) == pppAppend(c, chain, OutACCM, room)
  IN pppAppend(FLAG, FoldLeft(Add, start, Body(p, t)), {}, room)

NoPacket == [state |-> "ADDRESS", escaped |-> FALSE, fcs |-> INITFCS, proto |-> 0,
             head |-> <<>>, tail |-> <<>>, held |-> FALSE]

Init ==
  /\ \E t \in Lines : tx = [accomp |-> t.accomp, pcomp |-> t.pcomp, sent |-> <<>>,
                            idle |-> TRUE]
  /\ line = <<>>
  /\ rx = [NoPacket EXCEPT !.state = "IDLE"]
  /\ got = <<>>
  /\ fault = [n |-> 0, hit |-> {}]

Faulty(f) == fault' = [n |-> fault.n + 1, hit |-> fault.hit \cup {f}]

\* pppifOutput, pppWrite and nPut: sio_write may stop anywhere, and then a
\* flag goes before the next frame.  Without buffers the packet is dropped.
Send(p, pause) ==
  /\ Len(tx.sent) < MaxSent
  /\ line = <<>>
  /\ \/ LET f == FlattenSeq(Frame(p, tx, tx.idle \/ pause, MaxSent * 100)) IN
        \E n \in {Len(f)} \cup (IF fault.n < MaxFaults THEN 0..(Len(f) - 1) ELSE {}) :
          /\ line' = SubSeq(f, 1, n)
          /\ tx' = [tx EXCEPT !.sent = Append(@, p), !.idle = n < Len(f)]
          /\ IF n < Len(f) THEN Faulty(Len(tx.sent) + 1) ELSE UNCHANGED fault
     \/ /\ fault.n < MaxFaults
        /\ \E room \in 0..1 : Frame(p, tx, tx.idle \/ pause, room) = <<>>
        /\ tx' = [tx EXCEPT !.idle = FALSE]
        /\ Faulty(0)
        /\ UNCHANGED line
  /\ UNCHANGED <<rx, got>>

\* The octet at the head of the line is lost, changed, or has one before it.
Noise ==
  /\ fault.n < MaxFaults
  /\ line # <<>>
  /\ \/ line' = Tail(line)
     \/ \E c \in Strays : line' \in {<<c>> \o Tail(line), <<c>> \o line}
  /\ Faulty(Len(tx.sent))
  /\ UNCHANGED <<tx, rx, got>>

\* pppDrop
pppDrop(r) == [r EXCEPT !.head = <<>>, !.tail = <<>>, !.held = FALSE]

\* pbuf_cat of the full last buffer
Cat(r) == [r EXCEPT !.head = @ \o r.tail, !.tail = <<>>]

\* A slip that takes the check sequence off the last buffer only.
PacketMutant(r) ==
  LET n == IF Len(r.tail) >= 2 THEN Len(r.head) + (Len(r.tail) - 2) ELSE Len(r.head)
      octets == SubSeq(r.head \o r.tail, 1, n)
  IN [proto |-> octets[1], data |-> SubSeq(octets, 3, Len(octets))]

\* The packet without its check sequence, which may lie in two buffers
Packet(r) ==
  LET n == IF Len(r.tail) >= 2 THEN Len(r.head) + (Len(r.tail) - 2)
           ELSE Len(Cat(r).head) - 2   \* pbuf_realloc
      octets == SubSeq(r.head \o r.tail, 1, n)
  IN [proto |-> octets[1], data |-> SubSeq(octets, 3, Len(octets))]

\* A flag: the packet is passed on when its check sequence is good.
Flag(r) ==
  LET good == r.state = "DATA" /\ r.fcs = GOODFCS
  IN [rx |-> CASE r.state \in {"IDLE", "START", "ADDRESS"} ->
                    [r EXCEPT !.state = "ADDRESS", !.fcs = INITFCS, !.escaped = FALSE]
               [] OTHER -> NoPacket,
      got |-> IF good THEN <<Packet(r)>> ELSE <<>>]

\* An octet of the header, by state; the cases fall through as in the code.
PROTOCOL1(r, c) ==
  IF c % 2 = 1 THEN [r EXCEPT !.proto = c, !.state = "DATA"]
  ELSE [r EXCEPT !.proto = c * 256, !.state = "PROTOCOL2"]
CONTROL(r, c) == IF c = UI THEN [r EXCEPT !.state = "PROTOCOL1"] ELSE PROTOCOL1(r, c)
ADDRESS(r, c) == IF c = ALLSTATIONS THEN [r EXCEPT !.state = "CONTROL"] ELSE CONTROL(r, c)
START(r, c) == ADDRESS([r EXCEPT !.fcs = INITFCS], c)

\* An octet of data; a first buffer begins with unit and protocol.
DATA(r, c, memory) ==
  LET full == ~r.held \/ Len(r.tail) = Size
      k == IF r.held THEN Cat(r) ELSE [r EXCEPT !.head = <<>>]
      n == [k EXCEPT !.held = TRUE, !.tail = IF r.held THEN <<>> ELSE <<r.proto, 0>>]
  IN CASE full /\ ~memory -> [pppDrop(r) EXCEPT !.state = "START"]
       [] full /\ memory -> [n EXCEPT !.tail = Append(@, c)]
       [] OTHER -> [r EXCEPT !.tail = Append(@, c)]

Octet(r, c, memory) ==
  LET n == CASE r.state = "IDLE" -> IF c # ALLSTATIONS THEN r ELSE START(r, c)
             [] r.state = "START" -> START(r, c)
             [] r.state = "ADDRESS" -> ADDRESS(r, c)
             [] r.state = "CONTROL" -> CONTROL(r, c)
             [] r.state = "PROTOCOL1" -> PROTOCOL1(r, c)
             [] r.state = "PROTOCOL2" -> [r EXCEPT !.proto = @ + c, !.state = "DATA"]
             [] r.state = "DATA" -> DATA(r, c, memory)
  IN [n EXCEPT !.fcs = PPP_FCS(@, c)]

\* pppInProc, one octet at a time
pppInProc(memory) ==
  /\ line # <<>>
  /\ LET c == Head(line) IN
     /\ \/ /\ c \notin InACCM
           /\ rx' = Octet([rx EXCEPT !.escaped = FALSE],
                          IF rx.escaped THEN Trans(c) ELSE c, memory)
           /\ UNCHANGED got
        \/ /\ c = FLAG
           /\ LET f == Flag(rx) IN rx' = f.rx /\ got' = got \o f.got
        \/ /\ c \in InACCM \ {FLAG}
           /\ rx' = [rx EXCEPT !.escaped = @ \/ c = ESCAPE]
           /\ UNCHANGED got
     /\ line' = Tail(line)
  /\ UNCHANGED tx

Receive == pppInProc(TRUE) /\ UNCHANGED fault
\* pbuf_alloc fails in pppInProc.
ReceiveNoMemory ==
  /\ fault.n < MaxFaults
  /\ rx.state = "DATA"
  /\ ~rx.held \/ Len(rx.tail) = Size
  /\ pppInProc(FALSE)
  /\ Faulty(Len(tx.sent))

Next ==
  \/ \E p \in Packets, pause \in BOOLEAN : Send(p, pause)
  \/ Noise
  \/ Receive
  \/ ReceiveNoMemory

Spec == Init /\ [][Next]_vars

\* A buffer holds what fits it.
TypeOK ==
  /\ Len(rx.tail) <= Size
  /\ fault.n \in 0..MaxFaults

\* Whatever the line loses, changes or inserts, pppInProc passes on only
\* packets that were sent, whole, in their order and none twice.
FramesTrue ==
  \E m \in [DOMAIN got -> DOMAIN tx.sent] :
    \A i \in DOMAIN got : /\ got[i] = tx.sent[m[i]]
                          /\ i > 1 => m[i - 1] < m[i]

\* A packet arrives unless it, or the frame before it, met a disturbance:
\* pppInProc finds the next frame after any other.
FramesArrive ==
  line = <<>> =>
    \A i \in DOMAIN tx.sent :
      {i, i - 1} \cap fault.hit = {} => \E k \in DOMAIN got : got[k] = tx.sent[i]
=============================================================================
