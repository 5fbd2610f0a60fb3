-------------------------------- MODULE TcpIn --------------------------------
(***************************************************************************)
(* The receiving half of a TCP connection of lwIP (tcp_in.c, tcp.c): the   *)
(* data part of tcp_receive with the queue of out-of-sequence segments,    *)
(* the window, the delayed acknowledgements and data the application       *)
(* refuses.  The peer sends the bytes 0 .. LAST-1 and a FIN, cut into any  *)
(* segments, late, repeated and out of order.                              *)
(***************************************************************************)
EXTENDS Integers, Sequences, FiniteSetsExt

CONSTANTS SEQ,                   \* the number of sequence numbers: 2^32 in the code
          IRS,                   \* the sequence number of byte 0
          LAST,                  \* bytes the peer sends
          TCP_WND, MSS

VARIABLES rcv,                   \* the receiver's fields of the pcb
          app                    \* the application: got bytes, not yet tcp_recved, ...

tcpInVars == <<rcv, app>>

Dif(a, b) == ((a - b + SEQ \div 2) % SEQ) - SEQ \div 2
TCP_SEQ_BETWEEN(a, b, c) == Dif(a, b) >= 0 /\ Dif(a, c) <= 0
TCP_TCPLEN(s) == s.len + (IF s.fin THEN 1 ELSE 0)

\* A segment: at is the number of its first byte, which its sequence number should tell.
Segment(at, len, fin) == [seq |-> (IRS + at) % SEQ, len |-> len, fin |-> fin, at |-> at]
Bytes(s) == [i \in 1 .. s.len |-> s.at + i - 1]

\* broken: the pcb was spoilt by a write through a null pointer; cut: the end of a
\* segment with FIN was cut off and the FIN kept; early: the connection was taken
\* down by a FIN that came before other data.
TcpInInit ==
  /\ rcv = [state |-> "ESTABLISHED", nxt |-> IRS, wnd |-> TCP_WND, ann |-> TCP_WND, ooseq |-> <<>>,
            delay |-> FALSE, now |-> FALSE, refused |-> <<>>, broken |-> FALSE, cut |-> FALSE, early |-> FALSE]
  /\ app = [got |-> 0, unread |-> 0, eof |-> FALSE, right |-> TRUE, ahead |-> FALSE]

tcp_ack(r) == IF r.delay THEN [r EXCEPT !.delay = FALSE, !.now = TRUE] ELSE [r EXCEPT !.delay = TRUE]
tcp_ack_now(r) == [r EXCEPT !.now = TRUE]

\* tcp_output with nothing to send: an empty ACK, if there is memory for one.
tcp_output(r, mem) == IF r.now /\ mem THEN [r EXCEPT !.now = FALSE, !.delay = FALSE] ELSE r

Less(n, k) == IF n < k THEN 0 ELSE n - k

\* The segment s is in sequence: x has the pcb r and what goes to the application.
Accept(x, s, moves) ==
  [r |-> [x.r EXCEPT !.nxt = IF moves THEN (@ + TCP_TCPLEN(s)) % SEQ ELSE @,
                     !.wnd = Less(@, TCP_TCPLEN(s)), !.ann = Less(@, TCP_TCPLEN(s)),
                     !.cut = @ \/ (s.fin /\ s.at + s.len # LAST)],
   data |-> x.data \o Bytes(s), fin |-> x.fin \/ s.fin]

RECURSIVE Dequeue(_)
Dequeue(x) ==
  LET q == x.r.ooseq IN
  IF q = <<>> \/ (q # <<>> /\ q[1].seq # x.r.nxt) THEN x
  ELSE LET y == Accept(x, q[1], TRUE) IN
       Dequeue([y EXCEPT !.r.ooseq = Tail(q),
                         !.r.state = IF q[1].fin /\ @ = "ESTABLISHED" THEN "CLOSE_WAIT" ELSE @])

InSequence(r, s) ==
  LET q == r.ooseq
      meets == q # <<>> /\ Dif(q[1].seq, s.seq + s.len) <= 0
      only == meets /\ q[1].len = 0
      t == IF meets /\ ~only THEN [s EXCEPT !.len = Dif(q[1].seq, s.seq)] ELSE s
      r1 == IF only /\ q[1].fin = s.fin THEN [r EXCEPT !.ooseq = Tail(q)] ELSE r
      x == Dequeue(Accept([r |-> r1, data |-> <<>>, fin |-> FALSE], t, r.state # "CLOSE_WAIT"))
  IN  [x EXCEPT !.r = tcp_ack(@)]

\* The second edge of s is trimmed where t begins.
Trimmed(s, t) == IF Dif(s.seq + s.len, t.seq) > 0 THEN [s EXCEPT !.len = Dif(t.seq, s.seq)] ELSE s

\* s goes to its place in the queue of segments out of sequence.
Place(q, s) == Min({i \in DOMAIN q : Dif(q[i].seq, s.seq) >= 0} \cup {Len(q) + 1})
Replaces(q, s) == LET i == Place(q, s) IN i <= Len(q) /\ q[i].seq = s.seq

\* A slip that trims neither of two segments that overlap.
EnqueueMutant(q, s) ==
  LET i == Place(q, s) IN SubSeq(q, 1, i - 1) \o <<s>> \o SubSeq(q, i, Len(q))

Enqueue(q, s) ==
  LET i == Place(q, s)
      before == IF i = 1 THEN <<>> ELSE SubSeq(q, 1, i - 2) \o <<Trimmed(q[i - 1], s)>>
      here(j) == IF j > Len(q) THEN <<s>> ELSE <<Trimmed(s, q[j])>>
  IN  IF Replaces(q, s)
      THEN IF s.len > q[i].len THEN SubSeq(q, 1, i - 1) \o here(i + 1) \o SubSeq(q, i + 1, Len(q)) ELSE q
      ELSE before \o here(i) \o SubSeq(q, i, Len(q))

\* mem: tcp_seg_copy finds a free tcp_seg.
OutOfSequence(r, s, mem) ==
  LET q == r.ooseq
      wild == ~mem /\ Replaces(q, s) /\ s.len > q[Place(q, s)].len
  IN  [tcp_ack_now(r) EXCEPT !.ooseq = IF mem THEN Enqueue(q, s) ELSE q, !.broken = wild]

FirstEdge(r, s) ==
  IF TCP_SEQ_BETWEEN(r.nxt, s.seq + 1, s.seq + TCP_TCPLEN(s) - 1)
  THEN LET off == Dif(r.nxt, s.seq) IN [s EXCEPT !.seq = r.nxt, !.at = @ + off, !.len = @ - off]
  ELSE s

\* The data part of tcp_receive.
tcp_receive(r, s0, mem) ==
  LET s == FirstEdge(r, s0)
      none == [r |-> r, data |-> <<>>, fin |-> FALSE]
      inWindow(w) == TCP_SEQ_BETWEEN(s.seq, r.nxt, r.nxt + w - 1)
  IN  IF TCP_TCPLEN(s0) = 0 THEN IF inWindow(r.wnd) THEN none ELSE [none EXCEPT !.r = tcp_ack_now(r)]
      ELSE IF ~inWindow(r.ann) THEN [none EXCEPT !.r = tcp_ack_now(r)]
      ELSE IF s.seq = r.nxt THEN InSequence(r, s)
      ELSE [none EXCEPT !.r = OutOfSequence(r, s, mem)]

tcp_pcb_purge(r) == [r EXCEPT !.ooseq = <<>>, !.refused = <<>>]

\* The state after the segment, which tcp_receive has taken.
Received(x, r, s) ==
  LET accepted == TCP_TCPLEN(s) > 0 /\ FirstEdge(r, s).seq = r.nxt
                  /\ TCP_SEQ_BETWEEN(r.nxt, r.nxt, r.nxt + r.ann - 1)
  IN  IF r.state = "FIN_WAIT_2" /\ s.fin
      THEN [x EXCEPT !.r = [tcp_pcb_purge(tcp_ack_now(x.r)) EXCEPT !.state = "TIME_WAIT", !.early = ~x.fin]]
      ELSE IF r.state # "FIN_WAIT_2" /\ s.fin /\ accepted
      THEN [x EXCEPT !.r = [tcp_ack_now(x.r) EXCEPT !.state = "CLOSE_WAIT"]]
      ELSE x
tcp_process(r, s, mem) == Received(tcp_receive(r, s, mem), r, s)

\* The receive callback gets bytes, or a null buffer for the end of the stream.
Given(a, data) ==
  [a EXCEPT !.got = @ + Len(data), !.unread = @ + Len(data),
            !.right = @ /\ data = [i \in DOMAIN data |-> a.got + i - 1]]

\* takes: the callback takes the data kept from before, then the new data.
tcp_input(s, mem, takes, buf) ==
  /\ rcv.state # "TIME_WAIT"
  /\ IF rcv.refused # <<>> /\ ~takes[1] THEN UNCHANGED tcpInVars
     ELSE \E x \in {tcp_process([rcv EXCEPT !.refused = <<>>], s, mem)} :
            LET a == Given(app, rcv.refused)
                refuses == x.data # <<>> /\ ~takes[2]
                b == IF refuses \/ x.r.broken THEN a ELSE Given(a, x.data)
                left == IF refuses THEN [x.r EXCEPT !.refused = x.data] ELSE x.r
            IN  /\ rcv' = IF refuses /\ ~x.fin THEN left ELSE tcp_output(left, buf)
                /\ app' = [b EXCEPT !.eof = @ \/ x.fin, !.ahead = @ \/ (x.fin /\ refuses)]

tcp_timewait_input(s, buf) ==
  /\ rcv.state = "TIME_WAIT"
  /\ LET n == TCP_TCPLEN(s)
         r == IF Dif(s.seq + n, rcv.nxt) > 0 THEN [rcv EXCEPT !.nxt = (s.seq + n) % SEQ] ELSE rcv
     IN  rcv' = tcp_output(IF n > 0 THEN tcp_ack_now(r) ELSE r, buf)
  /\ UNCHANGED app

\* The application has processed n bytes.
tcp_recved(n, buf) ==
  LET w == rcv.wnd + n
      r == IF w > TCP_WND THEN [rcv EXCEPT !.wnd = TCP_WND, !.ann = TCP_WND]
           ELSE [rcv EXCEPT !.wnd = w, !.ann = IF w >= MSS THEN w ELSE @]
      s == IF ~rcv.delay /\ ~rcv.now THEN tcp_ack(r)
           ELSE IF rcv.delay /\ r.wnd >= TCP_WND \div 2 THEN tcp_output(tcp_ack_now(r), buf) ELSE r
  IN  /\ n \in 1 .. app.unread
      /\ rcv' = s
      /\ app' = [app EXCEPT !.unread = @ - n]

\* Data refused before is offered again; a delayed ACK is sent, or forgotten for want
\* of memory.
tcp_fasttmr(takes) ==
  LET again == rcv.refused # <<>> /\ takes
      r == IF again THEN [rcv EXCEPT !.refused = <<>>] ELSE rcv
  IN  /\ rcv.state # "TIME_WAIT"
      /\ rcv' = IF r.delay THEN [r EXCEPT !.delay = FALSE, !.now = FALSE] ELSE r
      /\ app' = IF again THEN Given(app, rcv.refused) ELSE app

\* quiet: nothing has come for TCP_OOSEQ_TIMEOUT retransmission times.
tcp_slowtmr(quiet, buf) ==
  /\ rcv.state # "TIME_WAIT"
  /\ rcv' = tcp_output(IF quiet THEN [rcv EXCEPT !.ooseq = <<>>] ELSE rcv, buf)
  /\ UNCHANGED app

\* Our FIN is sent and acknowledged: the sending half is closed (external: TcpConn).
Closed ==
  /\ rcv.state = "ESTABLISHED"
  /\ rcv' = [rcv EXCEPT !.state = "FIN_WAIT_2"]
  /\ UNCHANGED app

\* The peer keeps to the window it was told, and probes a closed one with a byte.
Edge == ((rcv.nxt - IRS) % SEQ) + rcv.ann
Segments ==
  {s \in {Segment(at, len, fin) : at \in 0 .. LAST, len \in 0 .. MSS, fin \in BOOLEAN} :
     s.at + s.len <= LAST /\ (s.fin => s.at + s.len = LAST)}
Sent == {s \in Segments : s.at + s.len <= Edge \/ (s.at = Edge /\ s.len <= 1)}

TcpInNext ==
  /\ ~rcv.broken /\ ~rcv.cut
  /\ \/ \E s \in Sent, buf \in BOOLEAN :
          \/ \E mem \in {TRUE, s.seq = rcv.nxt}, old \in {TRUE, rcv.refused = <<>>}, new \in BOOLEAN :
               tcp_input(s, mem, <<old, new>>, buf)
          \/ tcp_timewait_input(s, buf)
     \/ \E n \in 1 .. LAST, buf \in BOOLEAN : tcp_recved(n, buf)
     \/ \E takes \in BOOLEAN : tcp_fasttmr(takes)
     \/ \E quiet, buf \in BOOLEAN : tcp_slowtmr(quiet, buf)
     \/ Closed
-----------------------------------------------------------------------------
\* What tcp_receive promises, unless a FIN was moved by cutting its segment.  The
\* application gets the bytes of the stream in order, none twice and none missing;
\* every byte acknowledged was given to it or is kept because it was refused, and the
\* end of the stream is told after the last byte; ->ooseq holds pieces of the stream in
\* order, above rcv_nxt until the stream ends, that do not overlap; the window offered is never more than
\* the room left.  Three cases are excluded by name: FIN cut from its segment, the end told ahead
\* of data refused with it, a connection that a FIN out of sequence took down.
StreamTrue ==
  (~rcv.broken /\ ~rcv.cut) =>
    LET q == rcv.ooseq
        passed == app.got + Len(rcv.refused)
    IN  /\ app.right
        /\ rcv.state # "TIME_WAIT" => (rcv.nxt - IRS) % SEQ = passed + (IF app.eof THEN 1 ELSE 0)
        /\ (app.eof /\ ~app.ahead) => app.got = LAST
        /\ rcv.state = "TIME_WAIT" => app.eof \/ rcv.early
        /\ \A i \in DOMAIN q : /\ q[i].seq = (IRS + q[i].at) % SEQ
                               /\ app.eof \/ Dif(q[i].seq, rcv.nxt) > 0
                               /\ i > 1 => q[i - 1].at + q[i - 1].len <= q[i].at
        /\ rcv.ann <= rcv.wnd
        /\ rcv.wnd + app.unread + Len(rcv.refused) <= TCP_WND
=============================================================================
