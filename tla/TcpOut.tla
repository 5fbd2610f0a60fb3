-------------------------------- MODULE TcpOut -------------------------------
(***************************************************************************)
(* The sending half of an established TCP connection of lwIP (tcp_out.c,   *)
(* the acknowledgement part of tcp_receive, tcp_slowtmr): the queues of    *)
(* unsent and unacknowledged segments, the windows, retransmission after a *)
(* time-out or after duplicate acknowledgements, the persist timer.  The   *)
(* peer acknowledges anything that was sent, late, repeatedly and out of   *)
(* order, and offers any window.                                           *)
(***************************************************************************)
EXTENDS Integers, Sequences, SequencesExt, FiniteSetsExt

CONSTANTS SEQ,                   \* the number of sequence numbers: 2^32 in the code
          ISS,                   \* the sequence number of the first byte
          U16,                   \* the range of a u16_t
          LAST,                  \* bytes the application writes
          MSS, TCP_SND_BUF, TCP_SND_QUEUELEN, TCP_MAXRTX,
          Windows,               \* windows the peer offers
          PerSegment             \* pbufs of a segment: one if the data is copied, else two

VARIABLE snd                     \* the sender's fields of the pcb

Dif(a, b) == ((a - b + SEQ \div 2) % SEQ) - SEQ \div 2
TCP_SEQ_BETWEEN(a, b, c) == Dif(a, b) >= 0 /\ Dif(a, c) <= 0
TCP_TCPLEN(s) == s.len + (IF s.fin THEN 1 ELSE 0)
SegEnd(s) == (s.seq + TCP_TCPLEN(s)) % SEQ

\* odd: a segment that tcp_rexmit put back on ->unsent was still there when the others
\* were put before it (reordered) or when new data was chained to it (reused); or it
\* was sent again when the last time-out had used up the retries (overrun).
TcpOutInit ==
  snd = [state |-> "ESTABLISHED", unsent |-> <<>>, unacked |-> <<>>, nxt |-> ISS, max |-> ISS, lastack |-> ISS,
         lbb |-> ISS, buf |-> TCP_SND_BUF, queuelen |-> 0, wnd |-> Max(Windows), wl2 |-> ISS,
         cwnd |-> 2 * MSS, ssthresh |-> Max(Windows), dupacks |-> 0, infr |-> FALSE, memerr |-> FALSE, fin |-> FALSE,
         rtime |-> FALSE, nrtx |-> 0, persist |-> FALSE, odd |-> "no"]

Written == (snd.lbb - ISS) % SEQ

\* The data cut into segments of MSS bytes, a FIN alone; each takes pb pbufs.
Pieces(p, n, fin, pb) ==
  LET k == IF fin THEN 1 ELSE (n + MSS - 1) \div MSS IN
  [i \in 1 .. k |-> [seq |-> (p.lbb + (i - 1) * MSS) % SEQ,
                     len |-> IF fin THEN 0 ELSE IF i = k THEN n - (k - 1) * MSS ELSE MSS, fin |-> fin, pb |-> pb]]

\* The first piece is chained to the last unsent segment if that has room.
Chained(q, pieces) ==
  IF q # <<>> /\ ~Last(q).fin /\ ~pieces[1].fin /\ Last(q).len + pieces[1].len <= MSS
  THEN Front(q) \o <<[Last(q) EXCEPT !.len = @ + pieces[1].len, !.pb = @ + pieces[1].pb]>> \o Tail(pieces)
  ELSE q \o pieces

\* mem: there is memory for all segments and pbufs.  The result is the new pcb.
Room(p, n, fin, pb) ==
  n <= p.buf /\ p.queuelen < TCP_SND_QUEUELEN /\ p.queuelen + pb * Len(Pieces(p, n, fin, pb)) <= TCP_SND_QUEUELEN

tcp_enqueue(p, n, fin, pb, mem) ==
  LET len == IF fin THEN 1 ELSE n
      pieces == Pieces(p, n, fin, pb)
  IN  IF ~mem \/ ~Room(p, n, fin, pb) THEN [p EXCEPT !.memerr = TRUE]
      ELSE [p EXCEPT !.unsent = Chained(@, pieces), !.fin = @ \/ fin, !.lbb = (@ + len) % SEQ,
                     !.buf = (@ - len) % U16, !.queuelen = @ + pb * Len(pieces),
                     !.odd = IF Chained(p.unsent, pieces) # p.unsent \o pieces /\ SegEnd(Last(p.unsent)) # p.lbb
                             THEN "reused" ELSE @]

\* The distance of the end of the segment from the last acknowledgement (unsigned).
Reach(p, s) == (s.seq - p.lastack + s.len) % SEQ
Fits(p, s) == Reach(p, s) <= Min({p.wnd, p.cwnd})
Nagle(p) == p.unacked = <<>> \/ Len(p.unsent) > 1

\* The head of ->unsent is sent and goes to the head or to the tail of ->unacked.
Transmit(p) ==
  LET s == Head(p.unsent)
      first == p.unacked # <<>> /\ Dif(s.seq, Last(p.unacked).seq) < 0
  IN  [p EXCEPT !.unsent = Tail(@), !.rtime = TRUE, !.nxt = SegEnd(s),
                !.max = IF Dif(@, SegEnd(s)) < 0 THEN SegEnd(s) ELSE @,
                !.unacked = IF first THEN <<s>> \o @ ELSE Append(@, s)]

RECURSIVE SendAll(_)
SendAll(p) ==
  IF p.unsent # <<>> /\ Fits(p, Head(p.unsent)) /\ (Nagle(p) \/ p.memerr \/ p.fin) THEN SendAll(Transmit(p)) ELSE p

\* acknow: TF_ACK_NOW is set; if no data can be sent an empty ACK is, or fails, and
\* that is all.
tcp_output(p, acknow) ==
  IF acknow /\ (p.unsent = <<>> \/ ~Fits(p, Head(p.unsent))) THEN p
  ELSE LET q == SendAll(p)
           shut == q.unsent # <<>> /\ Reach(q, Head(q.unsent)) > q.wnd
       IN  [q EXCEPT !.persist = @ \/ shut, !.memerr = FALSE]

tcp_rexmit_rto(p) ==
  LET q == p.unacked \o p.unsent IN
  tcp_output([p EXCEPT !.unsent = q, !.unacked = <<>>, !.nxt = q[1].seq, !.nrtx = @ + 1,
                       !.odd = IF p.unsent # <<>> /\ Dif(p.unsent[1].seq, q[1].seq) < 0 THEN "reordered" ELSE @], FALSE)

\* Called from tcp_receive, where tcp_output does nothing.
tcp_rexmit(p) ==
  [p EXCEPT !.unsent = <<Head(p.unacked)>> \o @, !.unacked = Tail(@), !.nxt = Head(p.unacked).seq, !.nrtx = @ + 1,
            !.odd = IF p.nrtx = TCP_MAXRTX THEN "overrun" ELSE @]

Larger(c, by) == IF (c + by) % U16 > c THEN c + by ELSE c

Duplicate(p) ==
  LET q == [p EXCEPT !.dupacks = Min({@ + 1, 3})]
      half == Min({q.cwnd, q.wnd}) \div 2
      thresh == IF half < 2 * MSS THEN 2 * MSS ELSE half
  IN  IF q.dupacks < 3 \/ q.unacked = <<>> THEN q
      ELSE IF q.infr THEN [q EXCEPT !.cwnd = Larger(@, MSS)]
      ELSE [tcp_rexmit(q) EXCEPT !.ssthresh = thresh, !.cwnd = (thresh + 3 * MSS) % U16, !.infr = TRUE]

\* Segments at the head of the queue q that the acknowledgement covers.
Covered(q, ackno, max) == Cardinality({i \in DOMAIN q : \A j \in 1 .. i : TCP_SEQ_BETWEEN(ackno, SegEnd(q[j]), max)})
Pbufs(q) == FoldFunction(LAMBDA s, n : s.pb + n, 0, q)
Acked(p, ackno) ==
  LET c == IF p.infr THEN p.ssthresh ELSE p.cwnd
      k == Covered(p.unacked, ackno, p.max)
      rest == SubSeq(p.unacked, k + 1, Len(p.unacked))
  IN  [p EXCEPT !.infr = FALSE, !.nrtx = 0, !.buf = (@ + Dif(ackno, p.lastack)) % U16, !.dupacks = 0, !.lastack = ackno,
                !.cwnd = IF c < p.ssthresh THEN Larger(c, MSS) ELSE Larger(c, (MSS * MSS) \div c),
                !.unacked = rest, !.queuelen = @ - Pbufs(SubSeq(p.unacked, 1, k)), !.rtime = rest # <<>>]

\* Segments that were sent once and wait to be sent again.
AckedUnsent(p, ackno) ==
  LET k == Covered(p.unsent, ackno, p.max)
      rest == SubSeq(p.unsent, k + 1, Len(p.unsent))
  IN  [p EXCEPT !.unsent = rest, !.queuelen = @ - Pbufs(SubSeq(p.unsent, 1, k)),
                !.nxt = IF k > 0 /\ rest # <<>> THEN rest[1].seq ELSE @]

\* The acknowledgement part of tcp_receive.  The peer sends no data: its sequence
\* number stays.
tcp_receive(p, ackno, w) ==
  LET update == Dif(p.wl2, ackno) < 0 \/ (p.wl2 = ackno /\ w > p.wnd)
      q == IF update THEN [p EXCEPT !.wnd = w, !.wl2 = ackno, !.persist = @ /\ w = 0] ELSE p
      r == IF ackno = q.lastack THEN IF q.wnd = p.wnd THEN Duplicate(q) ELSE q
           ELSE IF TCP_SEQ_BETWEEN(ackno, q.lastack + 1, q.max) THEN Acked(q, ackno) ELSE q
  IN  AckedUnsent(r, ackno)

\* ok: the application's callbacks return no error.
tcp_input(ackno, w, ok, acknow) ==
  LET p == tcp_receive(snd, ackno, w)
      done == p.fin /\ ackno = p.nxt
      q == IF done THEN [p EXCEPT !.state = "FIN_WAIT_2"] ELSE p
  IN  snd' = IF ok THEN tcp_output(q, acknow) ELSE q

tcp_write(n, pb, mem) ==
  /\ snd.state = "ESTABLISHED" /\ ~snd.fin
  /\ Written + n <= LAST
  /\ snd' = tcp_enqueue(snd, n, FALSE, pb, mem)

tcp_close(mem) ==
  /\ snd.state = "ESTABLISHED"
  /\ LET p == tcp_enqueue(snd, 0, TRUE, 1, mem)
     IN  snd' = IF p.fin THEN tcp_output([p EXCEPT !.state = "FIN_WAIT_1"], FALSE) ELSE p

\* The application calls tcp_output.
output == snd' = tcp_output(snd, FALSE)

\* expires: the retransmission timer has reached rto.
tcp_slowtmr(expires, ok, acknow) ==
  LET eff == Min({snd.cwnd, snd.wnd}) \div 2
      p == IF snd.persist \/ ~snd.rtime \/ snd.unacked = <<>> \/ ~expires THEN snd
           ELSE tcp_rexmit_rto([snd EXCEPT !.ssthresh = IF eff < MSS THEN 2 * MSS ELSE eff, !.cwnd = MSS])
  IN  snd' = IF snd.nrtx = TCP_MAXRTX
             THEN [snd EXCEPT !.state = "CLOSED", !.unsent = <<>>, !.unacked = <<>>, !.rtime = FALSE]
             ELSE IF ok THEN tcp_output(p, acknow) ELSE p

Acks == {a % SEQ : a \in ISS .. ISS + ((snd.max - ISS) % SEQ)}

TcpOutNext ==
  /\ snd.state \notin {"CLOSED", "FIN_WAIT_2"}
  /\ snd.odd = "no"
  /\ \/ \E n \in 1 .. MSS + 1, pb \in PerSegment, mem \in BOOLEAN : tcp_write(n, pb, mem)
     \/ \E mem \in BOOLEAN : tcp_close(mem)
     \/ output
     \/ \E ackno \in Acks, w \in Windows, ok, acknow \in BOOLEAN : tcp_input(ackno, w, ok, acknow)
     \/ \E expires, ok, acknow \in BOOLEAN : tcp_slowtmr(expires, ok, acknow)
-----------------------------------------------------------------------------
Queued == {p[1][p[2]] : p \in {<<snd.unacked, i>> : i \in DOMAIN snd.unacked} \cup {<<snd.unsent, i>> : i \in DOMAIN snd.unsent}}
Between(a, b) == {x % SEQ : x \in a .. a + ((b - a) % SEQ) - 1}
Numbers(s) == Between(s.seq, SegEnd(s))

\* A segment at the head of ->unsent that no timer will help: nothing is unacknowledged,
\* the persist timer is off, and the congestion window keeps it back.
Stuck ==
  /\ snd.state # "CLOSED" /\ snd.unsent # <<>> /\ snd.unacked = <<>> /\ ~snd.persist
  /\ ~Fits(snd, Head(snd.unsent)) /\ Reach(snd, Head(snd.unsent)) <= snd.wnd

\* What the queues promise: every byte written and not yet acknowledged is in exactly
\* one segment of ->unacked or ->unsent, until the connection is given up; snd_buf and
\* snd_queuelen account for what is there; a segment that waits for its
\* acknowledgement has the retransmission timer running, and no number above snd_max
\* was sent.
SendTrue ==
  (snd.state # "CLOSED" /\ snd.odd = "no") =>
    /\ Between(snd.lastack, snd.lbb) \subseteq UNION {Numbers(s) : s \in Queued}
    /\ \A s, t \in Queued : s = t \/ Numbers(s) \cap Numbers(t) = {}
    /\ Cardinality(Queued) = Len(snd.unacked) + Len(snd.unsent)
    /\ snd.buf = (TCP_SND_BUF - Dif(snd.lbb, snd.lastack)) % U16
    /\ snd.queuelen = Pbufs(snd.unacked) + Pbufs(snd.unsent)
    /\ snd.unacked # <<>> => snd.rtime
    /\ snd.cwnd > 0
    /\ ~Stuck
    /\ \A i \in DOMAIN snd.unacked : Dif(SegEnd(snd.unacked[i]), snd.max) <= 0

\* A closed connection all of which is acknowledged has left FIN_WAIT_1, from where
\* tcp_slowtmr never frees it.
ClosedIsFreed == snd.state = "FIN_WAIT_1" => snd.lastack # snd.lbb
=============================================================================
