--------------------------------- MODULE Lcp ---------------------------------
(***************************************************************************)
(* The link control protocol (lcp.c) at the two ends of a line that loses  *)
(* packets and keeps the order of the others, or at one end of a line that *)
(* returns what it sends.  An end runs the automaton of PppFsm.  The       *)
(* options a request carries are abstracted to their values:               *)
(*   mru    1 below PPP_MINMRU, 2 PPP_MINMRU, 3 PPP_DEFMRU, 4 larger,      *)
(*          5 PPP_MRU, the most a frame holds                              *)
(*   map    1 + the control characters to escape (one character)          *)
(*   auth   the authentication protocols still in question                 *)
(*   magic  the magic number                                               *)
(*   comp   protocol or address compression, two flags treated alike       *)
(* 0, {} and FALSE: the option is not negotiated.                          *)
(***************************************************************************)
EXTENDS Integers, Sequences, FiniteSets, FiniteSetsExt

CONSTANTS Lines,        \* how the ends may be configured, see Plain
          LoopFail,     \* lcp_loopbackfail
          ConfReqs, TermReqs, NakLoops,   \* the automaton's limits
          MaxId,        \* bound: identifiers an end uses up
          MaxOpens,     \* bound: sessions an end opens
          Capacity      \* bound: packets on the line in one direction

VARIABLES end,          \* the state of each end
          line,         \* line[i]: the packets on their way to end i
          loop          \* the line returns what end 1 sends
vars == <<end, line, loop>>

Ends == {1, 2}
MinMru == 2
DefMru == 3
PppMru == 5
NoCis == [mru |-> 0, map |-> 0, auth |-> {}, magic |-> 0, comp |-> FALSE]
Options == DOMAIN NoCis
Present(cis) == {o \in Options : cis[o] # NoCis[o]}
Only(cis, S) == [o \in Options |-> IF o \in S THEN cis[o] ELSE NoCis[o]]

\* ppp_send_config and ppp_recv_config: what this end sends, and the control
\* characters it takes for line noise (the other arguments are not used)
Link(f, tx, rx) == [f EXCEPT !.tx = tx, !.rx = rx]
Idle == [mtu |-> PppMru, map |-> 2, comp |-> FALSE]
RxMap(f) == IF f.go.map # 0 THEN f.go.map ELSE 1

\* wo is copied with a fresh magic number, and auth_reset drops the protocols
\* this end has no secrets for.
lcp_resetci(f) ==
  [f EXCEPT !.go = [f.wo EXCEPT !.magic = IF @ = 0 THEN 0 ELSE f.rnd,
                                !.auth = @ \cap f.secrets],
            !.loops = 0]
lcp_cilen(f) == f
lcp_addci(f) ==
  [f.go EXCEPT !.mru = IF @ = DefMru THEN 0 ELSE @,
               !.auth = IF "chap" \in @ THEN {"chap"} ELSE @]

lcp_ackci(f, cis) == cis = lcp_addci(f)

\* The requests lcp_nakci tries next; a line that returns our own magic number
\* too often is closed.
lcp_nakci(f, cis) ==
  LET S == Present(cis)
      go == f.go
      next == [mru |-> IF "mru" \in S /\ (cis.mru <= f.wo.mru \/ cis.mru < DefMru)
                       THEN cis.mru ELSE go.mru,
               map |-> IF "map" \in S THEN Max({go.map, cis.map}) ELSE go.map,
               auth |-> IF "auth" \notin S \/ "chap" \in cis.auth \cap go.auth
                        THEN go.auth
                        ELSE go.auth \ {IF "chap" \in go.auth THEN "chap" ELSE "pap"},
               magic |-> IF "magic" \in S THEN f.rnd ELSE go.magic,
               comp |-> go.comp /\ "comp" \notin S]
      loops == IF "magic" \in S THEN f.loops + 1 ELSE 0
  IN [ok |-> S \subseteq Present(lcp_addci(f))
             /\ ~(cis.auth = {"pap"} /\ "chap" \notin go.auth),
      f |-> IF f.state = "OPENED" THEN f
            ELSE LET g == [f EXCEPT !.go = next, !.loops = loops]
                 IN IF loops >= LoopFail
                    THEN [g EXCEPT !.shut = TRUE,
                                   !.phase = IF @ = "DEAD" THEN @ ELSE "TERMINATE"]
                    ELSE g]

lcp_rejci(f, cis) ==
  LET S == Present(cis)
      off == [o \in Options |-> IF o \in S THEN NoCis[o] ELSE f.go[o]]
  IN [ok |-> \A o \in S : cis[o] = lcp_addci(f)[o],
      f |-> IF f.state = "OPENED" THEN f ELSE [f EXCEPT !.go = off]]

\* A slip that does not compare the peer's magic number with this end's.
MagicMutant(f, cis) == IF f.ao.magic = 0 /\ f.go.magic = 0 THEN "REJ" ELSE "ACK"

Magic(f, cis) ==
  IF f.ao.magic = 0 /\ f.go.magic = 0 THEN "REJ"
  ELSE IF cis.magic = f.go.magic THEN "NAK" ELSE "ACK"

\* What this end thinks of each option of the peer's request.
Verdict(f, cis, o) ==
  CASE o = "mru" -> IF f.ao.mru = 0 THEN "REJ" ELSE IF cis.mru < MinMru THEN "NAK" ELSE "ACK"
    [] o = "map" -> IF f.ao.map = 0 THEN "REJ" ELSE IF f.ao.map > cis.map THEN "NAK" ELSE "ACK"
    [] o = "auth" -> IF f.ao.auth = {} THEN "REJ"
                     ELSE IF cis.auth \subseteq f.ao.auth THEN "ACK" ELSE "NAK"
    [] o = "magic" -> Magic(f, cis)
    [] o = "comp" -> IF f.ao.comp THEN "ACK" ELSE "REJ"

Hint(f, cis) ==
  [mru |-> MinMru, map |-> Max({f.ao.map, cis.map}), auth |-> f.ao.auth,
   magic |-> f.rnd, comp |-> FALSE]

lcp_reqci(f, cis, tough) ==
  LET S == Present(cis)
      are(v) == {o \in S : Verdict(f, cis, o) = v}
      rejs == are("REJ") \cup (IF tough THEN are("NAK") \ {"magic"} ELSE {})
      naks == are("NAK") \ rejs
      h == [f EXCEPT !.ho = Only(cis, are("ACK"))]
  IN CASE rejs # {} -> [code |-> "CONFREJ", cis |-> Only(cis, rejs), f |-> h]
       [] rejs = {} /\ naks # {} ->
            [code |-> "CONFNAK", cis |-> Only(Hint(f, cis), naks), f |-> h]
       [] OTHER -> [code |-> "CONFACK", cis |-> cis, f |-> h]

\* lcp_up: the link is set to what was negotiated and the upper layers start.
lcp_up(f) ==
  Link([f EXCEPT !.up = TRUE, !.phase = "AUTHENTICATE"],
       [mtu |-> Min({f.ao.mru, IF f.ho.mru # 0 THEN f.ho.mru ELSE PppMru}),
        map |-> IF f.ho.map # 0 THEN f.ho.map ELSE 2,
        comp |-> f.ho.comp],
       RxMap(f))
lcp_down(f) ==
  Link([f EXCEPT !.up = FALSE, !.phase = IF @ = "DEAD" THEN @ ELSE "TERMINATE"],
       Idle, RxMap(f))
lcp_starting(f) == f
\* link_terminated
lcp_finished(f) == [f EXCEPT !.phase = "DEAD"]

\* No packet of another kind is sent on this line: extcode has nothing to do.
lcp_extcode(f, p) == [ok |-> TRUE, f |-> f]

Fsm == INSTANCE PppFsm WITH
  MaxConfReqs <- ConfReqs, MaxTermReqs <- TermReqs, MaxNakLoops <- NakLoops,
  resetci <- lcp_resetci, cilen <- lcp_cilen, addci <- lcp_addci,
  ackci <- lcp_ackci, nakci <- lcp_nakci, rejci <- lcp_rejci, reqci <- lcp_reqci,
  extcode <- lcp_extcode, up <- lcp_up, down <- lcp_down,
  starting <- lcp_starting, finished <- lcp_finished

lcp_close(f) ==
  LET g == [f EXCEPT !.phase = IF @ = "DEAD" THEN @ ELSE "TERMINATE"]
  IN IF g.state = "STOPPED" /\ g.flags \cap {"passive", "silent"} # {}
     THEN lcp_finished([g EXCEPT !.state = "CLOSED"])
     ELSE Fsm!fsm_close(g)

lcp_lowerup(f) == Fsm!fsm_lowerup(Link(f, Idle, 1))

lcp_open(f) == [Fsm!fsm_open(f) EXCEPT !.phase = "ESTABLISH"]

\* An end as it is configured: what it wants, what it allows, the secrets it
\* has for authenticating its peer, what magic() returns it, and its flags.
Plain(c) ==
  [state |-> "INITIAL", id |-> 0, reqid |-> 0, seen |-> FALSE, rexmit |-> 0,
   naks |-> 0, timer |-> 0, out |-> <<>>, shut |-> FALSE, rnd |-> 0, flags |-> c.flags,
   wo |-> c.wo, ao |-> c.ao, secrets |-> c.secrets, magics |-> c.magics, go |-> NoCis, ho |-> NoCis,
   loops |-> 0, phase |-> "DEAD", up |-> FALSE, opens |-> 0,
   tx |-> Idle, rx |-> 1]

Init ==
  \E l \in Lines :
     /\ end = [i \in Ends |-> Plain(l.ends[i])]
     /\ loop = l.loop
     /\ line = [i \in Ends |-> <<>>]

Peer(i) == IF loop THEN i ELSE 3 - i

\* What the handler sends reaches the line while there is room on it and a
\* session reads it at the other end; the rest is lost.
Sent(l, f, to, alive) ==
  IF alive THEN SubSeq(l \o f.out, 1, Min({Capacity, Len(l) + Len(f.out)})) ELSE l

Become(i, f, l) ==
  LET dest == Peer(i)
      alive == IF dest = i THEN f.phase # "DEAD" ELSE end[dest].phase # "DEAD"
  IN /\ f.id <= MaxId
     /\ end' = [end EXCEPT ![i] = [f EXCEPT !.out = <<>>, !.rnd = 0]]
     /\ line' = [l EXCEPT ![dest] = Sent(@, f, dest, alive)]
     /\ UNCHANGED loop

Draw(f) == {[f EXCEPT !.rnd = m] : m \in f.magics}

\* pppOverSerialOpen and pppStartCB: lcp_init, lcp_lowerup, lcp_open
Open(i) ==
  /\ loop => i = 1
  /\ end[i].phase = "DEAD"
  /\ end[i].opens < MaxOpens
  /\ \E f \in Draw(end[i]) :
       Become(i, [lcp_open(lcp_lowerup(Fsm!fsm_init(f))) EXCEPT !.opens = @ + 1], line)

\* pppStopCB, and the link failure of too many unanswered echo requests
Close(i) == end[i].phase # "DEAD" /\ Become(i, lcp_close(end[i]), line)

\* pppHupCB: the modem hung up
Hup(i) ==
  /\ end[i].phase # "DEAD"
  /\ Become(i, lcp_finished(Fsm!fsm_lowerdown(end[i])), line)

\* lcp_input
Receive(i) ==
  /\ line[i] # <<>>
  /\ \E f \in Draw(end[i]) :
       Become(i, Fsm!fsm_input(f, Head(line[i])), [line EXCEPT ![i] = Tail(@)])

Expire(i) ==
  /\ end[i].timer > 0
  /\ \E f \in Draw(end[i]) : Become(i, Fsm!fsm_timeout(f), line)

Lose(i) ==
  /\ line[i] # <<>>
  /\ line' = [line EXCEPT ![i] = Tail(@)]
  /\ UNCHANGED <<end, loop>>

Next == \E i \in Ends : Open(i) \/ Close(i) \/ Hup(i) \/ Receive(i) \/ Expire(i) \/ Lose(i)

Spec == Init /\ [][Next]_vars

States == {"INITIAL", "STARTING", "CLOSED", "STOPPED", "CLOSING", "STOPPING",
           "REQSENT", "ACKRCVD", "ACKSENT", "OPENED"}

\* The automaton's states and counters, and the room on the line.
TypeOK ==
  /\ loop \in BOOLEAN
  /\ \A i \in Ends :
       /\ end[i].state \in States
       /\ end[i].id \in 0..MaxId
       /\ end[i].timer \in Nat
       /\ end[i].phase \in {"DEAD", "ESTABLISH", "AUTHENTICATE", "TERMINATE"}
       /\ Len(line[i]) <= Capacity

\* What a sends, b can read.
Understood(a, b) ==
  /\ a.ho = lcp_addci(b)
  /\ a.tx.map >= b.rx
  /\ a.tx.comp => b.go.comp
  /\ b.go.mru \notin {0, DefMru} => a.tx.mtu <= b.go.mru

\* When LCP is up at both ends they agree on every option, although requests
\* and answers were lost or crossed: neither sends what the other cannot read
\* (fsm_rconfack, lcp_reqci, lcp_up).
LinkAgreed ==
  ~loop => (end[1].up /\ end[2].up
              => Understood(end[1], end[2]) /\ Understood(end[2], end[1]))

\* A line that returns what is sent on it never comes up: lcp_reqci and
\* lcp_nakci notice their own magic number.
LoopStaysDown == loop => ~end[1].up

\* An end that waits for its peer has a timer that ends the wait (fsm_timeout).
Watched ==
  \A i \in Ends : end[i].state \in Fsm!Negotiating \cup Fsm!Closing => end[i].timer > 0

\* The layers above are up only while the automaton is OPENED (lcp_up, lcp_down).
UpIsOpened ==
  \A i \in Ends : end[i].up => end[i].state = "OPENED"

=============================================================================
