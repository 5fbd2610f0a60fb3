----------------------------- MODULE LinkProofs -----------------------------
(***************************************************************************)
(* Proofs about the phases of a PPP link (PppLink), for every number of    *)
(* sessions, callouts and retries and whatever the peer sends: first the   *)
(* automaton of IPCP, then the link on top of it.                          *)
(***************************************************************************)
EXTENDS PppLink, Sequences, TLAPS

\* PPP: IPCP's automaton, then the link that carries it.  Of the record of an
\* automaton only its fields are assumed, and its state.
AutoNames == {"state", "id", "reqid", "seen", "rexmit", "naks", "timer", "out", "shut", "flags",
              "verdict", "bad", "ups", "net", "fin"}
AutoStates == {"INITIAL", "STARTING", "CLOSED", "STOPPED", "CLOSING", "STOPPING", "REQSENT",
               "ACKRCVD", "ACKSENT", "OPENED"}
Below == {"INITIAL", "STARTING"}
IsAuto(f) == f = [n \in AutoNames |-> f[n]]
AutoOK(f) == IsAuto(f) /\ f.state \in AutoStates /\ (f.net => f.state = "OPENED")
Steady(f, g) == IsAuto(g) /\ g.state = f.state /\ g.net = f.net

(* Entering a state (f->state = ...) changes nothing else.                 *)
LEMMA Entered ==
  ASSUME NEW f, IsAuto(f), NEW x
  PROVE  IsAuto(Fsm!Enter(f, x)) /\ Fsm!Enter(f, x).state = x /\ Fsm!Enter(f, x).net = f.net
  BY DEF IsAuto, AutoNames, Fsm!Enter

(* Sending, and the automaton's timer, change neither its state nor the    *)
(* interface (fsm_sdata, fsm_sconfreq, TIMEOUT, UNTIMEOUT).                *)
LEMMA Sends ==
  ASSUME NEW f, IsAuto(f)
  PROVE  /\ Steady(f, Fsm!TIMEOUT(f)) /\ Steady(f, Fsm!UNTIMEOUT(f))
         /\ \A code, id, cis : Steady(f, Fsm!fsm_sdata(f, code, id, cis))
         /\ Steady(f, Fsm!Terminate(f))
         /\ \A r : Steady(f, Fsm!fsm_sconfreq(f, r))
<1> USE DEF IsAuto, AutoNames, Steady
<1>1. \A g : IsAuto(g) => Steady(g, Fsm!TIMEOUT(g)) /\ Steady(g, Fsm!UNTIMEOUT(g))
  BY DEF Fsm!TIMEOUT, Fsm!UNTIMEOUT
<1>2. ASSUME NEW g, IsAuto(g), NEW code, NEW id, NEW cis
      PROVE  Steady(g, Fsm!fsm_sdata(g, code, id, cis))
  <2> DEFINE o == Append(g.out, [code |-> code, id |-> id, cis |-> cis])
  <2>1. Fsm!fsm_sdata(g, code, id, cis) = [g EXCEPT !.out = o]
    BY Zenon DEF Fsm!fsm_sdata
  <2> HIDE DEF o
  <2> QED
    BY <1>2, <2>1
<1>3. Steady(f, Fsm!Terminate(f))
  <2> DEFINE a == [f EXCEPT !.id = @ + 1, !.reqid = f.id + 1]
             b == Fsm!fsm_sdata(a, "TERMREQ", f.id + 1, NoCis)
             c == [b EXCEPT !.rexmit = @ - 1]
  <2>1. Steady(f, a)
    BY Zenon
  <2> HIDE DEF a
  <2>2. Steady(a, b)
    BY <1>2, <2>1
  <2> HIDE DEF b
  <2>3. Steady(b, c)
    BY <2>2
  <2>4. Fsm!Terminate(f) = Fsm!TIMEOUT(c)
    BY DEF Fsm!Terminate, a, b
  <2> HIDE DEF c
  <2> QED
    BY <1>1, <2>1, <2>2, <2>3, <2>4
<1>4. ASSUME NEW r
      PROVE  Steady(f, Fsm!fsm_sconfreq(f, r))
  <2> DEFINE a == IF f.state \in Fsm!Negotiating THEN f ELSE [f EXCEPT !.naks = 0]
             b == IF r THEN a ELSE [a EXCEPT !.rexmit = 1, !.id = @ + 1, !.reqid = a.id + 1]
             c == [b EXCEPT !.seen = FALSE]
             d == Fsm!fsm_sdata(c, "CONFREQ", c.reqid, NoCis)
             e == [d EXCEPT !.rexmit = @ - 1]
  <2>1. Steady(f, a)
    OBVIOUS
  <2> HIDE DEF a
  <2>2. Steady(a, b)
    BY <2>1, Zenon
  <2> HIDE DEF b
  <2>3. Steady(b, c)
    BY <2>2, Zenon
  <2> HIDE DEF c
  <2>4. Steady(c, d)
    BY <1>2, <2>3
  <2> HIDE DEF d
  <2>5. Steady(d, e)
    BY <2>4
  <2>6. Fsm!fsm_sconfreq(f, r) = Fsm!TIMEOUT(e)
    BY DEF Fsm!fsm_sconfreq, resetci, addci, a, b, c, d
  <2> HIDE DEF e
  <2> QED
    BY <1>1, <2>1, <2>2, <2>3, <2>4, <2>5, <2>6
<1> QED
  BY <1>1, <1>2, <1>3, <1>4

(* Taking the interface down (ipcp_down).                                  *)
LEMMA Lowered ==
  ASSUME NEW f, IsAuto(f)
  PROVE  IsAuto(ipcp_down(f)) /\ ipcp_down(f).state = f.state /\ ~ipcp_down(f).net
  BY Zenon DEF IsAuto, AutoNames, ipcp_down

\* g is f with the interface down or as it was.
Quieter(f, g) == AutoOK(g) /\ (g.net => f.net)

(* Closing (fsm_close) takes the interface down.                           *)
LEMMA Closed ==
  ASSUME NEW f, AutoOK(f)
  PROVE  LET g == Fsm!fsm_close(f)
         IN  AutoOK(g) /\ ~g.net /\ (f.state \in Below => g.state = "INITIAL")
<1> DEFINE g == Fsm!fsm_close(f)
<1>1. IsAuto(f) /\ f.state \in AutoStates /\ (f.net => f.state = "OPENED")
  BY DEF AutoOK
<1>2. CASE f.state \in Fsm!Negotiating \cup {"OPENED"}
  <2> DEFINE d == IF f.state = "OPENED" THEN ipcp_down(f) ELSE Fsm!UNTIMEOUT(f)
             e == [d EXCEPT !.rexmit = 1]
             h == Fsm!Terminate(e)
  <2>1. IsAuto(d) /\ ~d.net
    BY <1>1, Lowered, Sends DEF Steady
  <2> HIDE DEF d
  <2>2. IsAuto(e) /\ ~e.net
    BY <2>1 DEF IsAuto, AutoNames
  <2> HIDE DEF e
  <2>3. IsAuto(h) /\ ~h.net
    BY <2>2, Sends DEF Steady
  <2>4. g = Fsm!Enter(h, "CLOSING")
    BY <1>2 DEF Fsm!fsm_close, Fsm!Negotiating, d, e
  <2> HIDE DEF h, g
  <2>5. IsAuto(g) /\ g.state = "CLOSING" /\ ~g.net
    BY <2>3, <2>4, Entered
  <2>6. f.state \notin Below
    BY <1>2 DEF Fsm!Negotiating, Below
  <2> QED
    BY <2>5, <2>6 DEF AutoOK, AutoStates, g
<1>3. CASE f.state \in {"STARTING", "STOPPED", "STOPPING"}
  <2>1. \E x \in {"INITIAL", "CLOSED", "CLOSING"} :
          g = Fsm!Enter(f, x) /\ (f.state \in Below => x = "INITIAL")
    BY <1>3 DEF Fsm!fsm_close, Fsm!Negotiating, Below
  <2> HIDE DEF g
  <2> QED
    BY <1>1, <1>3, <2>1, Entered DEF AutoOK, AutoStates, g
<1>4. CASE f.state \in {"INITIAL", "CLOSED", "CLOSING"}
  <2>1. g = f
    BY <1>4 DEF Fsm!fsm_close, Fsm!Negotiating
  <2> QED
    BY <1>1, <1>4, <2>1 DEF AutoOK, Below
<1> QED
  BY <1>1, <1>2, <1>3, <1>4 DEF AutoStates, Fsm!Negotiating

(* The layer below going down (fsm_lowerdown) takes the interface down.    *)
LEMMA LowerDown ==
  ASSUME NEW f, AutoOK(f)
  PROVE  LET g == Fsm!fsm_lowerdown(f) IN AutoOK(g) /\ ~g.net /\ g.state \in Below
<1> DEFINE g == Fsm!fsm_lowerdown(f)
<1>1. IsAuto(f) /\ f.state \in AutoStates /\ (f.net => f.state = "OPENED")
  BY DEF AutoOK
<1>2. CASE f.state = "OPENED"
  <2>1. g = Fsm!Enter(ipcp_down(f), "STARTING")
    BY <1>2 DEF Fsm!fsm_lowerdown, Fsm!Negotiating
  <2> HIDE DEF g
  <2> QED
    BY <1>1, <2>1, Lowered, Entered DEF AutoOK, AutoStates, Below, g
<1>3. CASE f.state \in {"CLOSED", "STOPPED"}
  <2>1. \E x \in Below : g = Fsm!Enter(f, x)
    BY <1>3 DEF Fsm!fsm_lowerdown, Fsm!Negotiating, Below, resetci
  <2> HIDE DEF g
  <2> QED
    BY <1>1, <1>3, <2>1, Entered DEF AutoOK, AutoStates, Below, g
<1>4. CASE f.state \in Fsm!Negotiating \cup {"CLOSING", "STOPPING"}
  <2>1. PICK x \in Below : g = Fsm!UNTIMEOUT(Fsm!Enter(f, x))
    BY <1>4 DEF Fsm!fsm_lowerdown, Fsm!Negotiating, Below
  <2>2. IsAuto(Fsm!Enter(f, x)) /\ Fsm!Enter(f, x).state = x /\ ~Fsm!Enter(f, x).net
    BY <1>1, <1>4, Entered DEF Fsm!Negotiating
  <2> HIDE DEF g
  <2>3. IsAuto(g) /\ g.state = x /\ ~g.net
    BY <2>1, <2>2, Sends DEF Steady
  <2> QED
    BY <2>3 DEF AutoOK, AutoStates, Below, g
<1>5. CASE f.state \in Below
  <2>1. g = f
    BY <1>5 DEF Fsm!fsm_lowerdown, Fsm!Negotiating, Below
  <2> QED
    BY <1>1, <1>5, <2>1 DEF AutoOK, Below
<1> QED
  BY <1>1, <1>2, <1>3, <1>4, <1>5 DEF AutoStates, Fsm!Negotiating, Below

(* A request, and the state that waits for its answer.                     *)
LEMMA Asked ==
  ASSUME NEW f, IsAuto(f), ~f.net, NEW x \in AutoStates, NEW r
  PROVE  LET g == Fsm!Enter(Fsm!fsm_sconfreq(f, r), x) IN AutoOK(g) /\ ~g.net
<1> DEFINE h == Fsm!fsm_sconfreq(f, r)
<1>1. IsAuto(h) /\ ~h.net
  BY Sends DEF Steady
<1> QED
  BY <1>1, Entered DEF AutoOK

(* The layer below coming up (fsm_lowerup) brings no interface up.         *)
LEMMA LowerUp ==
  ASSUME NEW f, AutoOK(f)
  PROVE  Quieter(f, Fsm!fsm_lowerup(f))
<1> DEFINE g == Fsm!fsm_lowerup(f)
<1>1. IsAuto(f) /\ f.state \in AutoStates /\ (f.net => f.state = "OPENED")
  BY DEF AutoOK
<1>2. CASE f.state \in Below
  <2>1. ~f.net
    BY <1>1, <1>2 DEF Below
  <2>2. \/ \E x \in {"CLOSED", "STOPPED"} : g = Fsm!Enter(f, x)
        \/ g = Fsm!Enter(Fsm!fsm_sconfreq(f, FALSE), "REQSENT")
    BY <1>2, Zenon DEF Fsm!fsm_lowerup, Below
  <2> HIDE DEF g
  <2>3. CASE \E x \in {"CLOSED", "STOPPED"} : g = Fsm!Enter(f, x)
    BY <1>1, <2>1, <2>3, Entered DEF AutoOK, AutoStates, Quieter, g
  <2>4. CASE g = Fsm!Enter(Fsm!fsm_sconfreq(f, FALSE), "REQSENT")
    BY <1>1, <2>1, <2>4, Asked, Zenon DEF AutoStates, Quieter, g
  <2> QED
    BY <2>2, <2>3, <2>4, Zenon
<1>3. CASE f.state \notin Below
  <2>1. g = f
    BY <1>3, Zenon DEF Fsm!fsm_lowerup, Below
  <2> QED
    BY <2>1 DEF Quieter
<1> QED
  BY <1>2, <1>3

(* Opening (fsm_open) brings no interface up, and nothing at all on a link *)
(* that is down.                                                           *)
LEMMA Opened ==
  ASSUME NEW f, AutoOK(f)
  PROVE  Quieter(f, Fsm!fsm_open(f)) /\ (f.state \in Below => Fsm!fsm_open(f).state \in Below)
<1> DEFINE g == Fsm!fsm_open(f)
<1>1. IsAuto(f) /\ f.state \in AutoStates /\ (f.net => f.state = "OPENED")
  BY DEF AutoOK
<1>2. ASSUME NEW h, AutoOK(h)
      PROVE  Quieter(h, Fsm!Restart(h))
  <2> DEFINE d == Fsm!fsm_lowerdown(h)
  <2>1. AutoOK(d) /\ ~d.net
    BY <1>2, LowerDown
  <2> HIDE DEF d
  <2>2. Quieter(d, Fsm!fsm_lowerup(d))
    BY <2>1, LowerUp
  <2>3. Fsm!Restart(h) \in {h, Fsm!fsm_lowerup(d)}
    BY DEF Fsm!Restart, d
  <2> QED
    BY <1>2, <2>1, <2>2, <2>3 DEF Quieter
<1>3. CASE f.state \in Below
  <2>1. g = f \/ g = Fsm!Enter(f, "STARTING")
    BY <1>3, Zenon DEF Fsm!fsm_open, Below, resetci
  <2> HIDE DEF g
  <2> QED
    BY <1>1, <1>3, <2>1, Entered DEF AutoOK, AutoStates, Below, Quieter, g
<1>4. CASE f.state = "CLOSED"
  <2>1. g = Fsm!Enter(f, "STOPPED") \/ g = Fsm!Enter(Fsm!fsm_sconfreq(f, FALSE), "REQSENT")
    BY <1>4, Zenon DEF Fsm!fsm_open
  <2>2. ~f.net
    BY <1>1, <1>4
  <2> HIDE DEF g
  <2>3. AutoOK(g) /\ ~g.net
    <3>1. CASE g = Fsm!Enter(f, "STOPPED")
      BY <1>1, <2>2, <3>1, Entered DEF AutoOK, AutoStates
    <3>2. CASE g = Fsm!Enter(Fsm!fsm_sconfreq(f, FALSE), "REQSENT")
      BY <1>1, <2>2, <3>2, Asked, Zenon DEF AutoStates
    <3> QED
      BY <2>1, <3>1, <3>2, Zenon
  <2> QED
    BY <1>4, <2>3 DEF Quieter, Below, g
<1>5. CASE f.state = "CLOSING"
  <2> DEFINE h == Fsm!Enter(f, "STOPPING")
  <2>1. g = Fsm!Restart(h)
    BY <1>5 DEF Fsm!fsm_open
  <2>2. AutoOK(h) /\ ~h.net
    BY <1>1, <1>5, Entered DEF AutoOK, AutoStates
  <2> HIDE DEF h
  <2> QED
    BY <1>2, <1>5, <2>1, <2>2 DEF Quieter, Below
<1>6. CASE f.state \in {"STOPPED", "OPENED"}
  <2>1. g = Fsm!Restart(f)
    BY <1>6 DEF Fsm!fsm_open
  <2> QED
    BY <1>2, <1>6, <2>1 DEF Below
<1>7. CASE f.state \in {"REQSENT", "ACKRCVD", "ACKSENT", "STOPPING"}
  <2>1. g = f
    BY <1>7, Zenon DEF Fsm!fsm_open
  <2> QED
    BY <2>1 DEF Quieter
<1> QED
  BY <1>1, <1>3, <1>4, <1>5, <1>6, <1>7 DEF AutoStates, Below

\* An automaton whose interface is down.
Down(f) == AutoOK(f) /\ ~f.net

(* An automaton that is not opened is down, and stays so whatever it sends *)
(* and whichever state it enters.                                          *)
LEMMA DownKept ==
  /\ \A f : AutoOK(f) /\ f.state # "OPENED" => Down(f)
  /\ \A f : AutoOK(f) => Down(ipcp_down(f))
  /\ \A f : Down(f) =>
       /\ Down(Fsm!TIMEOUT(f)) /\ Down(Fsm!UNTIMEOUT(f)) /\ Down(Fsm!Terminate(f))
       /\ \A code, id, cis : Down(Fsm!fsm_sdata(f, code, id, cis))
       /\ \A r : Down(Fsm!fsm_sconfreq(f, r))
       /\ \A x \in AutoStates : Down(Fsm!Enter(f, x))
       /\ Down(ipcp_finished(f))
       /\ \A v : Down([f EXCEPT !.naks = v]) /\ Down([f EXCEPT !.seen = v])
                 /\ Down([f EXCEPT !.rexmit = v])
<1>1. ASSUME NEW f, Down(f)
      PROVE  /\ Down(Fsm!TIMEOUT(f)) /\ Down(Fsm!UNTIMEOUT(f)) /\ Down(Fsm!Terminate(f))
             /\ \A code, id, cis : Down(Fsm!fsm_sdata(f, code, id, cis))
             /\ \A r : Down(Fsm!fsm_sconfreq(f, r))
  BY <1>1, Sends DEF Down, AutoOK, Steady
<1>2. ASSUME NEW f, Down(f)
      PROVE  \A x \in AutoStates : Down(Fsm!Enter(f, x))
  BY <1>2, Entered DEF Down, AutoOK
<1>3. ASSUME NEW f, Down(f), NEW v
      PROVE  /\ Down(ipcp_finished(f)) /\ Down([f EXCEPT !.naks = v])
             /\ Down([f EXCEPT !.seen = v]) /\ Down([f EXCEPT !.rexmit = v])
  BY <1>3, Zenon DEF Down, AutoOK, IsAuto, AutoNames, ipcp_finished
<1>4. \A f : AutoOK(f) => Down(ipcp_down(f))
  BY Lowered DEF Down, AutoOK
<1>5. \A f : AutoOK(f) /\ f.state # "OPENED" => Down(f)
  BY DEF Down, AutoOK
<1> QED
  BY <1>1, <1>2, <1>3, <1>4, <1>5, Zenon

(* A protocol that closes itself is closed (Settle), and comes up only     *)
(* when opened (ipcp_up).                                                  *)
LEMMA Settled ==
  /\ \A f : AutoOK(f) => AutoOK(Fsm!Settle(f))
  /\ \A f : Down(f) => Down(Fsm!Settle(f))
  /\ \A f : IsAuto(f) /\ f.state = "OPENED" => AutoOK(Fsm!Up(f))
<1>1. ASSUME NEW f, AutoOK(f)
      PROVE  AutoOK(Fsm!Settle(f)) /\ (Fsm!Settle(f).net => f.net)
  <2> DEFINE g == [f EXCEPT !.shut = FALSE]
  <2>1. AutoOK(g)
    BY <1>1, Zenon DEF AutoOK, IsAuto, AutoNames
  <2>2. Fsm!Settle(f) = f \/ Fsm!Settle(f) = Fsm!fsm_close(g)
    BY DEF Fsm!Settle
  <2> HIDE DEF g
  <2> QED
    BY <1>1, <2>1, <2>2, Closed
<1>2. ASSUME NEW f, IsAuto(f), f.state = "OPENED"
      PROVE  AutoOK(Fsm!Up(f))
  <2>1. AutoOK(ipcp_up(f))
    BY <1>2, Zenon DEF ipcp_up, AutoOK, IsAuto, AutoNames, AutoStates
  <2> QED
    BY <1>1, <2>1 DEF Fsm!Up
<1> QED
  BY <1>1, <1>2 DEF Down

(* The automaton's timer (fsm_timeout) brings no interface up.             *)
LEMMA FsmTimeout ==
  ASSUME NEW f0, AutoOK(f0)
  PROVE  /\ Quieter(f0, Fsm!fsm_timeout(f0))
         /\ f0.state \in Below => Fsm!fsm_timeout(f0).state \in Below
<1> DEFINE f == Fsm!UNTIMEOUT(f0)
           g == Fsm!fsm_timeout(f0)
           a == Fsm!Enter(f, IF f.state = "CLOSING" THEN "CLOSED" ELSE "STOPPED")
           b == Fsm!Enter(f, "STOPPED")
           c == Fsm!fsm_sconfreq(f, TRUE)
<1>1. AutoOK(f) /\ f.state = f0.state /\ f.net = f0.net
  BY Sends DEF AutoOK, Steady
<1>2. CASE f.state \in Fsm!Closing \cup Fsm!Negotiating
  <2>1. g \in {ipcp_finished(a), Fsm!Terminate(f), b, ipcp_finished(b), Fsm!Enter(c, "REQSENT"), c}
    BY <1>2, Zenon DEF Fsm!fsm_timeout, Fsm!Closing, Fsm!Negotiating
  <2> HIDE DEF f, g
  <2>2. Down(f)
    BY <1>1, <1>2, DownKept DEF Fsm!Closing, Fsm!Negotiating
  <2>3. Down(a) /\ Down(b) /\ Down(c) /\ Down(Fsm!Terminate(f))
    BY <2>2, DownKept, Zenon DEF AutoStates
  <2> HIDE DEF a, b, c
  <2>4. Down(ipcp_finished(a)) /\ Down(ipcp_finished(b)) /\ Down(Fsm!Enter(c, "REQSENT"))
    BY <2>3, DownKept DEF AutoStates
  <2>5. Down(g)
    BY <2>1, <2>3, <2>4
  <2> QED
    BY <1>1, <1>2, <2>5 DEF Quieter, Down, Below, Fsm!Closing, Fsm!Negotiating, g
<1>3. CASE f.state \notin Fsm!Closing \cup Fsm!Negotiating
  <2>1. g = f
    BY <1>3, Zenon DEF Fsm!fsm_timeout
  <2> QED
    BY <1>1, <2>1 DEF Quieter
<1> QED
  BY <1>2, <1>3

(* What follows the answer to a request (fsm_rconfreq): only the one that  *)
(* completes the negotiation brings the interface up, in the opened state. *)
LEMMA Answered ==
  ASSUME NEW s, Down(s), NEW code
  PROVE  AutoOK(Fsm!Agree(s)) /\ AutoOK(Fsm!Disagree(s, code))
<1> DEFINE f == [s EXCEPT !.naks = 0]
           u == Fsm!Enter(Fsm!UNTIMEOUT(f), "OPENED")
           n == IF s.state = "ACKRCVD" THEN s ELSE Fsm!Enter(s, "REQSENT")
           m == [n EXCEPT !.naks = @ + 1]
<1>1. Down(f) /\ Down(n)
  BY DownKept, Zenon DEF AutoStates
<1>2. Fsm!Agree(s) \in {Fsm!Up(u), Fsm!Enter(f, "ACKSENT")}
  BY DEF Fsm!Agree
<1>3. Fsm!Disagree(s, code) \in {n, m}
  BY DEF Fsm!Disagree
<1> HIDE DEF f, n
<1>4. Down(Fsm!Enter(f, "ACKSENT")) /\ Down(Fsm!UNTIMEOUT(f)) /\ Down(m)
  BY <1>1, DownKept, Zenon DEF AutoStates
<1>5. IsAuto(u) /\ u.state = "OPENED"
  BY <1>4, Entered DEF Down, AutoOK
<1>6. AutoOK(Fsm!Up(u))
  BY <1>5, Settled
<1> HIDE DEF u, m
<1> QED
  BY <1>1, <1>2, <1>3, <1>4, <1>6 DEF Down

(* A request of the peer (fsm_rconfreq).                                   *)
LEMMA ConfReq ==
  ASSUME NEW f0, AutoOK(f0), NEW p
  PROVE  AutoOK(Fsm!fsm_rconfreq(f0, p))
<1> DEFINE a == Fsm!fsm_sconfreq(ipcp_down(f0), FALSE)
           b == Fsm!Enter(Fsm!fsm_sconfreq(f0, FALSE), "REQSENT")
           f == CASE f0.state = "OPENED" -> a [] f0.state = "STOPPED" -> b [] OTHER -> f0
           s == Fsm!fsm_sdata(f, f.verdict, p.id, NoCis)
           c == Fsm!fsm_sdata(f0, "TERMACK", p.id, NoCis)
<1>1. Down(a)
  BY DownKept, Zenon
<1>2. f0.state # "OPENED" => Down(b) /\ Down(f0)
  BY DownKept, Zenon DEF AutoStates
<1>3. Fsm!fsm_rconfreq(f0, p) \in {c, f0, Fsm!Agree(s), Fsm!Disagree(s, f.verdict)}
  BY DEF Fsm!fsm_rconfreq, reqci
<1>4. AutoOK(c)
  BY Sends DEF AutoOK, Steady
<1> HIDE DEF a, b, c
<1>5. Down(f)
  BY <1>1, <1>2
<1> HIDE DEF f
<1>6. Down(s)
  BY <1>5, DownKept
<1> HIDE DEF s
<1> QED
  BY <1>3, <1>4, <1>6, Answered

(* The peer's acknowledgement (fsm_rconfack), likewise.                    *)
LEMMA ConfAck ==
  ASSUME NEW f0, AutoOK(f0), NEW p
  PROVE  AutoOK(Fsm!fsm_rconfack(f0, p))
<1> DEFINE g == Fsm!fsm_rconfack(f0, p)
           f == [f0 EXCEPT !.seen = TRUE]
           h == [f EXCEPT !.rexmit = 1]
           u == Fsm!Enter(Fsm!UNTIMEOUT(h), "OPENED")
           a == Fsm!Again(Fsm!UNTIMEOUT(f))
           b == Fsm!Again(ipcp_down(f))
<1>1. AutoOK(f) /\ AutoOK(h)
  BY Zenon DEF AutoOK, IsAuto, AutoNames
<1>2. \/ g \in {f0, f, Fsm!fsm_sdata(f, "TERMACK", p.id, NoCis), Fsm!Up(u), b}
      \/ f.state = "REQSENT" /\ g = Fsm!Enter(h, "ACKRCVD")
      \/ f.state = "ACKRCVD" /\ g = a
  BY DEF Fsm!fsm_rconfack
<1>3. f.state = "REQSENT" => h.state = "REQSENT"
  BY <1>1 DEF AutoOK, IsAuto, AutoNames
<1> HIDE DEF f, g, h
<1>4. AutoOK(Fsm!fsm_sdata(f, "TERMACK", p.id, NoCis))
  <2> DEFINE c == Fsm!fsm_sdata(f, "TERMACK", p.id, NoCis)
  <2>1. Steady(f, c)
    BY <1>1, Sends DEF AutoOK
  <2> HIDE DEF c
  <2>2. AutoOK(c)
    BY <1>1, <2>1 DEF AutoOK, Steady
  <2> QED
    BY <2>2 DEF c
<1>5. AutoOK(Fsm!Up(u))
  <2>1. IsAuto(Fsm!UNTIMEOUT(h))
    BY <1>1, Sends DEF AutoOK, Steady
  <2>2. IsAuto(u) /\ u.state = "OPENED"
    BY <2>1, Entered
  <2> QED
    BY <2>2, Settled
<1>6. AutoOK(b)
  BY <1>1, DownKept, Zenon DEF Fsm!Again, AutoStates, Down
<1>7. f.state = "REQSENT" => AutoOK(Fsm!Enter(h, "ACKRCVD"))
  BY <1>1, <1>3, DownKept DEF AutoStates, Down
<1>8. f.state = "ACKRCVD" => AutoOK(a)
  BY <1>1, DownKept, Zenon DEF Fsm!Again, AutoStates, Down
<1> HIDE DEF u, a, b
<1> QED
  BY <1>1, <1>2, <1>4, <1>5, <1>6, <1>7, <1>8 DEF g

(* The peer's refusals and its other packets (fsm_rconfnakrej,             *)
(* fsm_rtermreq, fsm_rtermack, fsm_rcoderej).                              *)
LEMMA OtherInput ==
  ASSUME NEW f0, AutoOK(f0), NEW p
  PROVE  /\ AutoOK(Fsm!fsm_rconfnakrej(f0, p)) /\ AutoOK(Fsm!fsm_rtermreq(f0, p))
         /\ AutoOK(Fsm!fsm_rtermack(f0)) /\ AutoOK(Fsm!fsm_rcoderej(f0))
<1>1. AutoOK(Fsm!fsm_rconfnakrej(f0, p))
  <2> DEFINE g == Fsm!fsm_rconfnakrej(f0, p)
             h == Fsm!Settle(f0)
             f == [h EXCEPT !.seen = TRUE]
             d == Fsm!UNTIMEOUT(f)
  <2>1. AutoOK(h)
    BY Settled
  <2>2. \/ g \in {f0, f, Fsm!fsm_sdata(f, "TERMACK", p.id, NoCis), Fsm!Again(ipcp_down(f))}
        \/ f.state \in {"REQSENT", "ACKSENT"} /\ g = Fsm!fsm_sconfreq(d, FALSE)
        \/ f.state = "ACKRCVD" /\ g = Fsm!Again(d)
    BY Zenon DEF Fsm!fsm_rconfnakrej, changeci
  <2> HIDE DEF g, h
  <2>3. AutoOK(f)
    BY <2>1, Zenon DEF AutoOK, IsAuto, AutoNames
  <2> HIDE DEF f
  <2>4. AutoOK(Fsm!fsm_sdata(f, "TERMACK", p.id, NoCis))
    BY <2>3, Sends DEF AutoOK, Steady
  <2>5. AutoOK(Fsm!Again(ipcp_down(f)))
    BY <2>3, DownKept, Zenon DEF Fsm!Again, AutoStates, Down
  <2>6. f.state # "OPENED" => Down(Fsm!fsm_sconfreq(d, FALSE))
    BY <2>3, DownKept, Zenon
  <2>7. f.state # "OPENED" => Down(Fsm!Again(d))
    BY <2>6, DownKept, Zenon DEF Fsm!Again, AutoStates
  <2> HIDE DEF d
  <2> QED
    BY <2>2, <2>3, <2>4, <2>5, <2>6, <2>7, Zenon DEF Down, g
<1>2. AutoOK(Fsm!fsm_rtermreq(f0, p))
  <2> DEFINE d == [ipcp_down(f0) EXCEPT !.rexmit = 0]
             e == Fsm!TIMEOUT(Fsm!Enter(d, "STOPPING"))
             f == CASE f0.state \in {"ACKRCVD", "ACKSENT"} -> Fsm!Enter(f0, "REQSENT")
                    [] f0.state = "OPENED" -> e
                    [] OTHER -> f0
  <2>1. Down(d)
    BY DownKept, Zenon
  <2> HIDE DEF d
  <2>2. Down(e)
    BY <2>1, DownKept DEF AutoStates
  <2> HIDE DEF e
  <2>3. AutoOK(f)
    <3>1. CASE f0.state \in {"ACKRCVD", "ACKSENT"}
      BY <3>1, DownKept, Zenon DEF AutoStates, Down
    <3>2. CASE f0.state \notin {"ACKRCVD", "ACKSENT"}
      <4>1. f \in {e, f0}
        BY <3>2
      <4> QED
        BY <2>2, <4>1 DEF Down
    <3> QED
      BY <3>1, <3>2
  <2>4. Fsm!fsm_rtermreq(f0, p) = Fsm!fsm_sdata(f, "TERMACK", p.id, NoCis)
    BY Zenon DEF Fsm!fsm_rtermreq, e, d
  <2> HIDE DEF f
  <2> QED
    BY <2>3, <2>4, Sends DEF AutoOK, Steady
<1>3. AutoOK(Fsm!fsm_rtermack(f0))
  <2> DEFINE g == Fsm!fsm_rtermack(f0)
             a == Fsm!Enter(Fsm!UNTIMEOUT(f0), "CLOSED")
             b == Fsm!Enter(Fsm!UNTIMEOUT(f0), "STOPPED")
  <2>1. \/ g \in {f0, Fsm!fsm_sconfreq(ipcp_down(f0), FALSE)}
        \/ f0.state # "OPENED" /\ g \in {ipcp_finished(a), ipcp_finished(b), Fsm!Enter(f0, "REQSENT")}
    BY Zenon DEF Fsm!fsm_rtermack
  <2> HIDE DEF g
  <2>2. AutoOK(Fsm!fsm_sconfreq(ipcp_down(f0), FALSE))
    BY DownKept, Zenon DEF Down
  <2>3. f0.state # "OPENED" => Down(a) /\ Down(b) /\ Down(Fsm!Enter(f0, "REQSENT"))
    BY DownKept DEF AutoStates
  <2> HIDE DEF a, b
  <2>4. f0.state # "OPENED" => Down(ipcp_finished(a)) /\ Down(ipcp_finished(b))
    BY <2>3, DownKept
  <2> QED
    BY <2>1, <2>2, <2>3, <2>4, Zenon DEF Down, g
<1>4. AutoOK(Fsm!fsm_rcoderej(f0))
  BY DownKept DEF Fsm!fsm_rcoderej, AutoStates, Down
<1> QED
  BY <1>1, <1>2, <1>3, <1>4

(* Any packet (fsm_input); on a link that is down none is looked at.       *)
LEMMA FsmInput ==
  ASSUME NEW f, AutoOK(f), NEW p, p.code \in Codes
  PROVE  AutoOK(Fsm!fsm_input(f, p)) /\ (f.state \in Below => Fsm!fsm_input(f, p) = f)
<1>1. CASE f.state \in Below
  BY <1>1 DEF Fsm!fsm_input, Below
<1>2. CASE f.state \notin Below
  <2>1. Fsm!fsm_input(f, p) \in {Fsm!fsm_rconfreq(f, p), Fsm!fsm_rconfack(f, p),
          Fsm!fsm_rconfnakrej(f, p), Fsm!fsm_rtermreq(f, p), Fsm!fsm_rtermack(f),
          Fsm!fsm_rcoderej(f)}
    BY <1>2 DEF Fsm!fsm_input, Below, Codes
  <2> QED
    BY <1>2, <2>1, ConfReq, ConfAck, OtherInput
<1> QED
  BY <1>1, <1>2

-----------------------------------------------------------------------------
(* The link: its fields, what holds of it whatever its phase, and what the *)
(* proofs and the phase say of each other while it is opened.              *)
LinkNames ==
  {"lcp", "phase", "go", "ho", "pending", "proved", "pap", "chap", "ip", "open", "sessions"}
IsLink(t) == t = [n \in LinkNames |-> t[n]]
Same(t, u) ==
  /\ IsLink(u)
  /\ u.lcp = t.lcp /\ u.phase = t.phase /\ u.go = t.go /\ u.ho = t.ho
  /\ u.pending = t.pending /\ u.proved = t.proved
  /\ u.ip = t.ip /\ u.sessions = t.sessions
Base(t) ==
  /\ IsLink(t)
  /\ t.lcp \in {"off", "busy", "opened", "closing"}
  /\ t.phase \in {"DEAD", "ESTABLISH", "AUTHENTICATE", "NETWORK", "TERMINATE"}
  /\ t.sessions \in 0..MaxSessions
  /\ AutoOK(t.ip)
  /\ t.lcp # "opened" => t.ip.state \in Below
LinkOK(t) == Base(t) /\ Agreed(t) /\ (t.ip.net => t.phase = "NETWORK")

(* Fields of the automaton that say nothing of its state.                  *)
LEMMA PlainKept ==
  ASSUME NEW f, IsAuto(f)
  PROVE  /\ Steady(f, Plain(f))
         /\ \A v : Steady(f, [f EXCEPT !.ups = v])
         /\ \A v, b : Steady(f, [f EXCEPT !.verdict = v, !.bad = b])
<1>1. Steady(f, Plain(f))
  BY Zenon DEF Plain, Steady, IsAuto, AutoNames
<1>2. ASSUME NEW v PROVE Steady(f, [f EXCEPT !.ups = v])
  BY DEF Steady, IsAuto, AutoNames
<1>3. ASSUME NEW v, NEW b PROVE Steady(f, [f EXCEPT !.verdict = v, !.bad = b])
  BY Zenon DEF Steady, IsAuto, AutoNames
<1> QED
  BY <1>1, <1>2, <1>3, Zenon

(* An automaton whose state and interface are the same is as good.         *)
LEMMA SteadyOK ==
  ASSUME NEW f, NEW g, AutoOK(f), Steady(f, g)
  PROVE  AutoOK(g)
BY DEF AutoOK, Steady

(* PAP and CHAP change nothing but their own state and callouts.           *)
LEMMA AuthKept ==
  ASSUME NEW t, IsLink(t)
  PROVE  /\ \A v : Same(t, [t EXCEPT !.pap = v]) /\ Same(t, [t EXCEPT !.chap = v])
         /\ \A v : Same(t, [t EXCEPT !.open = v])
         /\ Same(t, upap_lowerdown(t)) /\ Same(t, ChapLowerDown(t))
         /\ Same(t, upap_sauthreq(t)) /\ Same(t, upap_listen(t))
         /\ Same(t, ChapSendChallenge(t)) /\ Same(t, ChapSendResponse(t))
         /\ Same(t, ChapAuthWithPeer(t))
<1> USE DEF Same, IsLink, LinkNames
<1>1. ASSUME NEW v
      PROVE  /\ Same(t, [t EXCEPT !.pap = v]) /\ Same(t, [t EXCEPT !.chap = v])
             /\ Same(t, [t EXCEPT !.open = v])
  OBVIOUS
<1>2. Same(t, upap_lowerdown(t)) /\ Same(t, ChapLowerDown(t))
  BY DEF upap_lowerdown, ChapLowerDown
<1>3. Same(t, upap_sauthreq(t))
  BY Zenon DEF upap_sauthreq
<1>4. Same(t, upap_listen(t))
  BY Zenon DEF upap_listen
<1>5. Same(t, ChapSendChallenge(t))
  BY Zenon DEF ChapSendChallenge
<1>6. Same(t, ChapSendResponse(t)) /\ Same(t, ChapAuthWithPeer(t))
  BY Zenon DEF ChapSendResponse, ChapAuthWithPeer
<1> QED
  BY <1>1, <1>2, <1>3, <1>4, <1>5, <1>6, Zenon

(* Changes of PAP and CHAP one after the other.                            *)
LEMMA SameTwice ==
  ASSUME NEW t, NEW u, NEW v, Same(t, u), Same(u, v)
  PROVE  Same(t, v)
BY DEF Same

(* PAP and CHAP when the link comes up and is told to authenticate.        *)
LEMMA AuthStarted ==
  ASSUME NEW t, IsLink(t)
  PROVE  /\ Same(t, upap_authwithpeer(t)) /\ Same(t, upap_authpeer(t)) /\ Same(t, upap_lowerup(t))
         /\ Same(t, ChapAuthPeer(t)) /\ Same(t, ChapLowerUp(t))
<1>1. Same(t, upap_authwithpeer(t))
  <2> DEFINE a == [t EXCEPT !.pap.tries = 0]
             b == [t EXCEPT !.pap.c = "PENDING", !.pap.tries = 0]
  <2>1. Same(t, a) /\ Same(t, b)
    BY Zenon DEF Same, IsLink, LinkNames
  <2>2. upap_authwithpeer(t) \in {b, upap_sauthreq(a)}
    BY DEF upap_authwithpeer
  <2> HIDE DEF a, b
  <2>3. Same(a, upap_sauthreq(a))
    BY <2>1, AuthKept DEF Same
  <2> QED
    BY <2>1, <2>2, <2>3, SameTwice
<1>2. Same(t, upap_authpeer(t))
  <2> DEFINE a == [t EXCEPT !.pap.s = "PENDING"]
  <2>1. Same(t, a)
    BY DEF Same, IsLink, LinkNames
  <2>2. upap_authpeer(t) \in {a, upap_listen(t)}
    BY DEF upap_authpeer
  <2> HIDE DEF a
  <2> QED
    BY <2>1, <2>2, AuthKept
<1>3. Same(t, upap_lowerup(t))
  <2> DEFINE c == CASE t.pap.c = "INITIAL" -> [t EXCEPT !.pap.c = "CLOSED"]
                    [] t.pap.c = "PENDING" -> upap_sauthreq(t)
                    [] OTHER -> t
             d == [c EXCEPT !.pap.s = "CLOSED"]
  <2>1. Same(t, [t EXCEPT !.pap.c = "CLOSED"]) /\ Same(t, t)
    BY DEF Same, IsLink, LinkNames
  <2>2. c \in {[t EXCEPT !.pap.c = "CLOSED"], upap_sauthreq(t), t}
    OBVIOUS
  <2>3. upap_lowerup(t) \in {c, d, upap_listen(c)}
    BY DEF upap_lowerup
  <2> HIDE DEF c
  <2>4. Same(t, c)
    BY <2>1, <2>2, AuthKept
  <2>5. Same(c, d) /\ Same(c, upap_listen(c))
    <3>1. IsLink(c)
      BY <2>4 DEF Same
    <3>2. Same(c, d)
      BY <3>1 DEF Same, IsLink, LinkNames
    <3> QED
      BY <3>1, <3>2, AuthKept
  <2> HIDE DEF d
  <2> QED
    BY <2>3, <2>4, <2>5, SameTwice
<1>4. ASSUME NEW u, IsLink(u) PROVE Same(u, ChapChallenge(u))
  <2> DEFINE a == [u EXCEPT !.chap.tries = 0]
             b == ChapSendChallenge(a)
  <2>1. Same(u, a)
    BY <1>4 DEF Same, IsLink, LinkNames
  <2>2. ChapChallenge(u) = [b EXCEPT !.chap.s = "INITIAL_CHAL"]
    BY DEF ChapChallenge
  <2> HIDE DEF a
  <2>3. Same(a, b)
    BY <2>1, AuthKept DEF Same
  <2> HIDE DEF b
  <2>4. Same(b, [b EXCEPT !.chap.s = "INITIAL_CHAL"])
    BY <2>3 DEF Same, IsLink, LinkNames
  <2> QED
    BY <2>1, <2>2, <2>3, <2>4, SameTwice
<1>5. Same(t, ChapAuthPeer(t))
  <2> DEFINE a == [t EXCEPT !.chap.s = "PENDING"]
  <2>1. Same(t, a)
    BY DEF Same, IsLink, LinkNames
  <2>2. ChapAuthPeer(t) \in {a, ChapChallenge(t)}
    BY DEF ChapAuthPeer
  <2> HIDE DEF a
  <2> QED
    BY <1>4, <2>1, <2>2
<1>6. Same(t, ChapLowerUp(t))
  <2> DEFINE c == [t EXCEPT !.chap.c = CASE @ = "INITIAL" -> "CLOSED"
                                         [] @ = "PENDING" -> "LISTEN"
                                         [] OTHER -> @]
             d == [c EXCEPT !.chap.s = "CLOSED"]
  <2>1. Same(t, c)
    BY DEF Same, IsLink, LinkNames
  <2>2. ChapLowerUp(t) \in {c, d, ChapChallenge(c)}
    BY DEF ChapLowerUp
  <2> HIDE DEF c
  <2>3. IsLink(c)
    BY <2>1 DEF Same
  <2>4. Same(c, d)
    BY <2>3 DEF Same, IsLink, LinkNames
  <2> HIDE DEF d
  <2> QED
    BY <1>4, <2>1, <2>2, <2>3, <2>4, SameTwice
<1> QED
  BY <1>1, <1>2, <1>3, <1>5, <1>6

(* What PAP and CHAP leave alone keeps the link as it was.                 *)
LEMMA SameOK ==
  ASSUME NEW t, NEW u, Same(t, u)
  PROVE  (Base(t) => Base(u)) /\ (LinkOK(t) => LinkOK(u))
BY DEF Same, Base, LinkOK, Agreed, Demanded

(* link_down: everything above LCP is told, and IPCP is closed.            *)
LEMMA LinkDown ==
  ASSUME NEW t, IsLink(t), AutoOK(t.ip)
  PROVE  LET u == link_down(t) IN
         /\ IsLink(u) /\ u.lcp = t.lcp /\ u.sessions = t.sessions
         /\ u.phase = (IF t.phase = "DEAD" THEN "DEAD" ELSE "TERMINATE")
         /\ AutoOK(u.ip) /\ u.ip.state \in Below
<1> DEFINE c == upap_lowerdown(t)
           d == ChapLowerDown(c)
           h == Fsm!fsm_close(Fsm!fsm_lowerdown(d.ip))
           f == Plain(h)
           g == [f EXCEPT !.ups = 0]
           e == [d EXCEPT !.ip = g, !.open = 0]
<1>1. Same(t, d)
  <2>1. Same(t, c)
    BY AuthKept
  <2> HIDE DEF c
  <2>2. Same(c, d)
    BY <2>1, AuthKept DEF Same
  <2> HIDE DEF d
  <2> QED
    BY <2>1, <2>2, SameTwice
<1>2. link_down(t) = Terminate(e)
  BY DEF link_down
<1> HIDE DEF c, d
<1>3. AutoOK(h) /\ h.state \in Below
  <2> DEFINE k == Fsm!fsm_lowerdown(d.ip)
  <2>1. AutoOK(d.ip)
    BY <1>1 DEF Same
  <2>2. AutoOK(k) /\ k.state \in Below
    BY <2>1, LowerDown
  <2> HIDE DEF k
  <2>3. AutoOK(Fsm!fsm_close(k)) /\ Fsm!fsm_close(k).state \in Below
    BY <2>2, Closed DEF Below
  <2> QED
    BY <2>3 DEF k
<1> HIDE DEF h
<1>4. AutoOK(f) /\ f.state \in Below
  BY <1>3, PlainKept, SteadyOK, Zenon DEF AutoOK, Steady
<1> HIDE DEF f
<1>5. AutoOK(g) /\ g.state \in Below
  <2>1. Steady(f, g)
    BY <1>4, PlainKept, Zenon DEF AutoOK
  <2> HIDE DEF g
  <2> QED
    BY <1>4, <2>1, SteadyOK DEF Steady
<1> HIDE DEF g
<1>6. IsLink(e) /\ e.lcp = t.lcp /\ e.sessions = t.sessions /\ e.phase = t.phase /\ e.ip = g
  BY <1>1, Zenon DEF Same, IsLink, LinkNames
<1> HIDE DEF e
<1> QED
  BY <1>2, <1>5, <1>6 DEF Terminate, IsLink, LinkNames

(* lcp_close: the link is no longer opened, with nothing left above it.    *)
LEMMA LcpClose ==
  ASSUME NEW t, Base(t)
  PROVE  LinkOK(lcp_close(t)) /\ lcp_close(t).lcp # "opened"
<1> DEFINE d == Terminate(t)
           u == lcp_close(t)
<1>1. IsLink(d) /\ d.lcp = t.lcp /\ d.sessions = t.sessions /\ d.ip = t.ip
      /\ d.phase \in {"DEAD", "TERMINATE"}
  BY DEF Terminate, Base, IsLink, LinkNames
<1> HIDE DEF d
<1>2. CASE t.lcp = "opened"
  <2> DEFINE e == link_down(d)
  <2>1. IsLink(e) /\ e.sessions = t.sessions /\ e.phase \in {"DEAD", "TERMINATE"}
        /\ AutoOK(e.ip) /\ e.ip.state \in Below
    BY <1>1, LinkDown DEF Base
  <2>2. u = [e EXCEPT !.lcp = "closing"]
    BY <1>2 DEF lcp_close, d
  <2> HIDE DEF e, u
  <2>3. IsLink(u) /\ u.lcp = "closing" /\ u.sessions = t.sessions /\ u.ip = e.ip
        /\ u.phase \in {"DEAD", "TERMINATE"}
    BY <2>1, <2>2 DEF IsLink, LinkNames
  <2>4. LinkOK(u)
    BY <2>1, <2>3 DEF LinkOK, Agreed, Base, AutoOK, Below
  <2> QED
    BY <2>3, <2>4 DEF u
<1>3. CASE t.lcp = "busy"
  <2>1. u = [d EXCEPT !.lcp = "closing"]
    BY <1>3 DEF lcp_close, d
  <2> HIDE DEF u
  <2>2. IsLink(u) /\ u.lcp = "closing" /\ u.sessions = t.sessions /\ u.ip = t.ip
        /\ u.phase \in {"DEAD", "TERMINATE"}
    BY <1>1, <2>1 DEF IsLink, LinkNames
  <2>3. LinkOK(u)
    BY <1>3, <2>2 DEF LinkOK, Agreed, Base, AutoOK, Below
  <2> QED
    BY <2>2, <2>3 DEF u
<1>4. CASE t.lcp \notin {"opened", "busy"}
  <2>1. u = d
    BY <1>4 DEF lcp_close, d
  <2> HIDE DEF u
  <2>2. LinkOK(u)
    BY <1>1, <1>4, <2>1 DEF LinkOK, Agreed, Base, AutoOK, Below
  <2> QED
    BY <1>1, <1>4, <2>1, <2>2 DEF u
<1> QED
  BY <1>2, <1>3, <1>4

(* Ip: after a step of IPCP the link is the same but for IPCP, or it was   *)
(* closed because no protocol is left (np_finished).                       *)
LEMMA IpKept ==
  ASSUME NEW t, Base(t), NEW f, AutoOK(f), t.lcp # "opened" => f.state \in Below
  PROVE  LET u == Ip(t, f) IN
         /\ Base(u)
         /\ \/ LinkOK(u) /\ u.lcp # "opened"
            \/ /\ u.lcp = t.lcp /\ u.phase = t.phase /\ u.go = t.go /\ u.ho = t.ho
               /\ u.pending = t.pending /\ u.proved = t.proved
               /\ u.ip.net = f.net /\ u.ip.state = f.state
<1> DEFINE p == Plain(f)
           n == [t EXCEPT !.ip = p]
           m == [n EXCEPT !.open = @ - 1]
           u == Ip(t, f)
<1>1. AutoOK(p) /\ p.state = f.state /\ p.net = f.net
  BY PlainKept, SteadyOK, Zenon DEF AutoOK, Steady
<1>2. u \in {n, m, lcp_close(m)}
  BY DEF Ip, np_finished
<1> HIDE DEF p, u
<1>3. /\ IsLink(n) /\ n.lcp = t.lcp /\ n.phase = t.phase /\ n.go = t.go /\ n.ho = t.ho
      /\ n.pending = t.pending /\ n.proved = t.proved /\ n.sessions = t.sessions /\ n.ip = p
  BY DEF Base, IsLink, LinkNames
<1> HIDE DEF n
<1>4. Same(n, m)
  BY <1>3, AuthKept
<1> HIDE DEF m
<1>5. Base(n)
  BY <1>1, <1>3 DEF Base
<1>6. Base(m)
  BY <1>4, <1>5, SameOK
<1>7. LinkOK(lcp_close(m)) /\ lcp_close(m).lcp # "opened"
  BY <1>6, LcpClose
<1>8. Base(u)
  BY <1>2, <1>5, <1>6, <1>7 DEF LinkOK
<1> QED
  BY <1>1, <1>2, <1>3, <1>4, <1>7, <1>8 DEF Same, u

(* A step of IPCP that brings the interface up only in the network phase   *)
(* of an opened link keeps the link's invariant.                           *)
LEMMA IpOK ==
  ASSUME NEW t, LinkOK(t), NEW f, AutoOK(f), t.lcp # "opened" => f.state \in Below,
         f.net => t.ip.net \/ (t.lcp = "opened" /\ t.phase = "NETWORK")
  PROVE  LinkOK(Ip(t, f))
<1> DEFINE u == Ip(t, f)
<1>1. /\ Base(u)
      /\ \/ LinkOK(u) /\ u.lcp # "opened"
         \/ /\ u.lcp = t.lcp /\ u.phase = t.phase /\ u.go = t.go /\ u.ho = t.ho
            /\ u.pending = t.pending /\ u.proved = t.proved
            /\ u.ip.net = f.net /\ u.ip.state = f.state
  BY IpKept DEF LinkOK
<1> HIDE DEF u
<1>2. LinkOK(u)
  BY <1>1 DEF LinkOK, Agreed, Demanded
<1> QED
  BY <1>2 DEF u

(* network_phase, entered with every proof that was asked for.             *)
LEMMA NetworkPhase ==
  ASSUME NEW t, Base(t),
         t.lcp = "opened" => Demanded(t) \subseteq t.proved /\ (AuthRequired => t.go # "none")
  PROVE  LinkOK(network_phase(t))
<1> DEFINE e == [t EXCEPT !.phase = "NETWORK"]
           f == Fsm!fsm_open(t.ip)
           n == Ip(e, f)
<1>1. /\ IsLink(e) /\ e.lcp = t.lcp /\ e.phase = "NETWORK" /\ e.go = t.go /\ e.ho = t.ho
      /\ e.pending = t.pending /\ e.proved = t.proved /\ e.sessions = t.sessions /\ e.ip = t.ip
  BY DEF Base, IsLink, LinkNames
<1>2. network_phase(t) = [n EXCEPT !.open = @ + 1]
  BY DEF network_phase
<1> HIDE DEF e
<1>3. LinkOK(e)
  BY <1>1 DEF LinkOK, Base, Agreed, Demanded
<1>4. AutoOK(f) /\ (f.net => t.ip.net) /\ (t.ip.state \in Below => f.state \in Below)
  BY Opened DEF Base, Quieter
<1> HIDE DEF f
<1>5. LinkOK(n)
  BY <1>1, <1>3, <1>4, IpOK DEF Base
<1> HIDE DEF n
<1> DEFINE m == [n EXCEPT !.open = @ + 1]
<1>6. Same(n, m)
  BY <1>5, AuthKept DEF LinkOK, Base
<1> HIDE DEF m
<1> QED
  BY <1>2, <1>5, <1>6, SameOK DEF m

(* auth_success: one proof less is pending; with none left the network     *)
(* phase is entered.                                                       *)
LEMMA AuthSuccess ==
  ASSUME NEW t, LinkOK(t), NEW a
  PROVE  LinkOK(auth_success(t, a))
<1> DEFINE q == t.pending \ {a}
           r == t.proved \cup {a}
           n == [t EXCEPT !.pending = q, !.proved = r]
<1>1. auth_success(t, a) = IF n.pending = {} THEN network_phase(n) ELSE n
  BY DEF auth_success
<1>2. Demanded(t) \subseteq t.pending \cup t.proved => Demanded(t) \subseteq q \cup r
  OBVIOUS
<1>3. Demanded(t) \subseteq t.proved => Demanded(t) \subseteq r
  OBVIOUS
<1>4. q = {} /\ Demanded(t) \subseteq q \cup r => Demanded(t) \subseteq r
  OBVIOUS
<1> HIDE DEF q, r
<1>5. /\ IsLink(n) /\ n.lcp = t.lcp /\ n.phase = t.phase /\ n.go = t.go /\ n.ho = t.ho
      /\ n.pending = q /\ n.proved = r /\ n.sessions = t.sessions /\ n.ip = t.ip
  BY Zenon DEF LinkOK, Base, IsLink, LinkNames
<1> HIDE DEF n
<1>6. Demanded(n) = Demanded(t)
  BY <1>5 DEF Demanded
<1>7. LinkOK(n)
  BY <1>2, <1>3, <1>5, <1>6 DEF LinkOK, Base, Agreed
<1>8. n.pending = {} => LinkOK(network_phase(n))
  BY <1>4, <1>5, <1>7, NetworkPhase DEF LinkOK, Agreed
<1> QED
  BY <1>1, <1>7, <1>8

(* link_established: the proofs the two ends agreed to give are pending,   *)
(* and with none to give the network phase is entered.                     *)
LEMMA Established ==
  ASSUME NEW t, Base(t), t.lcp = "opened", t.ip.state \in Below, NEW go, NEW ho
  PROVE  LinkOK(link_established(t, go, ho))
<1> DEFINE l == upap_lowerup(t)
           n == ChapLowerUp(l)
           f == Fsm!fsm_lowerup(n.ip)
           i == Ip(n, f)
           r == [i EXCEPT !.go = go, !.ho = ho, !.proved = {}]
           a == CASE go = "chap" -> ChapAuthPeer(r) [] go = "pap" -> upap_authpeer(r) [] OTHER -> r
           b == CASE ho = "chap" -> ChapAuthWithPeer(a) [] ho = "pap" -> upap_authwithpeer(a)
                  [] OTHER -> a
           asked == (IF go # "none" THEN {<<"peer", go>>} ELSE {})
                      \cup (IF ho # "none" THEN {<<"us", ho>>} ELSE {})
           e == [b EXCEPT !.phase = "AUTHENTICATE", !.pending = asked]
<1>0. link_established(t, go, ho) =
        IF AuthRequired /\ go = "none" THEN lcp_close(r)
        ELSE IF asked = {} THEN network_phase(e) ELSE e
  BY DEF link_established
<1>1. Same(t, n)
  <2>1. Same(t, l)
    BY AuthStarted DEF Base
  <2> HIDE DEF l
  <2>2. Same(l, n)
    BY <2>1, AuthStarted DEF Same
  <2> HIDE DEF n
  <2> QED
    BY <2>1, <2>2, SameTwice
<1> HIDE DEF l, n
<1>2. Base(n) /\ n.ip.state \in Below
  BY <1>1, SameOK DEF Same
<1>3. AutoOK(f) /\ ~f.net
  <2>1. Quieter(n.ip, f)
    BY <1>2, LowerUp DEF Base
  <2> HIDE DEF f
  <2> QED
    BY <1>2, <2>1 DEF Quieter, Base, AutoOK, Below
<1> HIDE DEF f
<1>4. Base(i) /\ ~i.ip.net
  <2>1. n.lcp = "opened"
    BY <1>1 DEF Same
  <2>2. Base(i) /\ (i.lcp # "opened" \/ i.ip.net = f.net)
    BY <1>2, <1>3, <2>1, IpKept
  <2> HIDE DEF i
  <2> QED
    BY <1>3, <2>2 DEF Base, AutoOK, Below
<1> HIDE DEF i
<1>5. Base(r) /\ ~r.ip.net /\ r.go = go /\ r.ho = ho
  <2>1. /\ IsLink(r) /\ r.lcp = i.lcp /\ r.phase = i.phase /\ r.sessions = i.sessions
        /\ r.ip = i.ip /\ r.go = go /\ r.ho = ho
    BY <1>4, Zenon DEF Base, IsLink, LinkNames
  <2> HIDE DEF r
  <2> QED
    BY <1>4, <2>1 DEF Base
<1> HIDE DEF r
<1>6. Same(r, b)
  <2>1. Same(r, r)
    BY <1>5 DEF Same, Base
  <2>2. Same(r, a)
    BY <1>5, <2>1, AuthStarted DEF Base
  <2> HIDE DEF a
  <2>3. Same(a, a) /\ IsLink(a)
    BY <2>2 DEF Same
  <2>4. Same(a, b)
    BY <2>3, AuthStarted, AuthKept
  <2> HIDE DEF b
  <2> QED
    BY <2>2, <2>4, SameTwice
<1> HIDE DEF a, b
<1>7. Base(b) /\ ~b.ip.net /\ b.go = go /\ b.ho = ho
  BY <1>5, <1>6, SameOK DEF Same
<1>8. Base(e) /\ ~e.ip.net /\ e.phase = "AUTHENTICATE" /\ e.pending = asked /\ e.go = go
      /\ Demanded(e) = asked
  <2> HIDE DEF asked
  <2>1. /\ IsLink(e) /\ e.lcp = b.lcp /\ e.phase = "AUTHENTICATE" /\ e.sessions = b.sessions
        /\ e.ip = b.ip /\ e.go = b.go /\ e.ho = b.ho /\ e.pending = asked
    BY <1>7, Zenon DEF Base, IsLink, LinkNames
  <2> HIDE DEF e
  <2>2. Demanded(e) = asked
    BY <1>7, <2>1 DEF Demanded, asked
  <2>3. Base(e)
    BY <1>7, <2>1 DEF Base
  <2> QED
    BY <1>7, <2>1, <2>2, <2>3
<1> HIDE DEF asked, e
<1>9. LinkOK(lcp_close(r))
  BY <1>5, LcpClose
<1>10. (AuthRequired => go # "none") => LinkOK(e)
  BY <1>8 DEF LinkOK, Agreed
<1>11. (AuthRequired => go # "none") /\ asked = {} => LinkOK(network_phase(e))
  BY <1>8, NetworkPhase
<1> QED
  BY <1>0, <1>9, <1>10, <1>11

(* The next state an action hands to Become.                               *)
LEMMA Becoming ==
  ASSUME NEW t, LinkOK(t), Become(t)
  PROVE  LinkOK(link')
<1> DEFINE f == [t.ip EXCEPT !.verdict = "CONFACK", !.bad = FALSE]
           u == [t EXCEPT !.ip = f]
<1>1. link' = u
  BY Zenon DEF Become, LinkOK, Base, IsLink, LinkNames
<1>2. Steady(t.ip, f)
  BY PlainKept, Zenon DEF LinkOK, Base, AutoOK
<1> HIDE DEF f
<1>3. AutoOK(f) /\ f.state = t.ip.state /\ f.net = t.ip.net
  BY <1>2, SteadyOK DEF LinkOK, Base, Steady
<1>4. /\ IsLink(u) /\ u.lcp = t.lcp /\ u.phase = t.phase /\ u.go = t.go /\ u.ho = t.ho
      /\ u.pending = t.pending /\ u.proved = t.proved /\ u.sessions = t.sessions /\ u.ip = f
  BY DEF LinkOK, Base, IsLink, LinkNames
<1> HIDE DEF u
<1>5. Base(u)
  BY <1>3, <1>4 DEF LinkOK, Base
<1>6. LinkOK(u)
  BY <1>3, <1>4, <1>5 DEF LinkOK, Agreed, Demanded
<1> QED
  BY <1>1, <1>6

(* What LCP tells the layers above: the link starts, comes up, goes down,  *)
(* ends, is stopped or hung up.                                            *)
LEMMA LcpKept ==
  ASSUME LinkOK(link)
  PROVE  /\ Start => LinkOK(link')
         /\ \A go, ho : LcpUp(go, ho) => LinkOK(link')
         /\ LcpDown => LinkOK(link')
         /\ LcpFinished => LinkOK(link')
         /\ Stop => LinkOK(link')
         /\ Hup => LinkOK(link')
<1>0. Base(link) /\ IsLink(link) /\ AutoOK(link.ip) /\ (link.lcp # "opened" => ~link.ip.net)
  BY DEF LinkOK, Base, AutoOK, Below
<1>1. ASSUME NEW d, IsLink(d), d.sessions \in 0..MaxSessions, AutoOK(d.ip), d.ip.state \in Below,
             NEW l \in {"off", "busy"}, NEW p \in {"DEAD", "ESTABLISH", "TERMINATE"}
      PROVE  LinkOK([d EXCEPT !.lcp = l, !.phase = p])
  <2> DEFINE u == [d EXCEPT !.lcp = l, !.phase = p]
  <2>1. IsLink(u) /\ u.lcp = l /\ u.phase = p /\ u.sessions = d.sessions /\ u.ip = d.ip
    BY <1>1, Zenon DEF IsLink, LinkNames
  <2> HIDE DEF u
  <2>2. LinkOK(u)
    BY <1>1, <2>1 DEF LinkOK, Base, Agreed, AutoOK, Below
  <2> QED
    BY <2>2 DEF u
<1>2. ASSUME Start PROVE LinkOK(link')
  <2>1. LinkOK([link EXCEPT !.lcp = "busy", !.phase = "ESTABLISH"])
    BY <1>0, <1>1, <1>2, Zenon DEF Start, Base
  <2> QED
    BY <1>2, <2>1, Becoming DEF Start
<1>3. ASSUME NEW go, NEW ho, LcpUp(go, ho) PROVE LinkOK(link')
  <2> DEFINE t == [link EXCEPT !.lcp = "opened", !.sessions = @ + 1]
  <2>1. link.sessions + 1 \in 0..MaxSessions
    BY <1>0, <1>3, LinkAssumption DEF LcpUp, Base
  <2>2. IsLink(t) /\ t.lcp = "opened" /\ t.phase = link.phase /\ t.ip = link.ip
        /\ t.sessions = link.sessions + 1
    BY <1>0, Zenon DEF IsLink, LinkNames
  <2>3. Become(link_established(t, go, ho)) /\ link.lcp = "busy"
    BY <1>3 DEF LcpUp
  <2> HIDE DEF t
  <2>4. Base(t) /\ t.ip.state \in Below
    BY <1>0, <2>1, <2>2, <2>3 DEF Base
  <2>5. LinkOK(link_established(t, go, ho))
    BY <2>2, <2>4, Established
  <2> QED
    BY <2>3, <2>5, Becoming
<1>4. IsLink(link_down(link)) /\ link_down(link).sessions \in 0..MaxSessions
         /\ AutoOK(link_down(link).ip) /\ link_down(link).ip.state \in Below
         /\ link_down(link).phase \in {"DEAD", "TERMINATE"}
  BY <1>0, LinkDown DEF Base
<1>5. ASSUME LcpDown PROVE LinkOK(link')
  <2> DEFINE d == link_down(link)
             u == [d EXCEPT !.lcp = "busy"]
  <2>1. IsLink(d) /\ d.sessions \in 0..MaxSessions /\ AutoOK(d.ip) /\ d.ip.state \in Below
        /\ d.phase \in {"DEAD", "TERMINATE"}
    BY <1>4
  <2>2. Become(u)
    BY <1>5 DEF LcpDown
  <2> HIDE DEF d
  <2>3. u = [d EXCEPT !.lcp = "busy", !.phase = d.phase]
    BY <2>1, Zenon DEF IsLink, LinkNames
  <2>4. LinkOK(u)
    BY <1>1, <2>1, <2>3, Zenon
  <2> HIDE DEF u
  <2> QED
    BY <2>2, <2>4, Becoming
<1>6. ASSUME LcpFinished PROVE LinkOK(link')
  <2>1. LinkOK([link EXCEPT !.lcp = "off", !.phase = "DEAD"])
    BY <1>0, <1>1, <1>6, Zenon DEF LcpFinished, Base
  <2> QED
    BY <1>6, <2>1, Becoming DEF LcpFinished
<1>7. ASSUME Stop PROVE LinkOK(link')
  BY <1>0, <1>7, LcpClose, Becoming DEF Stop
<1>8. ASSUME Hup PROVE LinkOK(link')
  <2> DEFINE d == IF link.lcp = "opened" THEN link_down(link) ELSE link
  <2>1. Become([d EXCEPT !.lcp = "off", !.phase = "DEAD"])
    BY <1>8 DEF Hup
  <2>2. IsLink(d) /\ d.sessions \in 0..MaxSessions /\ AutoOK(d.ip) /\ d.ip.state \in Below
    BY <1>0, <1>4 DEF Base
  <2> HIDE DEF d
  <2>3. LinkOK([d EXCEPT !.lcp = "off", !.phase = "DEAD"])
    BY <1>1, <2>2, Zenon
  <2> QED
    BY <2>1, <2>3, Becoming
<1> QED
  BY <1>2, <1>3, <1>5, <1>6, <1>7, <1>8

(* A change of PAP or of CHAP alone.                                       *)
LEMMA Touched ==
  ASSUME NEW t, LinkOK(t), NEW v
  PROVE  LinkOK([t EXCEPT !.pap = v]) /\ LinkOK([t EXCEPT !.chap = v])
<1> DEFINE a == [t EXCEPT !.pap = v]
           b == [t EXCEPT !.chap = v]
<1>1. Same(t, a) /\ Same(t, b)
  BY AuthKept DEF LinkOK, Base
<1> HIDE DEF a, b
<1>2. LinkOK(a) /\ LinkOK(b)
  BY <1>1, SameOK
<1> QED
  BY <1>2 DEF a, b

(* A change of one field of PAP or of CHAP is a change of the whole.       *)
LEMMA TouchedField ==
  ASSUME NEW t, LinkOK(t), NEW v
  PROVE  /\ LinkOK([t EXCEPT !.pap.c = v]) /\ LinkOK([t EXCEPT !.pap.s = v])
         /\ LinkOK([t EXCEPT !.pap.ct = v]) /\ LinkOK([t EXCEPT !.pap.st = v])
         /\ LinkOK([t EXCEPT !.chap.c = v]) /\ LinkOK([t EXCEPT !.chap.s = v])
         /\ LinkOK([t EXCEPT !.chap.ct = v]) /\ LinkOK([t EXCEPT !.chap.st = v])
<1>1. LinkOK([t EXCEPT !.pap = [@ EXCEPT !.c = v]]) /\ LinkOK([t EXCEPT !.pap = [@ EXCEPT !.s = v]])
  BY Touched, Zenon
<1>2. LinkOK([t EXCEPT !.pap = [@ EXCEPT !.ct = v]]) /\ LinkOK([t EXCEPT !.pap = [@ EXCEPT !.st = v]])
  BY Touched, Zenon
<1>3. LinkOK([t EXCEPT !.chap = [@ EXCEPT !.c = v]]) /\ LinkOK([t EXCEPT !.chap = [@ EXCEPT !.s = v]])
  BY Touched, Zenon
<1>4. LinkOK([t EXCEPT !.chap = [@ EXCEPT !.ct = v]]) /\ LinkOK([t EXCEPT !.chap = [@ EXCEPT !.st = v]])
  BY Touched, Zenon
<1> QED
  BY <1>1, <1>2, <1>3, <1>4

(* PAP and CHAP send and wait, and auth_peer_fail closes the link.         *)
LEMMA AuthOK ==
  ASSUME NEW t, LinkOK(t)
  PROVE  /\ LinkOK(upap_sauthreq(t)) /\ LinkOK(upap_lowerdown(t)) /\ LinkOK(ChapLowerDown(t))
         /\ LinkOK(ChapSendChallenge(t)) /\ LinkOK(ChapSendResponse(t))
         /\ LinkOK(auth_peer_fail(t)) /\ LinkOK(auth_withpeer_fail(t))
<1>1. IsLink(t) /\ Base(t)
  BY DEF LinkOK, Base
<1>2. LinkOK(auth_peer_fail(t)) /\ LinkOK(auth_withpeer_fail(t))
  BY <1>1, LcpClose DEF auth_peer_fail, auth_withpeer_fail
<1>3. LinkOK(upap_sauthreq(t)) /\ LinkOK(upap_lowerdown(t)) /\ LinkOK(ChapLowerDown(t))
  BY <1>1, AuthKept, SameOK
<1>4. LinkOK(ChapSendChallenge(t)) /\ LinkOK(ChapSendResponse(t))
  BY <1>1, AuthKept, SameOK
<1> QED
  BY <1>2, <1>3, <1>4

(* The steps of PAP: requests, answers and its two callouts.               *)
LEMMA PapKept ==
  ASSUME LinkOK(link)
  PROVE  /\ \A b : PapRequest(b) => LinkOK(link')
         /\ \A b : PapAnswer(b) => LinkOK(link')
         /\ upap_timeout => LinkOK(link')
         /\ upap_reqtimeout => LinkOK(link')
<1>1. ASSUME NEW b, PapRequest(b) PROVE LinkOK(link')
  <2> DEFINE g == auth_success([link EXCEPT !.pap.s = "OPEN"], <<"peer", "pap">>)
             h == auth_peer_fail([link EXCEPT !.pap.s = "BADAUTH"])
             t == IF b THEN g ELSE h
             u == [t EXCEPT !.pap.st = Cancel(@)]
  <2>1. Become(u)
    BY <1>1 DEF PapRequest
  <2>2. LinkOK(g)
    BY TouchedField, AuthSuccess, Zenon
  <2>3. LinkOK(h)
    BY TouchedField, AuthOK, Zenon
  <2> HIDE DEF g, h
  <2>4. LinkOK(t)
    BY <2>2, <2>3
  <2> HIDE DEF t
  <2>5. LinkOK(u)
    BY <2>4, TouchedField, Zenon
  <2> HIDE DEF u
  <2> QED
    BY <2>1, <2>5, Becoming
<1>2. ASSUME NEW b, PapAnswer(b) PROVE LinkOK(link')
  <2> DEFINE g == auth_success([link EXCEPT !.pap.c = "OPEN"], <<"us", "pap">>)
             h == auth_withpeer_fail([link EXCEPT !.pap.c = "BADAUTH"])
  <2>1. Become(IF b THEN g ELSE h)
    BY <1>2 DEF PapAnswer
  <2>2. LinkOK(g)
    BY TouchedField, AuthSuccess, Zenon
  <2>3. LinkOK(h)
    BY TouchedField, AuthOK, Zenon
  <2> HIDE DEF g, h
  <2> QED
    BY <2>1, <2>2, <2>3, Becoming
<1>3. ASSUME upap_timeout PROVE LinkOK(link')
  <2> DEFINE t == [link EXCEPT !.pap.ct = @ - 1]
             u == auth_withpeer_fail([t EXCEPT !.pap.c = "BADAUTH"])
             w == upap_sauthreq(t)
  <2>1. \E v \in {t, u, w} : Become(v)
    BY <1>3 DEF upap_timeout
  <2>2. LinkOK(t)
    BY TouchedField, Zenon
  <2> HIDE DEF t
  <2>3. LinkOK(u) /\ LinkOK(w)
    BY <2>2, TouchedField, AuthOK, Zenon
  <2> HIDE DEF u, w
  <2> QED
    BY <2>1, <2>2, <2>3, Becoming
<1>4. ASSUME upap_reqtimeout PROVE LinkOK(link')
  <2> DEFINE t == [link EXCEPT !.pap.st = @ - 1]
             w == auth_peer_fail(t)
             u == [w EXCEPT !.pap.s = "BADAUTH"]
  <2>1. \E v \in {t, u} : Become(v)
    BY <1>4 DEF upap_reqtimeout
  <2>2. LinkOK(t)
    BY TouchedField, Zenon
  <2> HIDE DEF t
  <2>3. LinkOK(w)
    BY <2>2, AuthOK
  <2> HIDE DEF w
  <2>4. LinkOK(u)
    BY <2>3, TouchedField, Zenon
  <2> HIDE DEF u
  <2> QED
    BY <2>1, <2>2, <2>4, Becoming
<1> QED
  BY <1>1, <1>2, <1>3, <1>4

(* The steps of CHAP: challenges, responses, their results, its callouts.  *)
LEMMA ChapKept ==
  ASSUME LinkOK(link)
  PROVE  /\ ChapReceiveChallenge => LinkOK(link')
         /\ \A b : ChapReceiveResponse(b) => LinkOK(link')
         /\ \A b : ChapStatus(b) => LinkOK(link')
         /\ ChapChallengeTimeout => LinkOK(link')
         /\ ChapResponseTimeout => LinkOK(link')
<1>1. ASSUME ChapReceiveChallenge PROVE LinkOK(link')
  <2> DEFINE t == [link EXCEPT !.chap.ct = IF link.chap.c = "RESPONSE" THEN Cancel(@) ELSE @]
  <2>1. Become(ChapSendResponse(t))
    BY <1>1 DEF ChapReceiveChallenge
  <2>2. LinkOK(t)
    BY TouchedField, Zenon
  <2> HIDE DEF t
  <2> QED
    BY <2>1, <2>2, AuthOK, Becoming
<1>2. ASSUME NEW b, ChapReceiveResponse(b) PROVE LinkOK(link')
  <2> DEFINE t == [link EXCEPT !.chap.st = Cancel(@)]
             g == auth_success([t EXCEPT !.chap.s = "OPEN"], <<"peer", "chap">>)
             h == auth_peer_fail([t EXCEPT !.chap.s = "BADAUTH"])
             o == [t EXCEPT !.chap.s = "OPEN"]
  <2>1. \E v \in {g, h, o} : Become(v)
    BY <1>2 DEF ChapReceiveResponse
  <2>2. LinkOK(t)
    BY TouchedField, Zenon
  <2> HIDE DEF t
  <2>3. LinkOK(g)
    BY <2>2, TouchedField, AuthSuccess, Zenon
  <2>4. LinkOK(h) /\ LinkOK(o)
    BY <2>2, TouchedField, AuthOK, Zenon
  <2> HIDE DEF g, h, o
  <2> QED
    BY <2>1, <2>3, <2>4, Becoming
<1>3. ASSUME NEW b, ChapStatus(b) PROVE LinkOK(link')
  <2> DEFINE t == [link EXCEPT !.chap.ct = Cancel(@)]
             g == auth_success([t EXCEPT !.chap.c = "OPEN"], <<"us", "chap">>)
             h == auth_withpeer_fail(t)
  <2>1. \E v \in {g, h} : Become(v)
    BY <1>3 DEF ChapStatus
  <2>2. LinkOK(t)
    BY TouchedField, Zenon
  <2> HIDE DEF t
  <2>3. LinkOK(g)
    BY <2>2, TouchedField, AuthSuccess, Zenon
  <2>4. LinkOK(h)
    BY <2>2, AuthOK
  <2> HIDE DEF g, h
  <2> QED
    BY <2>1, <2>3, <2>4, Becoming
<1>4. ASSUME ChapChallengeTimeout PROVE LinkOK(link')
  <2> DEFINE t == [link EXCEPT !.chap.st = @ - 1]
             h == auth_peer_fail([t EXCEPT !.chap.s = "BADAUTH"])
             w == ChapSendChallenge(t)
  <2>1. \E v \in {t, h, w} : Become(v)
    BY <1>4 DEF ChapChallengeTimeout
  <2>2. LinkOK(t)
    BY TouchedField, Zenon
  <2> HIDE DEF t
  <2>3. LinkOK(h) /\ LinkOK(w)
    BY <2>2, TouchedField, AuthOK, Zenon
  <2> HIDE DEF h, w
  <2> QED
    BY <2>1, <2>2, <2>3, Becoming
<1>5. ASSUME ChapResponseTimeout PROVE LinkOK(link')
  <2> DEFINE t == [link EXCEPT !.chap.ct = @ - 1]
             w == ChapSendResponse(t)
  <2>1. \E v \in {t, w} : Become(v)
    BY <1>5 DEF ChapResponseTimeout
  <2>2. LinkOK(t)
    BY TouchedField, Zenon
  <2> HIDE DEF t
  <2>3. LinkOK(w)
    BY <2>2, AuthOK
  <2> HIDE DEF w
  <2> QED
    BY <2>1, <2>2, <2>3, Becoming
<1> QED
  BY <1>1, <1>2, <1>3, <1>4, <1>5

(* The steps of IPCP: no packet reaches it before authentication is over   *)
(* (pppInput), so it brings the interface up in the network phase only.    *)
LEMMA IpcpKept ==
  ASSUME LinkOK(link)
  PROVE  /\ \A c \in Codes : \A v, b : ipcp_input(c, v, b) => LinkOK(link')
         /\ ipcp_timeout => LinkOK(link')
         /\ \A p \in {"pap", "chap", "ip"} : Rejected(p) => LinkOK(link')
<1>0. AutoOK(link.ip) /\ (link.lcp # "opened" => link.ip.state \in Below)
  BY DEF LinkOK, Base
<1>1. ASSUME NEW c \in Codes, NEW v, NEW b, ipcp_input(c, v, b) PROVE LinkOK(link')
  <2> DEFINE f == [link.ip EXCEPT !.verdict = v, !.bad = b]
             p == [code |-> c, id |-> 0, cis |-> NoCis]
             g == Fsm!fsm_input(f, p)
  <2>1. Become(Ip(link, g)) /\ Passes("ip")
    BY <1>1 DEF ipcp_input
  <2>2. Steady(link.ip, f)
    BY <1>0, PlainKept, Zenon DEF AutoOK
  <2>3. p.code \in Codes
    OBVIOUS
  <2> HIDE DEF f, p
  <2>4. AutoOK(f) /\ f.state = link.ip.state /\ f.net = link.ip.net
    BY <1>0, <2>2, SteadyOK DEF Steady
  <2>5. AutoOK(g) /\ (f.state \in Below => g = f)
    BY <2>3, <2>4, FsmInput
  <2> HIDE DEF g
  <2>6. link.lcp = "opened" => link.phase = "NETWORK"
    BY <2>1 DEF Passes, LinkOK, Agreed
  <2>7. LinkOK(Ip(link, g))
    BY <1>0, <2>4, <2>5, <2>6, IpOK
  <2> QED
    BY <2>1, <2>7, Becoming
<1>2. ASSUME ipcp_timeout PROVE LinkOK(link')
  <2> DEFINE g == Fsm!fsm_timeout(link.ip)
  <2>1. Become(Ip(link, g))
    BY <1>2 DEF ipcp_timeout
  <2>2. AutoOK(g) /\ (g.net => link.ip.net) /\ (link.ip.state \in Below => g.state \in Below)
    BY <1>0, FsmTimeout DEF Quieter
  <2> HIDE DEF g
  <2>3. LinkOK(Ip(link, g))
    BY <1>0, <2>2, IpOK
  <2> QED
    BY <2>1, <2>3, Becoming
<1>3. ASSUME Rejected("pap") PROVE LinkOK(link')
  <2> DEFINE a == IF link.pap.c = "AUTHREQ" THEN auth_withpeer_fail(link) ELSE link
             b == IF link.pap.s = "LISTEN" THEN auth_peer_fail(a) ELSE a
  <2>1. Become(upap_lowerdown(b))
    BY <1>3 DEF Rejected
  <2>2. LinkOK(a)
    BY AuthOK
  <2> HIDE DEF a
  <2>3. LinkOK(b)
    BY <2>2, AuthOK
  <2> HIDE DEF b
  <2> QED
    BY <2>1, <2>3, AuthOK, Becoming
<1>4. ASSUME Rejected("chap") PROVE LinkOK(link')
  <2> DEFINE a == IF link.chap.s \notin {"INITIAL", "CLOSED"} THEN auth_peer_fail(link) ELSE link
  <2>1. Become(ChapLowerDown(a))
    BY <1>4 DEF Rejected
  <2>2. LinkOK(a)
    BY AuthOK
  <2> HIDE DEF a
  <2> QED
    BY <2>1, <2>2, AuthOK, Becoming
<1>5. ASSUME Rejected("ip") PROVE LinkOK(link')
  <2> DEFINE g == Fsm!fsm_lowerdown(link.ip)
  <2>1. Become(Ip(link, g))
    BY <1>5 DEF Rejected
  <2>2. AutoOK(g) /\ ~g.net /\ g.state \in Below
    BY <1>0, LowerDown
  <2> HIDE DEF g
  <2>3. LinkOK(Ip(link, g))
    BY <1>0, <2>2, IpOK
  <2> QED
    BY <2>1, <2>3, Becoming
<1> QED
  BY <1>1, <1>2, <1>3, <1>4, <1>5

(* The inductive invariant of the link.                                    *)
LinkInv == LinkOK(link)

(* On a PPP link the interface is up only while LCP is opened and in the   *)
(* network phase, and only after every proof of identity the two ends      *)
(* agreed on in this session was given (auth_peer_success and              *)
(* auth_withpeer_success), whatever the peer sends and whichever callouts  *)
(* of PAP, CHAP and IPCP are late; and a link that is down has nothing     *)
(* running above it.                                                       *)
THEOREM LinkCorrect == LinkSpec => [](LinkTypeOK /\ NetAuthenticated /\ OffIsQuiet)
<1>1. LinkInit => LinkInv
  <2>1. AutoOK(Ipcp0) /\ Ipcp0.state \in Below /\ ~Ipcp0.net
    BY DEF Ipcp0, AutoOK, IsAuto, AutoNames, AutoStates, Below
  <2>2. LinkInit => IsLink(link)
    BY DEF LinkInit, IsLink, LinkNames
  <2>3. LinkInit => link.lcp = "off" /\ link.phase = "DEAD" /\ link.sessions = 0 /\ link.ip = Ipcp0
    BY DEF LinkInit
  <2> QED
    BY <2>1, <2>2, <2>3, LinkAssumption DEF LinkInv, LinkOK, Base, Agreed
<1>2. LinkInv /\ [LinkNext]_linkVars => LinkInv'
  <2> SUFFICES ASSUME LinkOK(link), [LinkNext]_linkVars PROVE LinkOK(link')
    BY DEF LinkInv
  <2>1. CASE UNCHANGED linkVars
    BY <2>1 DEF linkVars
  <2>2. CASE Start \/ LcpDown \/ LcpFinished \/ Stop \/ Hup
    BY <2>2, LcpKept
  <2>3. CASE \E a \in Asks : LcpUp(a[1], a[2])
    BY <2>3, LcpKept
  <2>4. CASE \E b \in BOOLEAN : PapRequest(b) \/ PapAnswer(b)
    BY <2>4, PapKept
  <2>5. CASE \E b \in BOOLEAN : ChapReceiveResponse(b) \/ ChapStatus(b)
    BY <2>5, ChapKept
  <2>6. CASE upap_timeout \/ upap_reqtimeout
    BY <2>6, PapKept
  <2>7. CASE ChapReceiveChallenge \/ ChapChallengeTimeout \/ ChapResponseTimeout
    BY <2>7, ChapKept
  <2>8. CASE \E c \in Codes, v \in {"CONFACK", "CONFREJ"}, b \in BOOLEAN : ipcp_input(c, v, b)
    BY <2>8, IpcpKept
  <2>9. CASE ipcp_timeout \/ \E p \in {"pap", "chap", "ip"} : Rejected(p)
    BY <2>9, IpcpKept
  <2> QED
    BY <2>1, <2>2, <2>3, <2>4, <2>5, <2>6, <2>7, <2>8, <2>9 DEF LinkNext
<1>3. LinkInv => LinkTypeOK /\ NetAuthenticated /\ OffIsQuiet
  BY DEF LinkInv, LinkOK, Base, Agreed, AutoOK, Below, LinkTypeOK, NetAuthenticated, OffIsQuiet
<1> QED
  BY <1>1, <1>2, <1>3, PTL DEF LinkSpec
=============================================================================
