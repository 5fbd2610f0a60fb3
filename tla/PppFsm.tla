------------------------------- MODULE PppFsm -------------------------------
(***************************************************************************)
(* The option negotiation automaton LCP and IPCP share (fsm.c).  An        *)
(* operator takes the record of one end and returns it after the handler,  *)
(* with the packets the handler sends appended to `out`.  The protocol is  *)
(* a parameter: its callbacks are the constant operators.  A callback that *)
(* closes its own protocol (lcp_close in lcp_nakci, ipcp_close in ipcp_up) *)
(* sets `shut`, and the automaton closes as soon as the callback returns.  *)
(***************************************************************************)
EXTENDS Integers, Sequences

CONSTANTS MaxConfReqs, MaxTermReqs, MaxNakLoops, \* f->maxconfreqtransmits ...
          NoCis,            \* the contents of a packet without options
          resetci(_), cilen(_), addci(_), ackci(_, _), nakci(_, _),
          rejci(_, _), reqci(_, _, _), extcode(_, _),
          up(_), down(_), starting(_), finished(_)

Negotiating == {"REQSENT", "ACKRCVD", "ACKSENT"}
Closing == {"CLOSING", "STOPPING"}

fsm_init(f) ==
  [f EXCEPT !.state = "INITIAL", !.id = 0, !.reqid = 0, !.seen = FALSE,
            !.rexmit = 0, !.naks = 0]

\* fsm_sdata, for every packet the automaton sends
fsm_sdata(f, code, id, cis) ==
  [f EXCEPT !.out = Append(@, [code |-> code, id |-> id, cis |-> cis])]

Enter(f, s) == [f EXCEPT !.state = s]
\* TIMEOUT and UNTIMEOUT: the second removes one pending callout, if any.
TIMEOUT(f) == [f EXCEPT !.timer = @ + 1]
UNTIMEOUT(f) == [f EXCEPT !.timer = IF @ > 0 THEN @ - 1 ELSE 0]

fsm_sconfreq(f, retransmit) ==
  LET r == IF f.state \in Negotiating THEN f
           ELSE [resetci(f) EXCEPT !.naks = 0]
      n == IF retransmit THEN r
           ELSE [r EXCEPT !.rexmit = MaxConfReqs, !.id = @ + 1, !.reqid = r.id + 1]
      q == cilen([n EXCEPT !.seen = FALSE])
      s == fsm_sdata(q, "CONFREQ", q.reqid, addci(q))
  IN TIMEOUT([s EXCEPT !.rexmit = @ - 1])

fsm_lowerup(f) ==
  CASE f.state = "INITIAL" -> Enter(f, "CLOSED")
    [] f.state = "STARTING" -> IF "silent" \in f.flags THEN Enter(f, "STOPPED")
                               ELSE Enter(fsm_sconfreq(f, FALSE), "REQSENT")
    [] OTHER -> f

fsm_lowerdown(f) ==
  CASE f.state = "CLOSED" -> Enter(f, "INITIAL")
    [] f.state = "STOPPED" -> starting(Enter(f, "STARTING"))
    [] f.state = "CLOSING" -> UNTIMEOUT(Enter(f, "INITIAL"))
    [] f.state \in Negotiating \cup {"STOPPING"} -> UNTIMEOUT(Enter(f, "STARTING"))
    [] f.state = "OPENED" -> Enter(down(f), "STARTING")
    [] OTHER -> f

Restart(f) == IF "restart" \in f.flags THEN fsm_lowerup(fsm_lowerdown(f)) ELSE f

fsm_open(f) ==
  CASE f.state = "INITIAL" -> starting(Enter(f, "STARTING"))
    [] f.state = "CLOSED" -> IF "silent" \in f.flags THEN Enter(f, "STOPPED")
                             ELSE Enter(fsm_sconfreq(f, FALSE), "REQSENT")
    [] f.state = "CLOSING" -> Restart(Enter(f, "STOPPING"))
    [] f.state \in {"STOPPED", "OPENED"} -> Restart(f)
    [] OTHER -> f

\* The next Terminate-Request of fsm_close (a fresh count) and of fsm_timeout.
Terminate(f) ==
  TIMEOUT([fsm_sdata([f EXCEPT !.id = @ + 1, !.reqid = f.id + 1], "TERMREQ", f.id + 1, NoCis)
             EXCEPT !.rexmit = @ - 1])

fsm_close(f) ==
  CASE f.state = "STARTING" -> Enter(f, "INITIAL")
    [] f.state = "STOPPED" -> Enter(f, "CLOSED")
    [] f.state = "STOPPING" -> Enter(f, "CLOSING")
    [] f.state \in Negotiating \cup {"OPENED"} ->
         LET d == IF f.state = "OPENED" THEN down(f) ELSE UNTIMEOUT(f)
         IN Enter(Terminate([d EXCEPT !.rexmit = MaxTermReqs]), "CLOSING")
    [] OTHER -> f

\* Closes the protocol whose callback asked for it.
Settle(f) == IF f.shut THEN fsm_close([f EXCEPT !.shut = FALSE]) ELSE f
Up(f) == Settle(up(f))

fsm_timeout(f0) ==
  LET f == UNTIMEOUT(f0) IN
  CASE f.state \in Closing ->
         IF f.rexmit <= 0
         THEN finished(Enter(f, IF f.state = "CLOSING" THEN "CLOSED" ELSE "STOPPED"))
         ELSE Terminate(f)
    [] f.state \in Negotiating ->
         IF f.rexmit <= 0
         THEN LET s == Enter(f, "STOPPED")
              IN IF "passive" \in f.flags THEN s ELSE finished(s)
         ELSE LET s == fsm_sconfreq(f, TRUE)
              IN IF f.state = "ACKRCVD" THEN Enter(s, "REQSENT") ELSE s
    [] OTHER -> f

\* What follows once the answer is sent: the negotiation is over when both
\* ends agree, and the refusals are counted.
Agree(s) ==
  LET f == [s EXCEPT !.naks = 0]
  IN IF s.state = "ACKRCVD" THEN Up(Enter(UNTIMEOUT(f), "OPENED")) ELSE Enter(f, "ACKSENT")
Disagree(s, code) ==
  LET f == IF s.state = "ACKRCVD" THEN s ELSE Enter(s, "REQSENT")
  IN IF code = "CONFNAK" THEN [f EXCEPT !.naks = @ + 1] ELSE f

fsm_rconfreq(f0, p) ==
  LET f == CASE f0.state = "OPENED" -> fsm_sconfreq(down(f0), FALSE)
             [] f0.state = "STOPPED" -> Enter(fsm_sconfreq(f0, FALSE), "REQSENT")
             [] OTHER -> f0
      r == reqci(f, p.cis, f.naks >= MaxNakLoops)
      s == fsm_sdata(r.f, r.code, p.id, r.cis)
  IN CASE f0.state = "CLOSED" -> fsm_sdata(f0, "TERMACK", p.id, NoCis)
       [] f0.state \in Closing -> f0
       [] OTHER -> IF r.code = "CONFACK" THEN Agree(s) ELSE Disagree(s, r.code)

\* A fresh request after the peer spoke again with this end's request answered.
Again(f) == Enter(fsm_sconfreq(f, FALSE), "REQSENT")

fsm_rconfack(f0, p) ==
  LET f == [f0 EXCEPT !.seen = TRUE]
      fresh == [f EXCEPT !.rexmit = MaxConfReqs]
  IN IF p.id # f0.reqid \/ f0.seen \/ ~ackci(f0, p.cis) THEN f0
     ELSE CASE f.state \in {"CLOSED", "STOPPED"} -> fsm_sdata(f, "TERMACK", p.id, NoCis)
            [] f.state = "REQSENT" -> Enter(fresh, "ACKRCVD")
            [] f.state = "ACKRCVD" -> Again(UNTIMEOUT(f))
            [] f.state = "ACKSENT" -> Up(Enter(UNTIMEOUT(fresh), "OPENED"))
            [] f.state = "OPENED" -> Again(down(f))
            [] OTHER -> f

fsm_rconfnakrej(f0, p) ==
  LET r == IF p.code = "CONFNAK" THEN nakci(f0, p.cis) ELSE rejci(f0, p.cis)
      f == [Settle(r.f) EXCEPT !.seen = TRUE]
  IN IF p.id # f0.reqid \/ f0.seen \/ ~r.ok THEN f0
     ELSE CASE f.state \in {"CLOSED", "STOPPED"} -> fsm_sdata(f, "TERMACK", p.id, NoCis)
            [] f.state \in {"REQSENT", "ACKSENT"} -> fsm_sconfreq(UNTIMEOUT(f), FALSE)
            [] f.state = "ACKRCVD" -> Again(UNTIMEOUT(f))
            [] f.state = "OPENED" -> Again(down(f))
            [] OTHER -> f

fsm_rtermreq(f0, p) ==
  LET f == CASE f0.state \in {"ACKRCVD", "ACKSENT"} -> Enter(f0, "REQSENT")
             [] f0.state = "OPENED" ->
                  TIMEOUT(Enter([down(f0) EXCEPT !.rexmit = 0], "STOPPING"))
             [] OTHER -> f0
  IN fsm_sdata(f, "TERMACK", p.id, NoCis)

fsm_rtermack(f) ==
  CASE f.state = "CLOSING" -> finished(Enter(UNTIMEOUT(f), "CLOSED"))
    [] f.state = "STOPPING" -> finished(Enter(UNTIMEOUT(f), "STOPPED"))
    [] f.state = "ACKRCVD" -> Enter(f, "REQSENT")
    [] f.state = "OPENED" -> fsm_sconfreq(down(f), FALSE)
    [] OTHER -> f

fsm_rcoderej(f) == IF f.state = "ACKRCVD" THEN Enter(f, "REQSENT") ELSE f

fsm_input(f, p) ==
  IF f.state \in {"INITIAL", "STARTING"} THEN f
  ELSE CASE p.code = "CONFREQ" -> fsm_rconfreq(f, p)
         [] p.code = "CONFACK" -> fsm_rconfack(f, p)
         [] p.code \in {"CONFNAK", "CONFREJ"} -> fsm_rconfnakrej(f, p)
         [] p.code = "TERMREQ" -> fsm_rtermreq(f, p)
         [] p.code = "TERMACK" -> fsm_rtermack(f)
         [] p.code = "CODEREJ" -> fsm_rcoderej(f)
         [] OTHER -> LET x == extcode(f, p) IN
                     IF x.ok THEN x.f
                     ELSE fsm_sdata([f EXCEPT !.id = @ + 1], "CODEREJ", f.id + 1, NoCis)
=============================================================================
