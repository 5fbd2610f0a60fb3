-------------------------------- MODULE PppOe --------------------------------
(***************************************************************************)
(* PPP over Ethernet (netif/ppp/ppp_oe.c and the parts of ppp.c that open  *)
(* and close such a session): discovery with its retries, the session, and *)
(* the callbacks that run in the TCP/IP thread in the order in which they  *)
(* were posted.  The concentrator's packets are lost, repeated and         *)
(* reordered: any discovery packet may come at any time.  LCP is reduced   *)
(* to when it runs, see Lcp.                                               *)
(***************************************************************************)
EXTENDS Integers, Sequences

CONSTANTS MAXPADI, MAXPADR,  \* PPPOE_DISC_MAXPADI and PPPOE_DISC_MAXPADR
          MaxOpens,          \* bound: sessions opened
          MaxPosted          \* bound: callbacks waiting, and calls of pppClose and pppSigHUP

VARIABLES sc,    \* the pppoe_softc of each open: none is ever freed
          pc,    \* the PPPControl: openFlag, the phase, LCP, calls of the application
          posted \* callbacks posted to the TCP/IP thread
oeVars == <<sc, pc, posted>>

ASSUME OeAssumption == {MAXPADI, MAXPADR} \subseteq Nat \ {0} /\ {MaxOpens, MaxPosted} \subseteq Nat

New == [state |-> "PADI_SENT", dest |-> "all", cookie |-> FALSE, padi |-> 0, padr |-> 0,
        timers |-> 1, ups |-> 0]

OeInit ==
  /\ sc = <<>>
  /\ pc = [open |-> FALSE, phase |-> "DEAD", lcp |-> "initial", calls |-> 0]
  /\ posted = <<>>

Post(c) == Len(posted) < MaxPosted /\ posted' = Append(posted, c)
Untimeout(s) == [s EXCEPT !.timers = IF @ > 0 THEN @ - 1 ELSE 0]
Timeout(s) == [s EXCEPT !.timers = @ + 1]

\* pppOverEthernetOpen, pppoe_create and pppoe_connect; without memory for
\* the softc the descriptor is given back.
pppOverEthernetOpen(memory) ==
  /\ ~pc.open
  /\ Len(sc) < MaxOpens
  /\ pc' = [pc EXCEPT !.open = memory, !.phase = "INITIALIZE", !.lcp = "initial"]
  /\ sc' = IF memory THEN Append(sc, New) ELSE sc
  /\ UNCHANGED posted

\* pppClose and pppSigHUP post a callback.
pppClose ==
  /\ pc.open
  /\ pc.calls < MaxPosted
  /\ Post("stop")
  /\ pc' = [pc EXCEPT !.calls = @ + 1]
  /\ UNCHANGED sc
pppSigHUP ==
  /\ pc.open
  /\ pc.calls < MaxPosted
  /\ Post("hup")
  /\ pc' = [pc EXCEPT !.calls = @ + 1]
  /\ UNCHANGED sc

\* A slip that leaves the end of the session to nobody.
pppoe_disconnectMutant(s) ==
  IF s = <<>> \/ s[Len(s)].state \notin {"SESSION", "CLOSING"} THEN s
  ELSE [s EXCEPT ![Len(s)] = [@ EXCEPT !.state = "CLOSING"]]

\* pppoe_disconnect of the session in use: its timer does the rest.
pppoe_disconnect(s) ==
  IF s = <<>> \/ s[Len(s)].state \notin {"SESSION", "CLOSING"} THEN s
  ELSE [s EXCEPT ![Len(s)] = Timeout([@ EXCEPT !.state = "CLOSING"])]

\* What a callback leaves of pc and sc
Both(p, s) == [pc |-> p, sc |-> s]
pppStartCB(b) == Both([b.pc EXCEPT !.lcp = "running", !.phase = "ESTABLISH"], b.sc)
\* lcp_close; an LCP that runs goes on to terminate.
pppStopCB(b) ==
  Both([b.pc EXCEPT !.phase = IF @ = "DEAD" THEN @ ELSE "TERMINATE",
                    !.lcp = IF @ = "running" THEN "closing" ELSE @],
       b.sc)
link_terminated(b) ==
  IF b.pc.phase = "DEAD" THEN b
  ELSE Both([b.pc EXCEPT !.phase = "DEAD"], pppoe_disconnect(b.sc))
pppHupCB(b) == link_terminated(Both([b.pc EXCEPT !.lcp = "initial"], b.sc))
\* pppoe_destroy looks for a session on the PPP interface itself and finds none.
pppOverEthernetInitFailed(b) ==
  LET n == pppStopCB(pppHupCB(b)) IN Both([n.pc EXCEPT !.open = FALSE], n.sc)

Callback ==
  /\ posted # <<>>
  /\ LET b == Both(pc, sc)
         n == CASE Head(posted) = "start" -> pppStartCB(b)
                [] Head(posted) = "stop" -> pppStopCB(b)
                [] Head(posted) = "hup" -> pppHupCB(b)
                [] Head(posted) = "failed" -> pppOverEthernetInitFailed(b)
     IN pc' = n.pc /\ sc' = n.sc
  /\ posted' = Tail(posted)

\* LCP ends: link_terminated, and before it link_down if it was up.
LcpEnds ==
  /\ pc.lcp \in {"running", "closing"}
  /\ LET n == link_terminated(Both([pc EXCEPT !.lcp = "ended"], sc))
     IN pc' = n.pc /\ sc' = n.sc
  /\ UNCHANGED posted
\* link_down and pppLinkDown, when the peer negotiates LCP again
LcpAgain ==
  /\ pc.lcp = "running"
  /\ sc # <<>>
  /\ sc[Len(sc)].timers <= MaxPosted
  /\ sc' = pppoe_disconnect(sc)
  /\ pc' = [pc EXCEPT !.phase = "TERMINATE"]
  /\ UNCHANGED posted

Discovering == {"PADI_SENT", "PADR_SENT"}
Set(i, s) == sc' = [sc EXCEPT ![i] = s]

\* Discovery packets, found by their host-unique tag.  PADO: the offer's
\* cookie is kept; a cookie for which there is no memory ends the matter.
PADO(i, cookie, memory) ==
  /\ sc[i].state = "PADI_SENT"
  /\ Set(i, IF cookie /\ ~memory THEN [sc[i] EXCEPT !.cookie = FALSE]
            ELSE Timeout([Untimeout(sc[i]) EXCEPT !.cookie = @ \/ cookie, !.dest = "peer",
                                                  !.padr = 0, !.state = "PADR_SENT"]))
  /\ UNCHANGED <<pc, posted>>
PADS(i) ==
  /\ sc[i].state \in Discovering
  /\ Set(i, [Untimeout(sc[i]) EXCEPT !.state = "SESSION", !.ups = @ + 1])
  /\ UNCHANGED <<pc, posted>>
\* pppoe_clear_softc
PADT(i) ==
  /\ sc[i].state \in Discovering
  /\ Set(i, [Untimeout(sc[i]) EXCEPT !.state = "INITIAL", !.dest = "all", !.cookie = FALSE])
  /\ Post("failed")
  /\ UNCHANGED pc

pppoe_linkstatus_up(i) ==
  /\ sc[i].ups > 0
  /\ Set(i, [sc[i] EXCEPT !.ups = @ - 1])
  /\ Post("start")
  /\ UNCHANGED pc

\* pppoe_timeout; a packet that could not be sent is not counted.
pppoe_timeout(i, fails) ==
  /\ sc[i].timers > 0
  /\ LET s == Untimeout(sc[i])
         last == s.state = "PADI_SENT" /\ s.padi + 1 >= MAXPADI
         back == s.state = "PADR_SENT" /\ s.padr + 1 >= MAXPADR
     IN \/ \* pppoe_abort_connect
           /\ last
           /\ Set(i, [s EXCEPT !.padi = @ + 1, !.state = "INITIAL", !.dest = "all"])
           /\ Post("failed")
        \/ /\ s.state = "PADI_SENT" /\ ~last
           /\ Set(i, Timeout([s EXCEPT !.padi = IF fails THEN @ ELSE @ + 1]))
           /\ UNCHANGED posted
        \/ /\ back
           /\ Set(i, Timeout([s EXCEPT !.dest = "all", !.state = "PADI_SENT", !.padr = 0]))
           /\ UNCHANGED posted
        \/ /\ s.state = "PADR_SENT" /\ ~back
           /\ Set(i, Timeout([s EXCEPT !.padr = IF fails THEN @ ELSE @ + 1]))
           /\ UNCHANGED posted
        \/ \* pppoe_do_disconnect
           /\ s.state = "CLOSING"
           /\ Set(i, [s EXCEPT !.state = "INITIAL", !.dest = "all", !.cookie = FALSE])
           /\ Post("failed")
        \/ /\ s.state \in {"INITIAL", "SESSION"}
           /\ Set(i, s)
           /\ UNCHANGED posted
  /\ UNCHANGED pc

OeNext ==
  \/ \E memory \in BOOLEAN : pppOverEthernetOpen(memory)
  \/ pppClose
  \/ pppSigHUP
  \/ Callback
  \/ LcpEnds
  \/ LcpAgain
  \/ \E i \in DOMAIN sc :
       \/ \E cookie, memory \in BOOLEAN : PADO(i, cookie, memory)
       \/ PADS(i)
       \/ PADT(i)
       \/ pppoe_linkstatus_up(i)
       \/ \E fails \in BOOLEAN : pppoe_timeout(i, fails)

OeSpec == OeInit /\ [][OeNext]_oeVars

Softc ==
  [state : {"INITIAL", "PADI_SENT", "PADR_SENT", "SESSION", "CLOSING"}, dest : {"all", "peer"},
   cookie : BOOLEAN, padi : 0 .. MAXPADI, padr : 0 .. MAXPADR - 1, timers : Nat, ups : Nat]
Control ==
  [open : BOOLEAN, phase : {"DEAD", "INITIALIZE", "ESTABLISH", "TERMINATE"},
   lcp : {"initial", "running", "closing", "ended"}, calls : 0 .. MaxPosted]

\* The retries and the callbacks stay within their limits.
OeTypeOK ==
  /\ sc \in Seq(Softc) /\ pc \in Control
  /\ posted \in Seq({"start", "stop", "hup", "failed"}) /\ Len(posted) <= MaxPosted

\* A session that waits for the concentrator, or is to be closed, has a timer
\* that goes on with it (pppoe_timeout).
DiscoveryWatched ==
  \A i \in DOMAIN sc : sc[i].state \in Discovering \cup {"CLOSING"} => sc[i].timers > 0

\* While a descriptor is open its session is being made, is there, or its end
\* is about to be told: no open hangs with nothing behind it
\* (pppOverEthernetInitFailed, pppoe_abort_connect).
OpenIsServed ==
  pc.open => /\ sc # <<>>
             /\ \/ sc[Len(sc)].state # "INITIAL"
                \/ \E k \in DOMAIN posted : posted[k] = "failed"

\* The two together: an open session that hangs would have neither a timer that
\* goes on with it nor its end told (pppoe_timeout, pppoe_abort_connect).
SessionsTrue == DiscoveryWatched /\ OpenIsServed

\* A session that is not there yet has requests left to send (pppoe_timeout).
RequestsLeft == \A i \in DOMAIN sc : sc[i].state \in Discovering => sc[i].padi < MAXPADI
=============================================================================
