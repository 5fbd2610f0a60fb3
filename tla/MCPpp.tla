-------------------------------- MODULE MCPpp --------------------------------
(***************************************************************************)
(* lwIP's point-to-point protocol, part by part.  Each has its own state,  *)
(* so a behaviour exercises one of them, named by part: its variables are  *)
(* x1, x2, ..., and for PPPoE and for the phases of a link those of PppOe  *)
(* and PppLink.                                                            *)
(***************************************************************************)
EXTENDS PppOe, PppLink

CONSTANT Parts

VARIABLES part, x1, x2, x3, x4, x5

vars == <<part, x1, x2, x3, x4, x5, oeVars, linkVars>>
others == <<oeVars, linkVars>>

Cis(mru, map, auth, magic, comp) ==
  [mru |-> mru, map |-> map, auth |-> auth, magic |-> magic, comp |-> comp]
End(wo, ao, secrets, magics, flags) ==
  [wo |-> wo, ao |-> ao, secrets |-> secrets, magics |-> magics, flags |-> flags]
Ours(magics) == End(Cis(3, 1, {}, 1, TRUE), Cis(5, 1, {"pap"}, 1, TRUE), {}, magics, {})
Asking == End(Cis(4, 1, {"chap", "pap"}, 1, TRUE), Cis(5, 2, {}, 1, FALSE), {"chap", "pap"}, {2}, {})
Silent == End(Cis(1, 1, {}, 0, FALSE), Cis(0, 1, {}, 0, TRUE), {}, {2}, {"silent"})

\* This end with a peer that asks for authentication, with a silent one that
\* rejects, with one that draws the same magic number, and on a looped line.
Lcp == INSTANCE Lcp WITH
  Lines <- {[ends |-> <<Ours({1}), Asking>>, loop |-> FALSE],
            [ends |-> <<Ours({1}), Silent>>, loop |-> FALSE],
            [ends |-> <<Ours({1}), Ours({1})>>, loop |-> FALSE],
            [ends |-> <<Ours({1, 2}), Ours({1, 2})>>, loop |-> TRUE]},
  LoopFail <- 2, ConfReqs <- 2, TermReqs <- 1, NakLoops <- 1, MaxId <- 3, MaxOpens <- 1,
  Capacity <- 2, end <- x1, line <- x2, loop <- x3

\* A client without address and a server that gives it one.
Ipcp == INSTANCE Ipcp WITH
  Configs <- {<<[our |-> 0, his |-> 0, vj |-> 5, aovj |-> 6, dns |-> TRUE, aodns |-> 0],
                [our |-> 1, his |-> 2, vj |-> 3, aovj |-> 3, dns |-> FALSE, aodns |-> 4]>>},
  ConfReqs <- 2, TermReqs <- 1, NakLoops <- 1, MaxId <- 3, MaxRounds <- 2, Capacity <- 2,
  end <- x1, line <- x2, link <- x3

\* CHAP one way and PAP the other, or nothing, where the link requires something.
LinkAsks == {<<"chap", "pap">>, <<"pap", "chap">>, <<"none", "pap">>}

\* Buffers of four octets, packets of flags, escapes and control characters.
Frame == INSTANCE PppFrame WITH
  Packets <- {[proto |-> 49185, data |-> <<126>>], [proto |-> 33, data |-> <<255, 3, 125>>],
              [proto |-> 33, data |-> <<>>]},
  Lines <- {[accomp |-> b, pcomp |-> b] : b \in BOOLEAN},
  OutACCM <- {17, 125, 126}, InACCM <- {17, 125, 126}, Size <- 4, Strays <- {126, 125, 17, 3},
  MaxSent <- 2, MaxFaults <- 1,
  tx <- x1, line <- x2, rx <- x3, got <- x4, fault <- x5

Header(conn, n) ==
  [conn |-> conn, fix |-> 0, plain |-> FALSE, id |-> n, win |-> 0, ack |-> n, seq |-> n,
   urg |-> FALSE, urp |-> 0, psh |-> FALSE, len |-> 1]
Fields(urg) ==
  {h \in [conn : {1}, fix : {0}, plain : {FALSE}, id : 0 .. 1, win : {0, 3}, ack : {0, 1, 6},
          seq : {0, 1, 7}, urg : {urg}, urp : 0 .. 1, psh : {FALSE}, len : 0 .. 1] :
     h.win = h.ack \div 2 /\ h.urp <= h.seq}

\* Three connections in two slots with losses; one whose fields change at will.
Vj == INSTANCE Vj WITH
  Streams <- <<[headers |-> {Header(c, n) : c \in 1 .. 3, n \in 0 .. 1}
                              \cup {[Header(1, 2) EXCEPT !.plain = TRUE]},
                max |-> 4, losses |-> 1],
               [headers |-> Fields(FALSE), max |-> 2, losses |-> 0],
               [headers |-> Fields(TRUE), max |-> 2, losses |-> 0]>>,
  MAX_SLOTS <- 2, W <- 4, L <- 8, compressSlot <- TRUE,
  tx <- x1, mbox <- x2, rx <- x3, last <- x4
-----------------------------------------------------------------------------
Off == "unused"

Init ==
  /\ part \in Parts /\ LinkInit /\ OeInit
  /\ \/ part = "lcp" /\ Lcp!Init /\ x4 = Off /\ x5 = Off
     \/ part = "ipcp" /\ Ipcp!Init /\ x4 = Off /\ x5 = Off
     \/ part = "frame" /\ Frame!Init
     \/ part = "vj" /\ Vj!Init /\ x5 = Off
     \/ part \in {"link", "pppoe"} /\ x1 = Off /\ x2 = Off /\ x3 = Off /\ x4 = Off /\ x5 = Off

Next ==
  /\ UNCHANGED part
  /\ \/ part = "lcp" /\ Lcp!Next /\ UNCHANGED <<x4, x5, others>>
     \/ part = "ipcp" /\ Ipcp!Next /\ UNCHANGED <<x4, x5, others>>
     \/ part = "frame" /\ Frame!Next /\ UNCHANGED others
     \/ part = "vj" /\ Vj!Next /\ UNCHANGED <<x5, others>>
     \/ part = "link" /\ LinkNext /\ UNCHANGED <<x1, x2, x3, x4, x5, oeVars>>
     \/ part = "pppoe" /\ OeNext /\ UNCHANGED <<x1, x2, x3, x4, x5, linkVars>>

Spec == Init /\ [][Next]_vars
-----------------------------------------------------------------------------
\* Ends that are up agree on the options and addresses they negotiated, a looped
\* line stays down, and whoever waits has a timer (fsm.c, lcp.c, ipcp.c); a link
\* that is down has nothing running above it, one that is up awaits or has every
\* proof of identity that was asked for, and a session that is not there yet
\* has requests left to send (link_down, link_established, pppoe_timeout).
LinksTrue ==
  /\ part = "lcp" => /\ Lcp!TypeOK /\ Lcp!LinkAgreed /\ Lcp!LoopStaysDown
                     /\ Lcp!Watched /\ Lcp!UpIsOpened
  /\ part = "ipcp" => Ipcp!TypeOK /\ Ipcp!AddressesAgreed /\ Ipcp!NetNeedsLink /\ Ipcp!Watched
  /\ LinkTypeOK /\ OffIsQuiet /\ Agreed(link) /\ OeTypeOK /\ RequestsLeft

\* What comes off the line was sent: whole frames in their order (pppInProc), and
\* packets with their own headers (vj_uncompress_tcp).
PacketsTrue ==
  /\ part = "frame" => Frame!TypeOK /\ Frame!FramesTrue /\ Frame!FramesArrive
  /\ part = "vj" => Vj!TypeOK /\ Vj!HeadersTrue
=============================================================================
