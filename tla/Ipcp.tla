-------------------------------- MODULE Ipcp ---------------------------------
(***************************************************************************)
(* The IP control protocol (ipcp.c) at the two ends of a link whose LCP    *)
(* comes up and goes down under it.  An end runs the automaton of PppFsm.  *)
(* Addresses are small numbers, 0 stands for 0.0.0.0.  In a packet an      *)
(* absent option is 0; a present one is 1 + its value:                     *)
(*   addr   the sender's address (CI_ADDR)                                 *)
(*   addrs  both addresses in the old form (CI_ADDRS), only as 1           *)
(*   vj     header compression: 2 * slots + whether slot ids may be left out *)
(*   dns    a name server, the first or the second, treated alike          *)
(* Neither end speaks the old form of header compression first, so that    *)
(* form never comes up.                                                    *)
(***************************************************************************)
EXTENDS Integers, Sequences, FiniteSetsExt

CONSTANTS Configs,      \* pairs of ends as configured, see Plain
          ConfReqs, TermReqs, NakLoops,
          MaxId,        \* bound: identifiers an end uses up
          MaxRounds,    \* bound: times LCP comes up
          Capacity      \* bound: packets on the line in one direction

VARIABLES end,          \* the state of each end
          line,         \* line[i]: the packets on their way to end i
          link          \* link[i]: the LCP session end i was last in, and whether it is
vars == <<end, line, link>>

Ends == {1, 2}
NoCis == [addr |-> 0, addrs |-> 0, vj |-> 0, dns |-> 0]
Options == DOMAIN NoCis
Present(cis) == {o \in Options : cis[o] # 0}
Only(cis, S) == [o \in Options |-> IF o \in S THEN cis[o] ELSE 0]

accept_local(f) == f.wo.our = 0
accept_remote(f) == f.wo.his = 0

Vj(slots, cflag) == 1 + 2 * slots + cflag
Slots(v) == (v - 1) \div 2
Cflag(v) == (v - 1) % 2

ipcp_resetci(f) ==
  [f EXCEPT !.go = [neg |-> f.wo.neg, old |-> FALSE, our |-> f.wo.our, vj |-> f.wo.vj,
                    dns |-> IF f.wo.dns THEN 1 ELSE 0],
            !.req_addr = f.wo.neg /\ f.ao.neg, !.heard = FALSE]

\* The request falls back on the old form of the address option once the new
\* one was rejected, and asks for compression until the peer's request came.
ipcp_cilen(f) ==
  LET old == f.wo.neg /\ ~f.go.neg /\ ~f.go.old
  IN [f EXCEPT !.go.neg = @ \/ old, !.go.old = @ \/ old,
               !.go.vj = IF @ = 0 /\ ~f.heard THEN f.wo.vj ELSE @]

ipcp_addci(f) ==
  [addr |-> IF f.go.neg /\ ~f.go.old THEN 1 + f.go.our ELSE 0,
   addrs |-> IF f.go.neg /\ f.go.old THEN 1 ELSE 0,
   vj |-> f.go.vj, dns |-> f.go.dns]

ipcp_ackci(f, cis) == cis = ipcp_addci(f)

ipcp_nakci(f, cis) ==
  LET go == f.go
      our == IF cis.addr > 1 /\ accept_local(f) THEN cis.addr - 1 ELSE go.our
      next == [neg |-> IF cis.addr # 0 THEN go.neg \/ our # 0 ELSE go.neg,
               old |-> IF cis.addr # 0 /\ ~go.neg THEN FALSE ELSE go.old,
               our |-> our,
               vj |-> IF cis.vj = 0 \/ go.vj = 0 THEN go.vj
                      ELSE Vj(Min({Slots(go.vj), Slots(cis.vj)}),
                              Min({Cflag(go.vj), Cflag(cis.vj)})),
               dns |-> IF cis.dns # 0 /\ go.dns # 0 THEN cis.dns ELSE go.dns]
  IN [ok |-> ~(cis.addr # 0 /\ go.neg /\ go.old),
      f |-> IF f.state = "OPENED" THEN f ELSE [f EXCEPT !.go = next]]

ipcp_rejci(f, cis) ==
  LET S == Present(cis)
      off == [f.go EXCEPT !.neg = @ /\ S \cap {"addr", "addrs"} = {},
                          !.vj = IF "vj" \in S THEN 0 ELSE @,
                          !.dns = IF "dns" \in S THEN 0 ELSE @]
  IN [ok |-> \A o \in S : cis[o] = ipcp_addci(f)[o],
      f |-> IF f.state = "OPENED" THEN f ELSE [f EXCEPT !.go = off]]

Verdict(f, cis, o) ==
  CASE o = "addr" ->
         LET a == cis.addr - 1 IN
         CASE ~f.ao.neg -> "REJ"
           [] f.ao.neg /\ a # f.wo.his /\ (a = 0 \/ ~accept_remote(f)) -> "NAK"
           [] f.ao.neg /\ a = 0 /\ f.wo.his = 0 -> "REJ"
           [] OTHER -> "ACK"
    [] o = "addrs" -> "REJ"
    [] o = "vj" -> IF f.ao.vj = 0 THEN "REJ"
                   ELSE IF Slots(cis.vj) > Slots(f.ao.vj) \/ Cflag(cis.vj) > Cflag(f.ao.vj)
                        THEN "NAK" ELSE "ACK"
    [] o = "dns" -> IF f.ao.dns = 0 THEN "REJ"
                    ELSE IF cis.dns = f.ao.dns THEN "ACK" ELSE "NAK"

Hint(f, cis) ==
  [addr |-> 1 + f.wo.his, addrs |-> 0,
   vj |-> IF cis.vj = 0 THEN 0
          ELSE Vj(Min({Slots(cis.vj), Slots(f.ao.vj)}),
                  IF Cflag(cis.vj) > Cflag(f.ao.vj) THEN Cflag(f.wo.vj) ELSE Cflag(cis.vj)),
   dns |-> f.ao.dns]

\* A name server that is not ours is replaced in the packet by ours even when
\* the option is then rejected.  The peer is asked once for its address if it
\* sent none.
ipcp_reqci(f, cis, tough) ==
  LET S == Present(cis)
      are(v) == {o \in S : Verdict(f, cis, o) = v}
      rejs == are("REJ") \cup (IF tough THEN are("NAK") ELSE {})
      naks == are("NAK") \ rejs
      took == "addr" \in S /\ Verdict(f, cis, "addr") # "REJ"
      h == [f EXCEPT !.ho = [neg |-> took, his |-> IF took THEN cis.addr - 1 ELSE 0,
                             vj |-> IF "vj" \in are("REJ") THEN 0 ELSE cis.vj],
                     !.heard = TRUE,
                     !.req_addr = @ /\ "addr" \notin are("REJ")]
      ask == rejs = {} /\ ~took /\ h.req_addr /\ ~tough
      sent == [cis EXCEPT !.dns = IF "dns" \in are("NAK") THEN f.ao.dns ELSE @]
  IN CASE rejs # {} -> [code |-> "CONFREJ", cis |-> Only(sent, rejs), f |-> h]
       [] ask -> [code |-> "CONFNAK", cis |-> Only(Hint(f, cis), naks \cup {"addr"}),
                  f |-> IF naks = {} THEN [h EXCEPT !.req_addr = FALSE] ELSE h]
       [] rejs = {} /\ ~ask /\ naks # {} ->
            [code |-> "CONFNAK", cis |-> Only(Hint(f, cis), naks), f |-> h]
       [] OTHER -> [code |-> "CONFACK", cis |-> cis, f |-> h]

NoNet == [up |-> FALSE, our |-> 0, his |-> 0, vj |-> 0]

\* ipcp_up with sifvjcomp, sifaddr, sifup and sifdefaultroute; the interface
\* may fail to come up.
ipcp_up(f) ==
  LET h == IF f.ho.neg THEN f ELSE [f EXCEPT !.ho.his = f.wo.his]
      bad == h.ho.his = 0 \/ h.go.our = 0
  IN [h EXCEPT !.shut = bad \/ f.fail,
               !.net = IF bad THEN @
                       ELSE [up |-> ~f.fail, our |-> h.go.our, his |-> h.ho.his, vj |-> h.ho.vj]]

\* ipcp_down with sifdown, ipcp_clear_addrs and cifdefaultroute
ipcp_down(f) == [f EXCEPT !.net = NoNet]
ipcp_starting(f) == f
\* np_finished closes LCP: the link goes down, see LinkDown.
ipcp_finished(f) == f
ipcp_extcode(f, p) == [ok |-> FALSE, f |-> f]

Fsm == INSTANCE PppFsm WITH
  MaxConfReqs <- ConfReqs, MaxTermReqs <- TermReqs, MaxNakLoops <- NakLoops,
  resetci <- ipcp_resetci, cilen <- ipcp_cilen, addci <- ipcp_addci,
  ackci <- ipcp_ackci, nakci <- ipcp_nakci, rejci <- ipcp_rejci, reqci <- ipcp_reqci,
  extcode <- ipcp_extcode, up <- ipcp_up, down <- ipcp_down,
  starting <- ipcp_starting, finished <- ipcp_finished

\* An end as it is configured: the addresses it gives itself and the peer, the
\* compression it asks for and takes, whether it asks for a name server and
\* the one it gives out.
Plain(c) ==
  [state |-> "INITIAL", id |-> 0, reqid |-> 0, seen |-> FALSE, rexmit |-> 0,
   naks |-> 0, timer |-> 0, out |-> <<>>, shut |-> FALSE, fail |-> FALSE, flags |-> {},
   wo |-> [neg |-> TRUE, our |-> c.our, his |-> c.his, vj |-> c.vj, dns |-> c.dns],
   ao |-> [neg |-> TRUE, vj |-> c.aovj, dns |-> c.aodns],
   go |-> [neg |-> FALSE, old |-> FALSE, our |-> 0, vj |-> 0, dns |-> 0],
   ho |-> [neg |-> FALSE, his |-> 0, vj |-> 0],
   req_addr |-> FALSE, heard |-> FALSE, net |-> NoNet]

Init ==
  /\ \E c \in Configs : end = [i \in Ends |-> Plain(c[i])]
  /\ line = [i \in Ends |-> <<>>]
  /\ link = [i \in Ends |-> [n |-> 0, up |-> FALSE]]

Peer(i) == 3 - i

\* What the handler sends reaches the peer's IPCP while there is room on the
\* line and the peer is in the network phase (pppInput); the rest is lost.
Become(i, f, l) ==
  /\ f.id <= MaxId
  /\ end' = [end EXCEPT ![i] = [f EXCEPT !.out = <<>>, !.fail = FALSE]]
  /\ line' = [l EXCEPT ![Peer(i)] =
                IF link[Peer(i)].up
                THEN SubSeq(@ \o f.out, 1, Min({Capacity, Len(@) + Len(f.out)})) ELSE @]

\* link_established and network_phase: ipcp_lowerup and ipcp_open.  LCP comes
\* up again at one end only after it went down at the other (Lcp).
LinkUp(i) ==
  LET p == Peer(i)
      n == IF link[p].up THEN link[p].n ELSE 1 + Max({link[i].n, link[p].n})
  IN /\ ~link[i].up
     /\ link[i].n < n
     /\ n <= MaxRounds
     /\ link' = [link EXCEPT ![i] = [n |-> n, up |-> TRUE]]
     /\ Become(i, Fsm!fsm_open(Fsm!fsm_lowerup(end[i])), line)

\* link_down: ipcp_lowerdown and ipcp_close; the packets still coming are lost.
LinkDown(i) ==
  /\ link[i].up
  /\ link' = [link EXCEPT ![i].up = FALSE]
  /\ Become(i, Fsm!fsm_close(Fsm!fsm_lowerdown(end[i])), [line EXCEPT ![i] = <<>>])

\* ipcp_input
Receive(i) ==
  /\ line[i] # <<>>
  /\ \E b \in BOOLEAN :
       Become(i, Fsm!fsm_input([end[i] EXCEPT !.fail = b], Head(line[i])),
              [line EXCEPT ![i] = Tail(@)])
  /\ UNCHANGED link

Expire(i) ==
  /\ end[i].timer > 0
  /\ Become(i, Fsm!fsm_timeout(end[i]), line)
  /\ UNCHANGED link

Lose(i) ==
  /\ line[i] # <<>>
  /\ line' = [line EXCEPT ![i] = Tail(@)]
  /\ UNCHANGED <<end, link>>

Next ==
  \E i \in Ends :
     LinkUp(i) \/ LinkDown(i) \/ Receive(i) \/ Expire(i) \/ Lose(i)

Spec == Init /\ [][Next]_vars

\* The counters, and the room on the line.
TypeOK ==
  /\ \A i \in Ends : link[i].n \in 0..MaxRounds
  /\ \A i \in Ends :
       /\ end[i].timer \in Nat
       /\ end[i].id \in 0..MaxId
       /\ Len(line[i]) <= Capacity

\* b has a's address, and a compresses as b asked.
Understood(a, b) ==
  /\ a.go.neg => b.net.his = a.net.our
  /\ a.net.vj = b.go.vj

\* When the interface is up at both ends, each end has the address the other
\* has for it, and compresses headers as the other can expand them
\* (ipcp_nakci, ipcp_reqci, ipcp_up).
AddressesAgreed ==
  end[1].net.up /\ end[2].net.up
    => Understood(end[1], end[2]) /\ Understood(end[2], end[1])

\* The interface is up only on a link that is, with both addresses known, and
\* nothing of it is left when it is down (ipcp_up, ipcp_down).
NetNeedsLink ==
  \A i \in Ends :
     /\ end[i].net.up => link[i].up /\ end[i].net.our # 0 /\ end[i].net.his # 0
     /\ ~end[i].net.up => end[i].net = NoNet

\* An end that waits for its peer has a timer that ends the wait (fsm_timeout).
Watched ==
  \A i \in Ends : end[i].state \in Fsm!Negotiating \cup Fsm!Closing => end[i].timer > 0
=============================================================================
