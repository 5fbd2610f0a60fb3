------------------------------- MODULE PppLink -------------------------------
(***************************************************************************)
(* One end of a PPP link above LCP: the phases of the link and the counts  *)
(* of network protocols (auth.c), PAP (pap.c), CHAP (chap.c), IPCP on the  *)
(* automaton of PppFsm, and the dispatch of packets (pppInput).  The peer  *)
(* sends any packet at any time.  LCP is reduced to what it tells the      *)
(* layers above, see Lcp; the contents of IPCP's options are in Ipcp.      *)
(***************************************************************************)
EXTENDS Integers, FiniteSets

CONSTANTS Asks,        \* what this end may ask of its peer, and the peer of it
          AuthRequired,\* ppp_settings.auth_required
          Transmits,   \* us_maxtransmits and max_transmits
          MaxSessions, \* bound: times LCP comes up
          MaxTimers,   \* bound: callouts of one kind pending at once
          MaxOpen      \* bound: num_np_open, and minus num_np_up

VARIABLE link
linkVars == <<link>>

ASSUME LinkAssumption == MaxSessions \in Nat

NoCis == <<>>

\* IPCP answers a request as it likes, and its addresses may be unacceptable.
resetci(f) == f
addci(f) == NoCis
ackci(f, c) == TRUE
changeci(f, c) == [ok |-> TRUE, f |-> f]
reqci(f, c, tough) == [code |-> f.verdict, cis |-> NoCis, f |-> f]
extcode(f, p) == [ok |-> FALSE, f |-> f]
\* np_up: the interface comes up, or IPCP closes because it cannot
ipcp_up(f) == [f EXCEPT !.ups = @ + 1, !.net = ~f.bad, !.shut = f.bad]
\* A slip that leaves the interface up.
ipcp_downMutant(f) == [f EXCEPT !.ups = @ - 1]

\* np_down
ipcp_down(f) == [f EXCEPT !.ups = @ - 1, !.net = FALSE]
ipcp_finished(f) == [f EXCEPT !.fin = TRUE]

Fsm == INSTANCE PppFsm WITH
  MaxConfReqs <- 1, MaxTermReqs <- 1, MaxNakLoops <- 1,
  cilen <- resetci, nakci <- changeci, rejci <- changeci,
  up <- ipcp_up, down <- ipcp_down, starting <- resetci, finished <- ipcp_finished

\* Identifiers, sent packets and counts of naks play no part here.
Plain(f) == [f EXCEPT !.id = 0, !.reqid = 0, !.out = <<>>, !.naks = 0, !.fin = FALSE]

Cancel(n) == IF n > 0 THEN n - 1 ELSE 0

upap_lowerdown(t) ==
  [t EXCEPT !.pap = [c |-> "INITIAL", s |-> "INITIAL", tries |-> @.tries,
                     ct |-> IF @.c = "AUTHREQ" THEN Cancel(@.ct) ELSE @.ct,
                     st |-> IF @.s = "LISTEN" THEN Cancel(@.st) ELSE @.st]]

ChapLowerDown(t) ==
  [t EXCEPT !.chap = [c |-> "INITIAL", s |-> "INITIAL", tries |-> @.tries,
                      ct |-> IF @.c = "RESPONSE" THEN Cancel(@.ct) ELSE @.ct,
                      st |-> IF @.s = "INITIAL_CHAL" THEN Cancel(@.st) ELSE @.st]]

Terminate(t) == [t EXCEPT !.phase = IF @ = "DEAD" THEN @ ELSE "TERMINATE"]

\* Every protocol above LCP is told, and IPCP is closed.
link_down(t) ==
  LET d == ChapLowerDown(upap_lowerdown(t))
      f == Plain(Fsm!fsm_close(Fsm!fsm_lowerdown(d.ip)))
  IN Terminate([d EXCEPT !.ip = [f EXCEPT !.ups = 0], !.open = 0])

lcp_close(t) ==
  CASE t.lcp = "opened" -> [link_down(Terminate(t)) EXCEPT !.lcp = "closing"]
    [] t.lcp = "busy" -> [Terminate(t) EXCEPT !.lcp = "closing"]
    [] OTHER -> Terminate(t)

\* np_finished: the link has no further use once no protocol is open.
np_finished(t) ==
  LET n == [t EXCEPT !.open = @ - 1] IN IF n.open <= 0 THEN lcp_close(n) ELSE n

\* IPCP after a step of its automaton
Ip(t, f) ==
  LET n == [t EXCEPT !.ip = Plain(f)] IN IF f.fin THEN np_finished(n) ELSE n

network_phase(t) ==
  LET n == Ip([t EXCEPT !.phase = "NETWORK"], Fsm!fsm_open(t.ip))
  IN [n EXCEPT !.open = @ + 1]

\* auth_peer_success and auth_withpeer_success
auth_success(t, a) ==
  LET n == [t EXCEPT !.pending = @ \ {a}, !.proved = @ \cup {a}]
  IN IF n.pending = {} THEN network_phase(n) ELSE n

\* auth_peer_fail; of auth_withpeer_fail nothing remains but the error code.
auth_peer_fail(t) == lcp_close(t)
auth_withpeer_fail(t) == t

upap_sauthreq(t) ==
  [t EXCEPT !.pap.ct = @ + 1, !.pap.tries = @ + 1, !.pap.c = "AUTHREQ"]
upap_authwithpeer(t) ==
  IF t.pap.c \in {"INITIAL", "PENDING"} THEN [t EXCEPT !.pap.c = "PENDING", !.pap.tries = 0]
  ELSE upap_sauthreq([t EXCEPT !.pap.tries = 0])
upap_listen(t) == [t EXCEPT !.pap.s = "LISTEN", !.pap.st = @ + 1]
upap_authpeer(t) ==
  IF t.pap.s \in {"INITIAL", "PENDING"} THEN [t EXCEPT !.pap.s = "PENDING"]
  ELSE upap_listen(t)
upap_lowerup(t) ==
  LET c == CASE t.pap.c = "INITIAL" -> [t EXCEPT !.pap.c = "CLOSED"]
             [] t.pap.c = "PENDING" -> upap_sauthreq(t)
             [] OTHER -> t
  IN CASE c.pap.s = "INITIAL" -> [c EXCEPT !.pap.s = "CLOSED"]
       [] c.pap.s = "PENDING" -> upap_listen(c)
       [] OTHER -> c

ChapSendChallenge(t) == [t EXCEPT !.chap.st = @ + 1, !.chap.tries = @ + 1]
\* ChapGenChallenge makes a new challenge: the count starts again.
ChapChallenge(t) ==
  [ChapSendChallenge([t EXCEPT !.chap.tries = 0]) EXCEPT !.chap.s = "INITIAL_CHAL"]
ChapAuthPeer(t) ==
  IF t.chap.s \in {"INITIAL", "PENDING"} THEN [t EXCEPT !.chap.s = "PENDING"]
  ELSE ChapChallenge(t)
ChapAuthWithPeer(t) ==
  [t EXCEPT !.chap.c = IF @ \in {"INITIAL", "PENDING"} THEN "PENDING" ELSE "LISTEN"]
ChapLowerUp(t) ==
  LET c == [t EXCEPT !.chap.c = CASE @ = "INITIAL" -> "CLOSED"
                                  [] @ = "PENDING" -> "LISTEN"
                                  [] OTHER -> @]
  IN CASE c.chap.s = "INITIAL" -> [c EXCEPT !.chap.s = "CLOSED"]
       [] c.chap.s = "PENDING" -> ChapChallenge(c)
       [] OTHER -> c
ChapSendResponse(t) == [t EXCEPT !.chap.c = "RESPONSE", !.chap.ct = @ + 1]

\* go: what this end asks of the peer, ho: what the peer asks of it.
link_established(t, go, ho) ==
  LET n == ChapLowerUp(upap_lowerup(t))
      r == [Ip(n, Fsm!fsm_lowerup(n.ip)) EXCEPT !.go = go, !.ho = ho, !.proved = {}]
      a == CASE go = "chap" -> ChapAuthPeer(r) [] go = "pap" -> upap_authpeer(r) [] OTHER -> r
      b == CASE ho = "chap" -> ChapAuthWithPeer(a) [] ho = "pap" -> upap_authwithpeer(a)
             [] OTHER -> a
      pending == (IF go # "none" THEN {<<"peer", go>>} ELSE {})
                   \cup (IF ho # "none" THEN {<<"us", ho>>} ELSE {})
      e == [b EXCEPT !.phase = "AUTHENTICATE", !.pending = pending]
  IN IF AuthRequired /\ go = "none" THEN lcp_close(r)
     ELSE IF pending = {} THEN network_phase(e) ELSE e

NoPap == [c |-> "INITIAL", s |-> "INITIAL", tries |-> 0, ct |-> 0, st |-> 0]
Ipcp0 == [state |-> "INITIAL", id |-> 0, reqid |-> 0, seen |-> FALSE, rexmit |-> 0,
          naks |-> 0, timer |-> 0, out |-> <<>>, shut |-> FALSE, flags |-> {},
          verdict |-> "CONFACK", bad |-> FALSE, ups |-> 0, net |-> FALSE, fin |-> FALSE]

LinkInit ==
  link = [lcp |-> "off", phase |-> "DEAD", go |-> "none", ho |-> "none", pending |-> {},
       proved |-> {}, pap |-> NoPap, chap |-> NoPap, ip |-> Ipcp0, open |-> 0,
       sessions |-> 0]

Become(t) ==
  /\ \A p \in {t.pap, t.chap} : p.ct <= MaxTimers /\ p.st <= MaxTimers
  /\ t.ip.timer <= MaxTimers
  /\ t.open <= MaxOpen
  /\ -t.ip.ups <= MaxOpen
  /\ link' = [t EXCEPT !.ip.verdict = "CONFACK", !.ip.bad = FALSE]

\* pppStartCB: LCP starts to negotiate.
Start == link.lcp = "off" /\ Become([link EXCEPT !.lcp = "busy", !.phase = "ESTABLISH"])
\* lcp_up
LcpUp(go, ho) ==
  /\ link.lcp = "busy"
  /\ link.sessions < MaxSessions
  /\ Become(link_established([link EXCEPT !.lcp = "opened", !.sessions = @ + 1], go, ho))
\* lcp_down, when the peer negotiates again
LcpDown == link.lcp = "opened" /\ Become([link_down(link) EXCEPT !.lcp = "busy"])
\* link_terminated: LCP has closed, or given up negotiating.
LcpFinished ==
  /\ link.lcp \in {"busy", "closing"}
  /\ Become([link EXCEPT !.lcp = "off", !.phase = "DEAD"])
\* pppStopCB
Stop == link.lcp \in {"busy", "opened"} /\ Become(lcp_close(link))
\* pppHupCB: lcp_lowerdown and link_terminated
Hup ==
  /\ link.lcp # "off"
  /\ LET d == IF link.lcp = "opened" THEN link_down(link) ELSE link
     IN Become([d EXCEPT !.lcp = "off", !.phase = "DEAD"])

\* pppInput: what is tossed until authentication is over
Passes(proto) ==
  ~(/\ link.phase \in {"DEAD", "ESTABLISH", "AUTHENTICATE"}
    /\ ~(proto \in {"pap", "chap"} /\ link.phase = "AUTHENTICATE"))

\* upap_rauthreq: the password is right or wrong.
PapRequest(good) ==
  /\ Passes("pap")
  /\ link.pap.s = "LISTEN"
  /\ LET t == IF good THEN auth_success([link EXCEPT !.pap.s = "OPEN"], <<"peer", "pap">>)
              ELSE auth_peer_fail([link EXCEPT !.pap.s = "BADAUTH"])
     IN Become([t EXCEPT !.pap.st = Cancel(@)])
\* upap_rauthack and upap_rauthnak
PapAnswer(ack) ==
  /\ Passes("pap")
  /\ link.pap.c = "AUTHREQ"
  /\ Become(IF ack THEN auth_success([link EXCEPT !.pap.c = "OPEN"], <<"us", "pap">>)
            ELSE auth_withpeer_fail([link EXCEPT !.pap.c = "BADAUTH"]))
upap_timeout ==
  /\ link.pap.ct > 0
  /\ LET t == [link EXCEPT !.pap.ct = @ - 1] IN
     Become(CASE t.pap.c # "AUTHREQ" -> t
              [] t.pap.c = "AUTHREQ" /\ t.pap.tries >= Transmits ->
                   auth_withpeer_fail([t EXCEPT !.pap.c = "BADAUTH"])
              [] OTHER -> upap_sauthreq(t))
upap_reqtimeout ==
  /\ link.pap.st > 0
  /\ LET t == [link EXCEPT !.pap.st = @ - 1] IN
     Become(IF t.pap.s # "LISTEN" THEN t
            ELSE [auth_peer_fail(t) EXCEPT !.pap.s = "BADAUTH"])

ChapReceiveChallenge ==
  /\ Passes("chap")
  /\ link.chap.c \notin {"CLOSED", "PENDING"}
  /\ Become(ChapSendResponse([link EXCEPT !.chap.ct = IF link.chap.c = "RESPONSE" THEN Cancel(@) ELSE @]))
\* A response to the last challenge; to one in state OPEN or BADAUTH the
\* status is only sent again.
ChapReceiveResponse(good) ==
  /\ Passes("chap")
  /\ link.chap.s \in {"INITIAL", "INITIAL_CHAL"}
  /\ LET t == [link EXCEPT !.chap.st = Cancel(@)] IN
     Become(CASE ~good -> auth_peer_fail([t EXCEPT !.chap.s = "BADAUTH"])
              [] good /\ t.chap.s = "INITIAL_CHAL" ->
                   auth_success([t EXCEPT !.chap.s = "OPEN"], <<"peer", "chap">>)
              [] OTHER -> [t EXCEPT !.chap.s = "OPEN"])
\* ChapReceiveSuccess and ChapReceiveFailure
ChapStatus(success) ==
  /\ Passes("chap")
  /\ link.chap.c = "RESPONSE"
  /\ LET t == [link EXCEPT !.chap.ct = Cancel(@)] IN
     Become(IF success THEN auth_success([t EXCEPT !.chap.c = "OPEN"], <<"us", "chap">>)
            ELSE auth_withpeer_fail(t))
ChapChallengeTimeout ==
  /\ link.chap.st > 0
  /\ LET t == [link EXCEPT !.chap.st = @ - 1] IN
     Become(CASE t.chap.s # "INITIAL_CHAL" -> t
              [] t.chap.s = "INITIAL_CHAL" /\ t.chap.tries >= Transmits ->
                   auth_peer_fail([t EXCEPT !.chap.s = "BADAUTH"])
              [] OTHER -> ChapSendChallenge(t))
ChapResponseTimeout ==
  /\ link.chap.ct > 0
  /\ LET t == [link EXCEPT !.chap.ct = @ - 1] IN
     Become(IF t.chap.c = "RESPONSE" THEN ChapSendResponse(t) ELSE t)

Codes == {"CONFREQ", "CONFACK", "CONFNAK", "TERMREQ", "TERMACK", "CODEREJ"}
ipcp_input(code, verdict, bad) ==
  /\ Passes("ip")
  /\ Become(Ip(link, Fsm!fsm_input([link.ip EXCEPT !.verdict = verdict, !.bad = bad],
                                [code |-> code, id |-> 0, cis |-> NoCis])))
ipcp_timeout == link.ip.timer > 0 /\ Become(Ip(link, Fsm!fsm_timeout(link.ip)))

\* lcp_rprotrej: the peer does not speak a protocol.
Rejected(proto) ==
  /\ link.lcp = "opened"
  /\ Become(CASE proto = "pap" ->
                   LET a == IF link.pap.c = "AUTHREQ" THEN auth_withpeer_fail(link) ELSE link
                       b == IF link.pap.s = "LISTEN" THEN auth_peer_fail(a) ELSE a
                   IN upap_lowerdown(b)
              [] proto = "chap" ->
                   ChapLowerDown(IF link.chap.s \notin {"INITIAL", "CLOSED"} THEN auth_peer_fail(link)
                                 ELSE link)
              [] proto = "ip" -> Ip(link, Fsm!fsm_lowerdown(link.ip)))

LinkNext ==
  \/ Start
  \/ \E a \in Asks : LcpUp(a[1], a[2])
  \/ LcpDown
  \/ LcpFinished
  \/ Stop
  \/ Hup
  \/ \E b \in BOOLEAN : PapRequest(b) \/ PapAnswer(b) \/ ChapReceiveResponse(b) \/ ChapStatus(b)
  \/ upap_timeout
  \/ upap_reqtimeout
  \/ ChapReceiveChallenge
  \/ ChapChallengeTimeout
  \/ ChapResponseTimeout
  \/ \E c \in Codes, v \in {"CONFACK", "CONFREJ"}, b \in BOOLEAN : ipcp_input(c, v, b)
  \/ ipcp_timeout
  \/ \E p \in {"pap", "chap", "ip"} : Rejected(p)

LinkSpec == LinkInit /\ [][LinkNext]_linkVars

\* The phases of the link.
LinkTypeOK ==
  /\ link.lcp \in {"off", "busy", "opened", "closing"}
  /\ link.phase \in {"DEAD", "ESTABLISH", "AUTHENTICATE", "NETWORK", "TERMINATE"}
  /\ link.sessions \in 0..MaxSessions

\* The proofs link_established asked for, of either side.
Demanded(t) ==
  (IF t.go # "none" THEN {<<"peer", t.go>>} ELSE {})
    \cup (IF t.ho # "none" THEN {<<"us", t.ho>>} ELSE {})

\* On an opened link every proof asked for is awaited or
\* has been given, and the network phase begins with none awaited
\* (link_established, network_phase).
Agreed(t) ==
  t.lcp = "opened" =>
    /\ t.phase \in {"AUTHENTICATE", "NETWORK"}
    /\ Demanded(t) \subseteq t.pending \cup t.proved
    /\ AuthRequired => t.go # "none"
    /\ t.phase = "NETWORK" => Demanded(t) \subseteq t.proved

\* The interface is up only on an opened link in its network phase, and only
\* when all the authentication that was agreed on in this session has
\* succeeded (link_established, auth_peer_success, auth_withpeer_success).
NetAuthenticated ==
  link.ip.net =>
    /\ link.lcp = "opened" /\ link.phase = "NETWORK"
    /\ Demanded(link) \subseteq link.proved
    /\ AuthRequired => link.go # "none"

\* A link that is down has nothing running above it (link_down).
OffIsQuiet ==
  link.lcp # "opened" => link.ip.state \in {"INITIAL", "STARTING"} /\ ~link.ip.net
=============================================================================
