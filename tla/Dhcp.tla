-------------------------------- MODULE Dhcp --------------------------------
(***************************************************************************)
(* The DHCP client of lwIP (dhcp.c) on one interface.  Servers answer      *)
(* anything at any time: offers, acknowledgements and refusals are late,   *)
(* lost or repeated; memory may be short at every allocation.              *)
(***************************************************************************)
EXTENDS Integers, FiniteSetsExt

CONSTANTS DHCP_FINE_TIMER_MSECS, DHCP_COARSE_TIMER_SECS,
          U8, U16,               \* the ranges of tries and of the lease timers
          INFINITE,              \* the lease time that never ends
          Addrs,                 \* addresses offered
          Options                \* the option fields servers send with an ACK

VARIABLES dhcp,                  \* netif->dhcp
          netif,
          hist                   \* history: see HistInit

dhcpVars == <<dhcp, netif, hist>>

\* The ranges of the counters, and the lease times servers send, are numbers.
ASSUME DhcpAssumption ==
  /\ {DHCP_FINE_TIMER_MSECS, DHCP_COARSE_TIMER_SECS, U8} \subseteq Nat \ {0}
  /\ U16 \in Nat \ {0, 1}
  /\ \A f \in Options : \A g \in {f.options, f.file, f.sname} :
       \A o \in DOMAIN g \cap {"lease", "t1", "t2"} : g[o] \in Nat

ANY == "any"
none == "none"
Leased == {"BOUND", "RENEWING", "REBINDING"}
Cleared == [on |-> "yes", state |-> "INIT", tries |-> 0, request_timeout |-> 0, t1 |-> 0, t2 |-> 0,
            server |-> ANY, offered |-> ANY, mask |-> none, gw |-> none,
            t0_lease |-> 0, t1_renew |-> 0, t2_rebind |-> 0]

\* stale: the address was left by dhcp_start or dhcp_stop; claimed: another host
\* answered for the address when it was checked; early: the lease was renewed
\* before there was one; unnamed: the last offer did not name its server.
HistInit == [stale |-> FALSE, claimed |-> {}, early |-> FALSE, unnamed |-> FALSE]

DhcpInit ==
  /\ dhcp = [Cleared EXCEPT !.on = "no"]
  /\ netif = [ip |-> ANY, mask |-> none, gw |-> none, up |-> FALSE]
  /\ hist = HistInit

\* The functions below take and return the state d: the client c, the
\* interface n.
State == [c |-> dhcp, n |-> netif]
Becomes(d) == dhcp' = d.c /\ netif' = d.n

dhcp_set_state(d, new) ==
  IF new = d.c.state THEN d ELSE [d EXCEPT !.c = [@ EXCEPT !.state = new, !.tries = 0]]

Later(d, msecs) ==
  [d EXCEPT !.c.request_timeout = (msecs + DHCP_FINE_TIMER_MSECS - 1) \div DHCP_FINE_TIMER_MSECS]
Tried(d) == [d EXCEPT !.c.tries = (@ + 1) % U8]
Backoff(d, limit, unit, most) == IF d.c.tries < limit THEN d.c.tries * unit ELSE most
TryAgain(d, limit, unit, most) ==
  LET e == Tried(d) IN Later(e, Backoff(e, limit, unit, most))

netif_set_addr(d, ip, mask, gw) ==
  [d EXCEPT !.n = [@ EXCEPT !.ip = ip, !.mask = mask, !.gw = gw]]
netif_set_down(d) == [d EXCEPT !.n.up = FALSE]

\* mem tells whether there is memory for the request, where it matters: without it
\* the message is not sent.
dhcp_discover(d, mem) ==
  LET e == [d EXCEPT !.c.offered = ANY]
      f == Tried(IF mem THEN dhcp_set_state(e, "SELECTING") ELSE e)
  IN  Later(f, IF f.c.tries < 4 THEN (f.c.tries + 1) * 1000 ELSE 10000)

dhcp_select(d, mem) ==
  TryAgain(IF mem THEN dhcp_set_state(d, "REQUESTING") ELSE d, 4, 1000, 4000)

dhcp_renew(d) == TryAgain(dhcp_set_state(d, "RENEWING"), 10, 2000, 20000)

dhcp_rebind(d) == TryAgain(dhcp_set_state(d, "REBINDING"), 10, 1000, 10000)

dhcp_release(d) ==
  LET e == dhcp_set_state(d, "OFF")
      f == [e EXCEPT !.c = [@ EXCEPT !.server = ANY, !.offered = ANY, !.mask = none, !.gw = none,
                                     !.t0_lease = 0, !.t1_renew = 0, !.t2_rebind = 0]]
  IN  netif_set_addr(netif_set_down(TryAgain(f, 10, 1000, 10000)), ANY, none, none)

\* The ARP query changes nothing here.
dhcp_check(d) == dhcp_set_state(Later(Tried(d), 500), "CHECKING")

Timer(secs, old) ==
  LET ticks == (secs + DHCP_COARSE_TIMER_SECS \div 2) \div DHCP_COARSE_TIMER_SECS
  IN  IF secs = INFINITE THEN old
      ELSE IF ticks >= U16 THEN U16 - 1 ELSE IF ticks = 0 THEN 1 ELSE ticks

\* The mask is chosen by the first octet of the mask that was not given.
dhcp_bind(d) ==
  LET c == d.c
      e == [d EXCEPT !.c.t1 = Timer(c.t1_renew, @), !.c.t2 = Timer(c.t2_rebind, @), !.n.up = TRUE]
      mask == IF c.mask = none THEN "A" ELSE c.mask
      gw == IF c.gw = none THEN "first" ELSE c.gw
  IN  dhcp_set_state(netif_set_addr(e, c.offered, mask, gw), "BOUND")

dhcp_decline(d) == Later(Tried(dhcp_set_state(d, "BACKING_OFF")), 10000)
-----------------------------------------------------------------------------
\* An option of a message m: in the options field or, where that says so
\* (overload), in the file or the sname field; of both the second is not reached,
\* as the first ends with an END option.  Servers do not pad between options.
Fields(m) ==
  CASE m.overload = "none" -> <<m.options>>
    [] m.overload = "file" -> <<m.options, m.file>>
    [] OTHER -> <<m.options, m.sname>>
Holding(m, o) == {k \in DOMAIN Fields(m) : o \in DOMAIN Fields(m)[k]}
dhcp_get_option_ptr(m, o, else) ==
  IF Holding(m, o) = {} THEN else ELSE Fields(m)[Min(Holding(m, o))][o]

dhcp_handle_ack(d, m) ==
  LET t0 == dhcp_get_option_ptr(m, "lease", d.c.t0_lease)
  IN  [d EXCEPT !.c = [@ EXCEPT
         !.t0_lease = t0,
         !.t1_renew = dhcp_get_option_ptr(m, "t1", t0 \div 2),
         !.t2_rebind = dhcp_get_option_ptr(m, "t2", t0),
         !.offered = m.yiaddr,
         !.mask = dhcp_get_option_ptr(m, "mask", none),
         !.gw = dhcp_get_option_ptr(m, "router", none)]]

\* A slip that leaves the interface the address that was refused.
dhcp_handle_nakMutant(d, mem) ==
  dhcp_discover(dhcp_set_state(netif_set_down(d), "BACKING_OFF"), mem)

dhcp_handle_nak(d, mem) ==
  dhcp_discover(dhcp_set_state(netif_set_addr(netif_set_down(d), ANY, none, none), "BACKING_OFF"), mem)

\* An offer that does not name its server is not taken.
dhcp_handle_offer(d, m, mem) ==
  IF Holding(m, "server") = {} THEN d
  ELSE dhcp_select([d EXCEPT !.c = [@ EXCEPT !.server = dhcp_get_option_ptr(m, "server", ANY),
                                             !.offered = m.yiaddr]], mem)

Quiet(d) == [d EXCEPT !.c.request_timeout = 0]

\* The answer to a message; an ACK of a lease that is renewed is not read.
Answered(d, m, mem) ==
  LET type == dhcp_get_option_ptr(m, "type", none) IN
  CASE type = "ACK" /\ d.c.state = "REQUESTING" -> dhcp_check(Quiet(dhcp_handle_ack(d, m)))
    [] type = "ACK" /\ d.c.state \in {"REBINDING", "RENEWING"} -> dhcp_bind(Quiet(d))
    [] type = "NAK" /\ d.c.state \in {"REQUESTING", "REBINDING", "RENEWING"} ->
         dhcp_handle_nak(Quiet(d), mem)
    [] type = "OFFER" /\ d.c.state = "SELECTING" -> dhcp_handle_offer(Quiet(d), m, mem)
    [] OTHER -> d

Message(ip, f, type) ==
  [yiaddr |-> ip, overload |-> f.overload, file |-> f.file, sname |-> f.sname,
   options |-> [o \in {"type"} \cup DOMAIN f.options |->
                  IF o = "type" THEN type ELSE f.options[o]]]
Messages ==
  {Message(ip, f, type) : ip \in Addrs, f \in Options, type \in {"OFFER", "ACK", "NAK"}}

Traced ==
  LET checks == dhcp.state = "REQUESTING" /\ dhcp'.state = "CHECKING"
      early == dhcp.state = "REQUESTING" /\ dhcp'.state \in Leased
  IN  [hist EXCEPT !.stale = @ /\ netif'.ip = netif.ip /\ dhcp'.state # "BOUND",
                   !.claimed = IF checks THEN {} ELSE @,
                   !.early = (@ /\ ~checks) \/ early]

\* A message that answers our last request (op, chaddr, xid) and for which there
\* is memory; any other is dropped.
dhcp_recv(m) ==
  /\ dhcp.on = "yes"
  /\ \E mem \in BOOLEAN : Becomes(Answered(State, m, mem))
  /\ hist' = [Traced EXCEPT
       !.unnamed = IF dhcp.state = "SELECTING" /\ m.options["type"] = "OFFER"
                   THEN Holding(m, "server") = {} ELSE @]

\* An ARP reply of the host addr.
dhcp_arp_reply(addr) ==
  /\ dhcp.on = "yes" /\ dhcp.state = "CHECKING" /\ addr = dhcp.offered
  /\ Becomes(dhcp_decline(State))
  /\ hist' = [hist EXCEPT !.claimed = @ \cup {addr}]
-----------------------------------------------------------------------------
dhcp_timeout(d, mem) ==
  CASE d.c.state \in {"BACKING_OFF", "SELECTING"} -> dhcp_discover(d, mem)
    [] d.c.state = "REQUESTING" /\ d.c.tries <= 5 -> dhcp_select(d, mem)
    [] d.c.state = "REQUESTING" /\ d.c.tries > 5 -> dhcp_discover(dhcp_release(d), mem)
    [] d.c.state = "CHECKING" /\ d.c.tries <= 1 -> dhcp_check(d)
    [] d.c.state = "CHECKING" /\ d.c.tries > 1 -> dhcp_bind(d)
    [] d.c.state = "RENEWING" -> dhcp_renew(d)
    [] d.c.state = "REBINDING" /\ d.c.tries <= 8 -> dhcp_rebind(d)
    [] d.c.state = "REBINDING" /\ d.c.tries > 8 -> dhcp_discover(dhcp_release(d), mem)
    [] OTHER -> d

dhcp_fine_tmr ==
  /\ dhcp.on = "yes" /\ dhcp.request_timeout > 0
  /\ \E mem \in BOOLEAN :
       LET d == [State EXCEPT !.c.request_timeout = @ - 1]
       IN  Becomes(IF d.c.request_timeout = 0 THEN dhcp_timeout(d, mem) ELSE d)
  /\ hist' = Traced

Renewable(d) == d.c.state \in {"REQUESTING", "BOUND", "RENEWING"}
dhcp_t1_timeout(d) == IF Renewable(d) THEN dhcp_renew(d) ELSE d
dhcp_t2_timeout(d) == IF Renewable(d) THEN dhcp_rebind(d) ELSE d

\* The timers that are not running wrap around too.
dhcp_coarse_tmr ==
  /\ dhcp.on = "yes"
  /\ LET d == [State EXCEPT !.c.t2 = (@ + U16 - 1) % U16]
         e == [d EXCEPT !.c.t1 = (@ + U16 - 1) % U16]
     IN  Becomes(IF dhcp.t2 = 1 THEN dhcp_t2_timeout(d)
                 ELSE IF dhcp.t1 = 1 THEN dhcp_t1_timeout(e) ELSE e)
  /\ hist' = Traced
-----------------------------------------------------------------------------
\* The client may be attached already; it then starts afresh, with its address.
dhcp_start ==
  /\ dhcp.on # "freed"
  /\ \E memory, request \in BOOLEAN :
       IF ~memory THEN Becomes([State EXCEPT !.c = [Cleared EXCEPT !.on = "no"]])
       ELSE LET d == dhcp_discover([State EXCEPT !.c = Cleared], request)
            IN  Becomes(IF request THEN d ELSE [d EXCEPT !.c = [Cleared EXCEPT !.on = "no"]])
  /\ hist' = [HistInit EXCEPT !.stale = netif.ip # ANY]

\* The address stays.
dhcp_stop ==
  /\ dhcp.on = "yes"
  /\ Becomes([State EXCEPT !.c = [Cleared EXCEPT !.on = "no"]])
  /\ hist' = [HistInit EXCEPT !.stale = netif.ip # ANY]

\* The application ends or renews its lease.
Release ==
  /\ dhcp.on = "yes" /\ dhcp.state \in Leased
  /\ Becomes(dhcp_release(State))
  /\ hist' = Traced
Renew ==
  /\ dhcp.on = "yes" /\ dhcp.state = "BOUND"
  /\ Becomes(dhcp_renew(State))
  /\ hist' = Traced

\* A client of its own sends the message.  When there is no pcb for it the
\* interface is left with that client, which has been freed.
dhcp_inform ==
  /\ dhcp.on # "freed" /\ UNCHANGED hist
  /\ Becomes(State) \/ Becomes([State EXCEPT !.c = [Cleared EXCEPT !.on = "freed"]])

DhcpNext ==
  \/ \E m \in Messages : dhcp_recv(m)
  \/ \E addr \in Addrs : dhcp_arp_reply(addr)
  \/ dhcp_fine_tmr \/ dhcp_coarse_tmr
  \/ dhcp_start \/ dhcp_stop \/ Release \/ Renew \/ dhcp_inform
-----------------------------------------------------------------------------
\* What servers may give for option o
Given(o) ==
  {g[o] : g \in {h \in UNION {{f.options, f.file, f.sname} : f \in Options} : o \in DOMAIN h}}

States == {"INIT", "SELECTING", "REQUESTING", "CHECKING", "BACKING_OFF", "OFF"} \cup Leased

Client ==
  [on : {"yes", "no", "freed"},
   state : States, tries : 0 .. U8 - 1, request_timeout : Nat, t1 : 0 .. U16 - 1, t2 : 0 .. U16 - 1,
   server : {ANY} \cup Given("server"), offered : {ANY} \cup Addrs,
   mask : {none} \cup Given("mask"), gw : {none} \cup Given("router"),
   t0_lease : Nat, t1_renew : Nat, t2_rebind : Nat]

Interface ==
  [ip : {ANY} \cup Addrs, mask : {none, "A"} \cup Given("mask"),
   gw : {none, "first"} \cup Given("router"), up : BOOLEAN]

Hist == [stale : BOOLEAN, claimed : SUBSET Addrs, early : BOOLEAN, unnamed : BOOLEAN]

\* The client's counters stay within their widths, its times are numbers.
DhcpTypeOK ==
  /\ dhcp \in Client /\ netif \in Interface
  /\ hist \in Hist

DhcpSpec == DhcpInit /\ [][DhcpNext]_dhcpVars

\* The interface has an address only under a lease of it, and then is up; the
\* address of a host that answered for it is not taken (dhcp_check, dhcp_bind,
\* dhcp_handle_nak, dhcp_release).  A client that waits for an answer has its
\* timer running, one that has a lease that ends the renewal's (dhcp_recv clears
\* the timer, dhcp_timeout and the requests set it): it never waits for ever.
DhcpTrue ==
  dhcp.on = "yes" =>
    /\ netif.ip # ANY /\ ~hist.stale =>
         dhcp.state \in Leased /\ netif.ip = dhcp.offered /\ netif.up
    /\ dhcp.state = "BOUND" /\ ~hist.early => netif.ip \notin hist.claimed
    /\ dhcp.request_timeout = 0 => 
         dhcp.state \in {"BOUND", "OFF"} \/ hist.unnamed \/ dhcp.tries = 0
    /\ dhcp.state = "BOUND" /\ dhcp.t1_renew # INFINITE => dhcp.t1 > 0

\* What makes DhcpTrue last: a client that is attached has begun to ask; one that
\* is bound has the address of its own lease; and the address under check, or in
\* use since it was checked, is one that nobody has answered for (dhcp_start,
\* dhcp_bind, dhcp_arp_reply).
LeaseEarned ==
  dhcp.on = "yes" =>
    /\ dhcp.state # "INIT"
    /\ hist.stale => dhcp.state # "BOUND"
    /\ dhcp.state \in Leased \cup {"CHECKING"} /\ ~hist.early => hist.claimed = {}
    /\ dhcp.state = "CHECKING" => ~hist.early

=============================================================================
