---------------------------------- MODULE Ip ---------------------------------
(***************************************************************************)
(* lwIP between the interfaces and the transports: ip_input, reassembly    *)
(* and fragmentation (ip.c, ip_frag.c), the echo server and the errors     *)
(* (icmp.c), and the sockets below TCP (udp.c, raw.c).                     *)
(*                                                                         *)
(* An address is <<network, host>>.  A packet has the fields of its        *)
(* headers that are looked at; its contents are a sequence of octets.      *)
(* What the application may do or memory allow is a choice c.              *)
(***************************************************************************)
EXTENDS Integers, Sequences, FiniteSets, FiniteSetsExt, SequencesExt, TLC

CONSTANTS
  IP_HLEN, OCTETS,                  \* the unit of fragment offsets, 8 in the code
  IP_REASS_MAX_PBUFS, IP_REASS_MAXAGE, MEMP_NUM_REASSDATA,
  Datagrams, Mtus,                  \* what peers send, and what their way here lets through
  Packets,                          \* what else arrives
  UdpPcbs, RawPcbs, Ports, FIRST_PORT, LAST_PORT,
  OwnAddrs, Peers, Data, MaxHeld,
  InitialNetifs, NetifsChange,      \* the interfaces, and whether they change
  Choice                            \* [mem, room, eater, frags]: see where they are used

VARIABLES
  reass,   \* reassdatagrams, newest first, and ip_reass_pbufcount
  pcbs,    \* udp_pcbs, raw_pcbs and the control blocks in use
  netif,   \* netif_list
  bufs,    \* the pbufs of received packets: in use, and held by the transports
  seen     \* what the last step delivered, sent and returned

ipVars == <<reass, pcbs, netif, bufs, seen>>
S == [reass |-> reass, pcbs |-> pcbs, netif |-> netif, bufs |-> bufs, seen |-> seen]

ANY == <<0, 0>>
ALL == <<255, 255>>
HOSTS == 255
DHCP_CLIENT_PORT == 68
DHCP_SERVER_PORT == 67
ICMP_ECHO == 8
ICMP_ER == 0
ICMP_DUR == 3
ICMP_TE == 11
None == [src |-> ANY, dst |-> ANY, proto |-> "none", id |-> 0, off |-> 0, mf |-> FALSE, data |-> <<>>,
         sport |-> 0, dport |-> 0, type |-> 0, shape |-> "ok", opts |-> FALSE, clen |-> 1]
Nothing == [to |-> "none", pcb |-> 0, pkt |-> None, frags |-> <<>>, newest |-> 0, sent |-> <<>>, err |-> "ok",
            about |-> None, auto |-> FALSE]

ip_addr_isbroadcast(a, n) ==
  \/ a \in {ANY, ALL}
  \/ n.broadcast /\ a # n.ip /\ a[1] = n.ip[1] /\ a[2] = HOSTS
ip_addr_ismulticast(a) == a[1] = 224

Free(s, clen) == [s EXCEPT !.bufs.used = @ - clen]
Hand(s, to, pcb, p) == [s EXCEPT !.bufs.held = @ + p.clen, !.seen.to = to, !.seen.pcb = pcb, !.seen.pkt = p]
-----------------------------------------------------------------------------
(* Output.                                                                 *)
\* The k-th packet carries what is left from k blocks of the interface's MTU on.
ip_frag(p, mtu) ==
  LET nfb == (mtu - IP_HLEN) \div OCTETS
      left(k) == Len(p.data) - k * nfb * OCTETS
      last == Min({k \in 0 .. Len(p.data) : left(k) <= mtu - IP_HLEN})
  IN [i \in 1 .. last + 1 |->
        [p EXCEPT !.off = @ + (i - 1) * nfb, !.mf = @ \/ i <= last,
                  !.data = SubSeq(@, (i - 1) * nfb * OCTETS + 1, IF i > last THEN Len(@) ELSE i * nfb * OCTETS),
                  !.sport = IF i = 1 THEN @ ELSE -1, !.dport = IF i = 1 THEN @ ELSE -1]]

\* c.frags: how many header pbufs of fragments can be allocated.
ip_output_if(s, p, n, c) ==
  LET q == [p EXCEPT !.src = IF @ = ANY THEN s.netif[n].ip ELSE @]
      mtu == s.netif[n].mtu
      all == ip_frag(q, mtu)
  IN IF mtu # 0 /\ Len(q.data) + IP_HLEN > mtu
     THEN [s EXCEPT !.seen.sent = @ \o SubSeq(all, 1, IF c.frags < Len(all) THEN c.frags ELSE Len(all)),
                    !.seen.err = IF c.frags < Len(all) THEN "mem" ELSE "ok"]
     ELSE [s EXCEPT !.seen.sent = Append(@, q), !.seen.err = "ok"]

\* 0: no route.  The first interface is the default one.
ip_route(s, dst) ==
  LET on == {n \in DOMAIN s.netif : s.netif[n].up /\ s.netif[n].ip[1] = dst[1]}
  IN IF on # {} THEN Min(on) ELSE IF s.netif[1].up THEN 1 ELSE 0
ip_output(s, p, c) ==
  IF ip_route(s, p.dst) = 0 THEN [s EXCEPT !.seen.err = "rte"]
  ELSE ip_output_if(s, p, ip_route(s, p.dst), c)

IcmpError(s, about, type, c) ==
  IF ~c.mem THEN s
  ELSE ip_output([s EXCEPT !.seen.about = about], [None EXCEPT !.proto = "icmp", !.type = type, !.dst = about.src], c)
icmp_dest_unreach(s, p, c) == IcmpError(s, p, ICMP_DUR, c)
icmp_time_exceeded(s, p, c) == IcmpError(s, p, ICMP_TE, c)
-----------------------------------------------------------------------------
(* Reassembly.  i, prev: places in reassdatagrams.                         *)
Key(h) == <<h.src, h.dst, h.id>>
Clens(p) == FoldLeft(LAMBDA n, g : n + g.clen, 0, p)

\* The datagram before the one that leaves is linked to the one behind it.
ip_reass_dequeue_datagram(s, i, prev) ==
  LET l == s.reass.list
  IN IF i = 1 THEN [s EXCEPT !.reass.list = Tail(l)]
     ELSE [s EXCEPT !.reass.list = SubSeq(l, 1, prev) \o SubSeq(l, i + 1, Len(l)), !.reass.torn = @ \/ prev = i]

ip_reass_free_complete_datagram(s, i, prev, c) ==
  LET e == s.reass.list[i]
      told == IF e.p[1].start = 0 THEN icmp_time_exceeded(s, e.hdr, c) ELSE s
      freed == ip_reass_dequeue_datagram(Free(told, Clens(e.p)), i, prev)
  IN [freed EXCEPT !.reass.count = @ - Clens(e.p)]

RECURSIVE ReassTmr(_, _, _)
ReassTmr(s, i, c) ==
  IF i > Len(s.reass.list) THEN s
  ELSE IF s.reass.list[i].timer > 0 THEN ReassTmr([s EXCEPT !.reass.list[i].timer = @ - 1], i + 1, c)
  ELSE ReassTmr(ip_reass_free_complete_datagram(s, i, i - 1, c), i, c)
ip_reass_tmr(s, c) == ReassTmr(s, 1, c)

\* prev ends up before the last datagram, whichever is the oldest.
Others(l, key) == {i \in DOMAIN l : Key(l[i].hdr) # key}
Oldest(l, set) == Max({i \in set : \A k \in set : l[i].timer <= l[k].timer})
RECURSIVE RemoveOldest(_, _, _, _, _), Removed(_, _, _, _, _, _)
RemoveOldest(s, key, needed, freed, c) ==
  LET l == s.reass.list
      oldest == Oldest(l, Others(l, key))
  IN IF Others(l, key) = {} THEN [s |-> s, freed |-> freed]
     ELSE Removed(ip_reass_free_complete_datagram(s, oldest, Len(l) - 1, c), key, needed,
                  freed + Clens(l[oldest].p), Cardinality(Others(l, key)) > 1, c)
Removed(s, key, needed, freed, more, c) ==
  IF freed < needed /\ more /\ ~s.reass.torn THEN RemoveOldest(s, key, needed, freed, c)
  ELSE [s |-> s, freed |-> freed]
ip_reass_remove_oldest_datagram(s, key, needed, c) == RemoveOldest(s, key, needed, 0, c)

\* Puts a fragment in its place, and tells whether all are there.
ip_reass_chain_frag_into_datagram_and_validate(e, new) ==
  LET q == e.p
      before == {k \in DOMAIN q : q[k].start < new.start}
      at == Cardinality(before) + 1
      behind == at > Len(q)
      overlaps == \/ \E k \in before : new.start < q[k].end
                  \/ ~behind /\ q[at].start = new.start
                  \/ ~behind /\ at > 1 /\ new.end > q[at].start
      list == SubSeq(q, 1, at - 1) \o <<new>> \o SubSeq(q, at, Len(q))
      gap(k) == list[k].end # list[k + 1].start
      holes == {k \in 1 .. Len(list) - 1 : gap(k) /\ (k # at - 1 \/ behind)}
  IN IF overlaps THEN [kept |-> FALSE, p |-> q, valid |-> FALSE]
     ELSE [kept |-> TRUE, p |-> list, valid |-> e.last /\ list[1].start = 0 /\ holes = {}]

Fragment(p) == [start |-> p.off * OCTETS, end |-> p.off * OCTETS + Len(p.data), data |-> p.data, clen |-> p.clen]

\* The packet that is complete now, if it is.
Chained(s, i, p, r) ==
  LET whole == [s.reass.list[i].hdr EXCEPT !.off = 0, !.mf = FALSE, !.clen = Clens(r.p),
                                           !.data = FlattenSeq([k \in DOMAIN r.p |-> r.p[k].data])]
      done == ip_reass_dequeue_datagram(s, i, i - 1)
  IN IF ~r.kept THEN [s |-> Free([s EXCEPT !.reass.count = @ - p.clen], p.clen), p |-> <<>>]
     ELSE IF r.valid
     THEN [s |-> [done EXCEPT !.reass.count = @ - Clens(r.p), !.seen.frags = [k \in DOMAIN r.p |-> <<r.p[k].start, r.p[k].end>>],
                              !.seen.newest = Fragment(p).start],
           p |-> <<whole>>]
     ELSE [s |-> [s EXCEPT !.reass.list[i].p = r.p], p |-> <<>>]
Chain(s, i, p) ==
  Chained(s, i, p, ip_reass_chain_frag_into_datagram_and_validate(s.reass.list[i], Fragment(p)))

\* A slip that keeps the header of the fragment that came first.
IntoMutant(s, i, p) ==
  LET e == s.reass.list[i]
      upd == [e EXCEPT !.last = @ \/ ~p.mf, !.len = IF p.mf THEN @ ELSE Fragment(p).end]
  IN Chain([s EXCEPT !.reass.list[i] = upd, !.reass.count = @ + p.clen], i, p)
Into(s, i, p) ==
  LET e == s.reass.list[i]
      hdr == IF p.off = 0 /\ e.hdr.off # 0 THEN p ELSE e.hdr
      upd == [e EXCEPT !.hdr = hdr, !.last = @ \/ ~p.mf, !.len = IF p.mf THEN @ ELSE Fragment(p).end]
  IN Chain([s EXCEPT !.reass.list[i] = upd, !.reass.count = @ + p.clen], i, p)

\* r: the state and how many pbufs have been freed for the new datagram.
Enqueue(r, p) ==
  LET e == [hdr |-> p, p |-> <<>>, last |-> FALSE, len |-> 0, timer |-> IP_REASS_MAXAGE]
  IN IF r.freed < p.clen THEN [s |-> r.s, ok |-> FALSE]
     ELSE [s |-> [r.s EXCEPT !.reass.list = <<e>> \o @], ok |-> TRUE]
ip_reass_enqueue_new_datagram(s, p, c) ==
  Enqueue(IF Len(s.reass.list) >= MEMP_NUM_REASSDATA THEN ip_reass_remove_oldest_datagram(s, Key(p), p.clen, c)
          ELSE [s |-> s, freed |-> p.clen], p)

Dropped(s, p) == [s |-> Free(s, p.clen), p |-> <<>>]
IntoNew(new, p) == IF new.ok /\ ~new.s.reass.torn THEN Into(new.s, 1, p) ELSE Dropped(new.s, p)

\* r: the state and how many pbufs have been freed, if any had to be.
Reass(r, much, p, c) ==
  LET l == r.s.reass.list
      hits == {i \in DOMAIN l : Key(l[i].hdr) = Key(p)}
  IN IF r.s.reass.torn THEN [s |-> r.s, p |-> <<>>]
     ELSE IF much /\ (r.freed = 0 \/ r.s.reass.count + p.clen > IP_REASS_MAX_PBUFS) THEN Dropped(r.s, p)
     ELSE IF hits # {} THEN Into(r.s, Min(hits), p)
     ELSE IntoNew(ip_reass_enqueue_new_datagram(r.s, p, c), p)
ip_reass(s, p, c) ==
  LET much == s.reass.count + p.clen > IP_REASS_MAX_PBUFS
  IN IF p.opts THEN Dropped(s, p)
     ELSE Reass(IF much THEN ip_reass_remove_oldest_datagram(s, Key(p), p.clen, c)
                ELSE [s |-> s, freed |-> 0], much, p, c)
-----------------------------------------------------------------------------
(* ICMP.                                                                   *)
\* c.room: the pbuf has room for all headers, for UDP's or for none; c.mem: others can be had.
icmp_input(s, p, inp, c) ==
  LET n == s.netif[inp]
      reply == [p EXCEPT !.src = p.dst, !.dst = p.src, !.type = ICMP_ER]
  IN IF \/ p.shape \in {"short", "sum"} \/ p.type # ICMP_ECHO
        \/ ip_addr_isbroadcast(p.dst, n) \/ ip_addr_ismulticast(p.dst)
        \/ c.room # "all" /\ ~c.mem
     THEN Free(s, p.clen)
     ELSE Free(ip_output_if(s, reply, inp, c), p.clen)
-----------------------------------------------------------------------------
(* UDP.                                                                    *)
Udp0 == [ip |-> ANY, port |-> 0, rip |-> ANY, rport |-> 0, connected |-> FALSE, recv |-> FALSE]
ToFront(l, i) == <<i>> \o SelectSeq(l, LAMBDA k : k # i)
Place(l, P(_)) == {k \in DOMAIN l : P(l[k])}

udp_match(s, p, inp) ==
  LET l == s.pcbs.udp
      of(i) == s.pcbs.of[i]
      local(i) == /\ of(i).port = p.dport
                  /\ of(i).ip \in {ANY, p.dst} \/ ip_addr_isbroadcast(p.dst, s.netif[inp])
      full == Place(l, LAMBDA i : local(i) /\ of(i).rport = p.sport /\ of(i).rip \in {ANY, p.src})
      uncon == Place(l, LAMBDA i : local(i) /\ ~of(i).connected)
      dhcp == /\ p.sport = DHCP_SERVER_PORT /\ s.netif[inp].dhcp
  IN IF p.dport = DHCP_CLIENT_PORT THEN [s |-> s, pcb |-> IF dhcp THEN -1 ELSE 0]
     ELSE IF full # {} THEN [s |-> [s EXCEPT !.pcbs.udp = ToFront(l, l[Min(full)])], pcb |-> l[Min(full)]]
     ELSE [s |-> s, pcb |-> IF uncon = {} THEN 0 ELSE l[Min(uncon)]]

\* m: the control block the datagram is for, 0 for none and -1 for DHCP's.
UdpMatched(m, p, inp, c) ==
  LET n == m.s.netif[inp]
  IN IF (m.pcb = 0 /\ n.ip # p.dst) \/ p.shape = "sum" THEN Free(m.s, p.clen)
     ELSE IF m.pcb = -1 THEN Hand(m.s, "dhcp", 0, p)
     ELSE IF m.pcb # 0
     THEN IF m.s.pcbs.of[m.pcb].recv THEN Hand(m.s, "udp", m.pcb, p) ELSE Free(m.s, p.clen)
     ELSE IF ip_addr_isbroadcast(p.dst, n) \/ ip_addr_ismulticast(p.dst) THEN Free(m.s, p.clen)
     ELSE Free(icmp_dest_unreach(m.s, p, c), p.clen)
udp_input(s, p, inp, c) ==
  IF p.shape = "short" THEN Free(s, p.clen) ELSE UdpMatched(udp_match(s, p, inp), p, inp, c)

\* The lowest port of the range that no control block has, but never the last one.
udp_bind(s, i, ip, port) ==
  LET l == s.pcbs.udp
      free == {n \in FIRST_PORT .. LAST_PORT : \A k \in DOMAIN l : s.pcbs.of[l[k]].port # n}
      chosen == IF l = <<>> THEN FIRST_PORT ELSE Min(free \cup {LAST_PORT})
      none == port = 0 /\ l # <<>> /\ chosen = LAST_PORT
      t == [s EXCEPT !.pcbs.of[i].ip = ip]
  IN IF none THEN [t EXCEPT !.seen.err = "use"]
     ELSE [t EXCEPT !.pcbs.of[i].port = IF port = 0 THEN chosen ELSE port, !.seen.auto = port = 0, !.seen.pcb = i,
                    !.pcbs.udp = IF \E k \in DOMAIN l : l[k] = i THEN l ELSE <<i>> \o l, !.seen.err = "ok"]

\* Control blocks without a port get one before they are used.
Bound(s, i) == IF s.pcbs.of[i].port = 0 THEN udp_bind(s, i, s.pcbs.of[i].ip, 0) ELSE s

ConnectBound(t, i, ip, port) ==
  LET l == t.pcbs.udp
  IN IF t.seen.err # "ok" THEN t
     ELSE [t EXCEPT !.pcbs.of[i].rip = ip, !.pcbs.of[i].rport = port, !.pcbs.of[i].connected = TRUE,
                    !.pcbs.udp = IF \E k \in DOMAIN l : l[k] = i THEN l ELSE <<i>> \o l]
udp_connect(s, i, ip, port) == ConnectBound(Bound(s, i), i, ip, port)
udp_disconnect(s, i) ==
  [s EXCEPT !.pcbs.of[i].rip = ANY, !.pcbs.of[i].rport = 0, !.pcbs.of[i].connected = FALSE]
udp_recv(s, i) == [s EXCEPT !.pcbs.of[i].recv = TRUE]
Without(fn, x) == [y \in DOMAIN fn \ {x} |-> fn[y]]
udp_remove(s, i) == [s EXCEPT !.pcbs.udp = SelectSeq(@, LAMBDA k : k # i), !.pcbs.of = Without(@, i)]
udp_new(s, i) == [s EXCEPT !.pcbs.of = @ @@ (i :> Udp0)]

SendBound(t, i, dst, port, data, n, c) ==
  LET u == t.pcbs.of[i]
      own == t.netif[n].ip
      p == [None EXCEPT !.proto = "udp", !.src = IF u.ip = ANY THEN own ELSE u.ip, !.dst = dst, !.sport = u.port,
                        !.dport = port, !.data = data]
  IN IF t.seen.err # "ok" THEN t
     ELSE IF c.room = "none" /\ ~c.mem THEN [t EXCEPT !.seen.err = "mem"]
     ELSE IF u.ip \notin {ANY, own} THEN [t EXCEPT !.seen.err = "val"]
     ELSE IF c.room = "udp" THEN [t EXCEPT !.seen.err = "buf"]
     ELSE ip_output_if(t, p, n, c)
udp_sendto_if(s, i, dst, port, data, n, c) == SendBound(Bound(s, i), i, dst, port, data, n, c)
udp_sendto(s, i, dst, port, data, c) ==
  IF ip_route(s, dst) = 0 THEN [s EXCEPT !.seen.err = "rte"]
  ELSE udp_sendto_if(s, i, dst, port, data, ip_route(s, dst), c)
udp_send(s, i, data, c) == udp_sendto(s, i, s.pcbs.of[i].rip, s.pcbs.of[i].rport, data, c)
-----------------------------------------------------------------------------
(* Raw sockets.                                                            *)
raw_new(s, i, proto) ==
  [s EXCEPT !.pcbs.of = @ @@ (i :> [proto |-> proto, ip |-> ANY, rip |-> ANY, recv |-> FALSE]),
            !.pcbs.raw = <<i>> \o @]
raw_bind(s, i, ip) == [s EXCEPT !.pcbs.of[i].ip = ip]
raw_connect(s, i, ip) == [s EXCEPT !.pcbs.of[i].rip = ip]
raw_recv(s, i) == [s EXCEPT !.pcbs.of[i].recv = TRUE]
raw_remove(s, i) == [s EXCEPT !.pcbs.raw = SelectSeq(@, LAMBDA k : k # i), !.pcbs.of = Without(@, i)]

raw_sendto(s, i, dst, data, c) ==
  LET u == s.pcbs.of[i]
      n == ip_route(s, dst)
  IN IF c.room # "all" /\ ~c.mem THEN [s EXCEPT !.seen.err = "mem"]
     ELSE IF n = 0 THEN [s EXCEPT !.seen.err = "rte"]
     ELSE ip_output_if(s, [None EXCEPT !.proto = u.proto, !.src = u.ip, !.dst = dst, !.data = data], n, c)
raw_send(s, i, data, c) == raw_sendto(s, i, s.pcbs.of[i].rip, data, c)

\* Those the packet is offered to; c.eater is the first that takes it.
raw_offered(s, p) == SelectSeq(s.pcbs.raw, LAMBDA i : s.pcbs.of[i].proto = p.proto /\ s.pcbs.of[i].recv)
raw_input(s, p, c) ==
  IF c.eater \in ToSet(raw_offered(s, p))
  THEN [s |-> Hand([s EXCEPT !.pcbs.raw = ToFront(@, c.eater)], "raw", c.eater, p), eaten |-> TRUE]
  ELSE [s |-> s, eaten |-> FALSE]
-----------------------------------------------------------------------------
(* Input.                                                                  *)
Protocol(s, p, inp, c) ==
  CASE p.proto = "udp" -> udp_input(s, p, inp, c)
    [] p.proto = "tcp" -> Hand(s, "tcp", 0, p)
    [] p.proto = "icmp" -> icmp_input(s, p, inp, c)
    [] OTHER -> Free(IF ip_addr_isbroadcast(p.dst, s.netif[inp]) \/ ip_addr_ismulticast(p.dst) THEN s
                     ELSE icmp_dest_unreach(s, p, c), p.clen)
AfterRaw(r, p, inp, c) == IF r.eaten THEN r.s ELSE Protocol(r.s, p, inp, c)
Upper(s, p, inp, c) == AfterRaw(raw_input(s, p, c), p, inp, c)
\* r: the state and the packet that reassembly completed, if any.
Reassembled(r, inp, c) == IF r.p = <<>> THEN r.s ELSE Upper(r.s, r.p[1], inp, c)

ip_input(s, p, inp, c) ==
  LET ours == \E n \in DOMAIN s.netif :
                LET f == s.netif[n]
                IN f.up /\ f.ip # ANY /\ (p.dst = f.ip \/ ip_addr_isbroadcast(p.dst, f))
      dhcp == ~ours /\ p.proto = "udp" /\ p.dport = DHCP_CLIENT_PORT
  IN IF p.shape \in {"version", "length", "header sum"} THEN Free(s, p.clen)
     ELSE IF ~dhcp /\ (ip_addr_isbroadcast(p.src, s.netif[inp]) \/ ip_addr_ismulticast(p.src)) THEN Free(s, p.clen)
     ELSE IF ~ours /\ ~dhcp THEN Free(s, p.clen)
     ELSE IF p.off # 0 \/ p.mf THEN Reassembled(ip_reass(s, p, c), inp, c)
     ELSE IF p.opts THEN Free(s, p.clen)
     ELSE Upper(s, p, inp, c)
-----------------------------------------------------------------------------
\* The fragments that peers and the routers on the way make of a datagram.
Routed(d) ==
  LET from(set) == UNION {IF Len(p.data) + IP_HLEN > m THEN ToSet(ip_frag(p, m)) ELSE {p} : p \in set, m \in Mtus}
  IN from(from({d}))
Arriving == Packets \cup UNION {Routed(d) : d \in Datagrams}

Do(t) ==
  /\ ~reass.torn
  /\ reass' = t.reass /\ pcbs' = t.pcbs /\ netif' = t.netif /\ bufs' = t.bufs /\ seen' = t.seen
S0 == [S EXCEPT !.seen = Nothing]
Live == DOMAIN pcbs.of

IpInit ==
  /\ reass = [list |-> <<>>, count |-> 0, torn |-> FALSE]
  /\ pcbs = [udp |-> <<>>, raw |-> <<>>, of |-> <<>>]
  /\ netif \in InitialNetifs
  /\ bufs = [used |-> 0, held |-> 0]
  /\ seen = Nothing

Receive ==
  \E p \in Arriving, inp \in DOMAIN netif, c \in Choice :
    /\ bufs.held + p.clen <= MaxHeld
    /\ Do(ip_input([S0 EXCEPT !.bufs.used = @ + p.clen], p, inp, c))
TransportFrees == bufs.held > 0 /\ Do([S0 EXCEPT !.bufs.used = @ - bufs.held, !.bufs.held = 0])
Timer == \E c \in Choice : Do(ip_reass_tmr(S0, c))

UdpCall ==
  \/ \E i \in UdpPcbs \ Live : Do(udp_new(S0, i))
  \/ \E i \in UdpPcbs \cap Live :
       \/ \E a \in OwnAddrs \cup {ANY}, n \in Ports \cup {0} : Do(udp_bind(S0, i, a, n))
       \/ \E a \in Peers, n \in Ports : Do(udp_connect(S0, i, a, n))
       \/ Do(udp_disconnect(S0, i)) \/ Do(udp_recv(S0, i)) \/ Do(udp_remove(S0, i))
       \/ \E c \in Choice, d \in Data : \/ pcbs.of[i].connected /\ Do(udp_send(S0, i, d, c))
                                       \/ \E a \in Peers, n \in Ports : Do(udp_sendto(S0, i, a, n, d, c))
RawCall ==
  \/ \E i \in RawPcbs \ Live, proto \in {"icmp", "udp"} : Do(raw_new(S0, i, proto))
  \/ \E i \in RawPcbs \cap Live :
       \/ (\E a \in OwnAddrs : Do(raw_bind(S0, i, a))) \/ (\E a \in Peers : Do(raw_connect(S0, i, a)))
       \/ Do(raw_recv(S0, i)) \/ Do(raw_remove(S0, i))
       \/ \E c \in Choice, d \in Data : Do(raw_send(S0, i, d, c))
\* netif_set_up, netif_set_down and netif_set_ipaddr.
NetifChanges ==
  /\ NetifsChange
  /\ \E n \in DOMAIN netif : \/ Do([S0 EXCEPT !.netif[n].up = ~@])
                            \/ \E a \in OwnAddrs : Do([S0 EXCEPT !.netif[n].ip = a])

IpNext == Receive \/ TransportFrees \/ Timer \/ UdpCall \/ RawCall \/ NetifChanges
-----------------------------------------------------------------------------
Sent(d) == {x \in Datagrams : Key(x) = Key(d) /\ x.proto = d.proto /\ x.sport = d.sport /\ x.dport = d.dport}
Part(d, f) == SubSeq(d.data, f[1] + 1, f[2])

\* What waits for the rest of its datagram is accounted for and bounded, one entry to a datagram, and
\* leaves by one way only, whatever is lost, repeated, reordered, refragmented or timed out
\* (ip_reass, ip_reass_tmr).  What is delivered are octets sent, in their places, under the header of
\* the first fragment, up to a gap before the fragment that came last.
ReassTrue ==
  ~reass.torn =>
    /\ reass.count = FoldLeft(LAMBDA n, e : n + Clens(e.p), 0, reass.list)
    /\ bufs.used = reass.count + bufs.held
    /\ reass.count <= IP_REASS_MAX_PBUFS /\ Len(reass.list) <= MEMP_NUM_REASSDATA
    /\ \A i, k \in DOMAIN reass.list : i # k => Key(reass.list[i].hdr) # Key(reass.list[k].hdr)
    /\ \A i \in DOMAIN reass.list : reass.list[i].p # <<>>
    /\ seen.frags # <<>> /\ seen.to # "none" =>
         \E d \in Sent(seen.pkt) :
           /\ seen.frags[1][1] = 0 /\ Last(seen.frags)[2] = Len(d.data)
           /\ seen.pkt.data = FlattenSeq([k \in DOMAIN seen.frags |-> Part(d, seen.frags[k])])
           /\ \A k \in 2 .. Len(seen.frags) :
                seen.frags[k - 1][2] = seen.frags[k][1] \/ seen.frags[k][1] = seen.newest

\* A datagram that reassembly delivers is one that was sent: "all fragments are received".
Whole == seen.frags # <<>> /\ seen.to # "none" => \E d \in Sent(seen.pkt) : d.data = seen.pkt.data

Of(i) == pcbs.of[i]
Exact(i, p) == Of(i).connected /\ Of(i).port = p.dport /\ Of(i).rport = p.sport /\ Of(i).rip = p.src
               /\ Of(i).ip \in {ANY, p.dst}

\* The lists are the control blocks in use, however bound, connected, matched and removed
\* (udp_bind, udp_connect, udp_input, udp_remove, raw_input).  A datagram goes to a socket of its
\* port that is connected to nobody else, and to the connected one if there is one; a port chosen is
\* nobody else's; what is sent bears an address that the host has at that time (udp_sendto_if); and
\* while the interfaces are up no error answers what came from or went to everybody (icmp_dest_unreach).
SocketsTrue ==
  /\ IsInjective(pcbs.udp) /\ ToSet(pcbs.udp) = {i \in UdpPcbs \cap Live : Of(i).port # 0}
  /\ IsInjective(pcbs.raw) /\ ToSet(pcbs.raw) = RawPcbs \cap Live
  /\ seen.to = "udp" =>
       LET u == Of(seen.pcb)
           p == seen.pkt
       IN /\ u.port = p.dport /\ u.recv
          /\ u.connected => u.rip \in {ANY, p.src} /\ u.rport = p.sport
          /\ (\E i \in ToSet(pcbs.udp) : Exact(i, p)) => Exact(seen.pcb, p)
  /\ seen.auto => \A i \in ToSet(pcbs.udp) \ {seen.pcb} : Of(i).port # Of(seen.pcb).port
  /\ \A k \in DOMAIN seen.sent :
       LET p == seen.sent[k]
       IN /\ p.proto = "udp" /\ p.sport > 0 => \E n \in DOMAIN netif : netif[n].ip = p.src
          /\ p.proto = "icmp" /\ p.type = ICMP_DUR /\ (\A n \in DOMAIN netif : netif[n].up) =>
               ~\E a \in {p.dst, seen.about.dst} : a \in {ANY, ALL} \/ ip_addr_ismulticast(a)
=============================================================================
