------------------------------- MODULE Etharp -------------------------------
(***************************************************************************)
(* The ARP cache of lwIP (etharp.c) with its queues of packets that wait   *)
(* for an address.  Hosts answer, announce themselves, move to another     *)
(* hardware address; frames and memory may be missing.                     *)
(***************************************************************************)
EXTENDS Integers, Sequences, FiniteSets, FiniteSetsExt, Functions

CONSTANTS ARP_TABLE_SIZE, ARP_MAXAGE, ARP_MAXPENDING,
          MEMP_NUM_ARP_QUEUE,    \* queue entries of the pool
          Local,                 \* addresses of the local network
          Remote,                \* addresses beyond the gateway
          Gateway, Macs

VARIABLES arp_table,             \* index to entry
          etharp_cached_entry,
          q_used,                \* entries taken from MEMP_ARP_QUEUE
          told,                  \* history: the hardware address each cached host told last
          right                  \* history: every packet sent was rightly sent

arpVars == <<arp_table, etharp_cached_entry, q_used, told, right>>

Index == 0 .. ARP_TABLE_SIZE - 1
Hosts == Local \cup Remote
Special == {"any", "broadcast", "multicast"}
NoMac == "none"
ERR_MEM == -1
Empty == [q |-> <<>>, ipaddr |-> "any", ethaddr |-> NoMac, state |-> "EMPTY", ctime |-> 0]

ArpInit ==
  /\ arp_table = [i \in Index |-> Empty] /\ etharp_cached_entry = 0 /\ q_used = 0
  /\ told = [ip \in Hosts |-> NoMac] /\ right = TRUE

\* The functions below take and return the state a: the table t, the cached
\* entry c, the pool use u, the histories m and ok; i is the index returned.
State == [t |-> arp_table, c |-> etharp_cached_entry, u |-> q_used, m |-> told, ok |-> right, i |-> 0]
Has(t, ip) == {i \in Index : t[i].state # "EMPTY" /\ t[i].ipaddr = ip}
Becomes(a) ==
  /\ arp_table' = a.t /\ etharp_cached_entry' = a.c /\ q_used' = a.u
  /\ told' = [ip \in Hosts |-> IF Has(a.t, ip) # {} THEN a.m[ip] ELSE NoMac]
  /\ right' = a.ok

free_etharp_q(a, i) == [a EXCEPT !.u = @ - Len(a.t[i].q), !.t[i].q = <<>>]

\* Of some entries the oldest, of several the last.
Oldest(t, S) ==
  LET age == Max({t[i].ctime : i \in S}) IN Max({i \in S : t[i].ctime = age})

\* The entry to use for a new address: an empty one, else the oldest stable one,
\* the oldest pending one without packets, the oldest pending one.
Victim(t) ==
  LET of(st) == {i \in Index : t[i].state = st}
      idle == {i \in of("PENDING") : t[i].q = <<>>}
  IN  IF of("EMPTY") # {} THEN Min(of("EMPTY"))
      ELSE IF of("STABLE") # {} THEN Oldest(t, of("STABLE"))
      ELSE IF idle # {} THEN Oldest(t, idle)
      ELSE Oldest(t, of("PENDING"))

\* An entry without state keeps its other fields, which are not read.
find_entry(a, ip, try_hard, find_only) ==
  LET t == a.t
      match == Has(t, ip)
      hit == t[a.c].state = "STABLE" /\ t[a.c].ipaddr = ip
      full == \A i \in Index : t[i].state # "EMPTY"
      v == Victim(t)
  IN  IF hit THEN [a EXCEPT !.i = a.c]
      ELSE IF match # {} THEN [a EXCEPT !.i = Min(match), !.c = Min(match)]
      ELSE IF (full /\ ~try_hard) \/ find_only THEN [a EXCEPT !.i = ERR_MEM]
      ELSE [free_etharp_q(a, v) EXCEPT !.i = v, !.c = v, !.t[v] = [Empty EXCEPT !.ipaddr = ip]]

\* netif->linkoutput: the frame may be lost on the way.  It goes to the host that
\* told this address, after the packets given before it.
etharp_send_ip(a, ip, p, mac) ==
  LET before(i) == a.t[i].ipaddr = ip /\ \E k \in DOMAIN a.t[i].q : a.t[i].q[k] < p
  IN  [a EXCEPT !.ok = @ /\ mac = a.m[ip] /\ ~\E i \in Index : before(i)]

RECURSIVE SendQueue(_, _)
SendQueue(a, i) ==
  LET e == a.t[i]
  IN  IF e.q = <<>> THEN a
      ELSE SendQueue(etharp_send_ip([a EXCEPT !.t[i].q = Tail(@), !.u = @ - 1],
                                    e.ipaddr, Head(e.q), e.ethaddr), i)

\* A slip that forgets to send the packets that waited for the address.
update_arp_entryMutant(a, ip, mac, try_hard) ==
  LET f == find_entry(a, ip, try_hard, FALSE)
  IN  IF ip \in Special \/ f.i = ERR_MEM THEN f
      ELSE [f EXCEPT !.t[f.i] = [@ EXCEPT !.state = "STABLE", !.ethaddr = mac, !.ctime = 0]]

update_arp_entry(a, ip, mac, try_hard) ==
  LET f == find_entry(a, ip, try_hard, FALSE)
  IN  IF ip \in Special THEN a
      ELSE IF f.i = ERR_MEM THEN f
      ELSE SendQueue([f EXCEPT !.t[f.i] =
             [@ EXCEPT !.state = "STABLE", !.ethaddr = mac, !.ctime = 0]], f.i)

\* The packet, copied, goes to the end of the entry's queue, if there is memory.
Queued(a, i, p, mem) ==
  IF mem /\ a.u < MEMP_NUM_ARP_QUEUE
  THEN [a EXCEPT !.u = @ + 1, !.t[i].q = Append(@, p)] ELSE a

\* p is 0 for no packet; mem says whether there is memory for the copy.  The ARP
\* request (etharp_request, etharp_raw) may fail too and changes nothing here.
etharp_query(a, ip, p, mem) ==
  LET f == find_entry(a, ip, TRUE, FALSE)
      g == IF f.t[f.i].state = "EMPTY" THEN [f EXCEPT !.t[f.i].state = "PENDING"] ELSE f
  IN  IF ip \in Special THEN a
      ELSE IF f.i = ERR_MEM THEN f
      ELSE IF p = 0 THEN g
      ELSE IF g.t[g.i].state = "STABLE" THEN etharp_send_ip(g, ip, p, g.t[g.i].ethaddr)
      ELSE Queued(g, g.i, p, mem)

\* The number of a packet: above those of the packets that wait for the same hop.
Fresh(hop) == Max({0} \cup UNION {Range(arp_table[i].q) : i \in Has(arp_table, hop)}) + 1

\* A packet for dest; broadcasts and multicasts go straight to the link.
etharp_output(dest) ==
  \E mem \in BOOLEAN, gw \in {Gateway, "any"} :
    LET hop == IF dest \in Remote THEN gw ELSE dest
    IN  Becomes(IF dest \in Special \/ hop = "any" THEN State
                ELSE etharp_query(State, hop, Fresh(hop), mem))

\* A query without a packet: DHCP checks an address it was offered.
dhcp_check(ip) == Becomes(etharp_query(State, ip, 0, TRUE))

etharp_find_addr(ip) == Becomes(find_entry(State, ip, FALSE, TRUE))

\* An ARP packet tells the sender's address.  What follows, the answer to a
\* request for our address or dhcp_arp_reply, does not touch the cache.
etharp_arp_input(a, f) == update_arp_entry(a, f.src, f.mac, f.for_us)

etharp_ip_input(a, f) ==
  IF f.src \in Local THEN update_arp_entry(a, f.src, f.mac, FALSE) ELSE a

Frames == [type : {"ARP", "IP"}, src : Hosts \cup {"any"}, mac : Macs, for_us : BOOLEAN]

\* Other types and malformed packets are dropped.
ethernet_input(f) ==
  LET a == IF f.src \in Local \/ (f.src \in Remote /\ f.type = "ARP")
           THEN [State EXCEPT !.m[f.src] = f.mac] ELSE State
  IN  Becomes(IF f.type = "ARP" THEN etharp_arp_input(a, f) ELSE etharp_ip_input(a, f))

Expired(e) == \/ e.state = "STABLE" /\ e.ctime >= ARP_MAXAGE
              \/ e.state = "PENDING" /\ e.ctime >= ARP_MAXPENDING

Expire(a, i) == [free_etharp_q(a, i) EXCEPT !.t[i] = Empty]

\* An empty entry's age is not looked at.
Aged(t) == [i \in Index |-> IF t[i].state = "EMPTY" THEN t[i] ELSE [t[i] EXCEPT !.ctime = @ + 1]]

etharp_tmr ==
  LET a == [State EXCEPT !.t = Aged(@)]
  IN  Becomes(FoldSet(LAMBDA i, b : Expire(b, i), a, {i \in Index : Expired(a.t[i])}))

ArpNext ==
  \/ \E dest \in Hosts \cup {"broadcast"} : etharp_output(dest)
  \/ \E ip \in Local : dhcp_check(ip) \/ etharp_find_addr(ip)
  \/ \E f \in Frames : ethernet_input(f)
  \/ etharp_tmr
-----------------------------------------------------------------------------
\* An address has one entry; one that is resolved has the hardware address its
\* host told last, and no packet waits there (find_entry, update_arp_entry).
\* Packets wait at pending entries only, each in an entry of the pool.  They are
\* sent to the host that has the address, in the order they were given.
ArpTrue ==
  /\ \A ip \in Hosts : Cardinality(Has(arp_table, ip)) <= 1
  /\ \A i \in Index :
       arp_table[i].state = "STABLE" => arp_table[i].ethaddr = told[arp_table[i].ipaddr]
  /\ \A i \in Index : arp_table[i].state # "PENDING" => arp_table[i].q = <<>>
  /\ q_used = MapThenSumSet(LAMBDA i : Len(arp_table[i].q), Index)
  /\ right
=============================================================================
