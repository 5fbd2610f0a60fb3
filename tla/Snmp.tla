------------------------------- MODULE Snmp --------------------------------
(***************************************************************************)
(* lwIP's SNMP agent: the management tree with its index lists             *)
(* (mib_structs.c, mib2.c), and the requests that are served from it       *)
(* (msg_in.c, msg_out.c), some of them through objects that answer later.  *)
(***************************************************************************)
EXTENDS Integers, Sequences, FiniteSets, SequencesExt

CONSTANTS
  IPLEN,       \* sub-identifiers of an address (4 in the code)
  Netifs,      \* the netif structures
  Addrs,       \* addresses an interface may be given, tuples of IPLEN numbers
  Hosts,       \* addresses the ARP table may learn
  Ports,       \* UDP ports
  UdpPcbs,
  Asks,        \* names a manager asks for
  Requests,    \* messages: [shape, version, community, pdu, status, index, vbs], where shape says
               \* whether every field decodes, and vbs is a sequence of [name, type, val]
  ExtIds,      \* identifiers of each level of the external node
  Writable,    \* variables the application gave memory for
  SNMP_CONCURRENT_REQUESTS,
  Mem,         \* how many allocations of an event may succeed
  TrapDests,   \* enabled trap destinations
  B,           \* values of an octet (256 in the code)
  LWIP_SNMP_OBJ_ID_LEN,
  MaxOps,      \* bound on the changes of the tables
  MaxRequests  \* bound on the requests

VARIABLES
  mib,    \* the index trees and, for each table, its maxlength
  net,    \* interfaces, ARP entries and UDP pcbs the trees are about
  slot,   \* msg_input_list
  val,    \* the variables a SET may write
  last    \* the last response, the requests so far and whether memory ever failed

snmpVars == <<mib, net, slot, val, last>>

Nums(n) == [i \in 1 .. n |-> i]
-----------------------------------------------------------------------------
(* Objects: what get_object_def says of an identifier, and where get_value  *)
(* takes it from.                                                           *)
NONE == [instance |-> FALSE, access |-> "none", type |-> "none"]
Object(access, type) == [instance |-> TRUE, access |-> access, type |-> type]
RO(type) == Object("ro", type)
RW(type) == Object("rw", type)
Pick(id, table) ==   \* table: a set of <<ids, definition>>
  IF \E e \in table : id \in e[1] THEN (CHOOSE e \in table : id \in e[1])[2] ELSE NONE

system_object(id) ==
  Pick(id, {<<{1}, RO("octets")>>, <<{2}, RO("oid")>>, <<{3}, RO("ticks")>>,
            <<4 .. 6, RW("octets")>>, <<{7}, RO("int")>>})
ifentry_object(id) ==
  Pick(id, {<<{1, 3, 4, 8}, RO("int")>>, <<{2, 6}, RO("octets")>>, <<{5, 21}, RO("gauge")>>,
            <<{7}, RW("int")>>, <<{9}, RO("ticks")>>, <<10 .. 20, RO("counter")>>, <<{22}, RO("oid")>>})
atentry_object(id) == Pick(id, {<<{1}, RW("int")>>, <<{2}, RW("octets")>>, <<{3}, RW("ip")>>})
ip_object(id) ==
  Pick(id, {<<{1, 2}, RW("int")>>, <<{13}, RO("int")>>,
            <<(3 .. 12) \cup (14 .. 19) \cup {23}, RO("counter")>>})
ip_addrentry_object(id) == Pick(id, {<<{1, 3}, RO("ip")>>, <<{2, 4, 5}, RO("int")>>})
ip_rteentry_object(id) ==
  Pick(id, {<<{1, 7, 11}, RW("ip")>>, <<(2 .. 6) \cup {8, 10, 12}, RW("int")>>,
            <<{9}, RO("int")>>, <<{13}, RO("oid")>>})
ip_ntomentry_object(id) ==
  Pick(id, {<<{1, 4}, RW("int")>>, <<{2}, RW("octets")>>, <<{3}, RW("ip")>>})
tcp_object(id) ==
  Pick(id, {<<1 .. 4, RO("int")>>, <<(5 .. 8) \cup (10 .. 12) \cup {14, 15}, RO("counter")>>,
            <<{9}, RO("gauge")>>})
udpentry_object(id) == Pick(id, {<<{1}, RO("ip")>>, <<{2}, RO("int")>>})
snmp_object(id) ==
  Pick(id, {<<(1 .. 6) \cup (8 .. 22) \cup (24 .. 29), RO("counter")>>, <<{30}, RW("int")>>})

object_def(leaf, id) ==
  CASE leaf = "system" -> system_object(id)
    [] leaf = "interfaces" -> RO("int")
    [] leaf = "ifentry" -> ifentry_object(id)
    [] leaf = "atentry" -> atentry_object(id)
    [] leaf = "ip" -> ip_object(id)
    [] leaf = "addrentry" -> ip_addrentry_object(id)
    [] leaf = "rteentry" -> ip_rteentry_object(id)
    [] leaf = "ntomentry" -> ip_ntomentry_object(id)
    [] leaf = "icmp" -> Pick(id, {<<1 .. 26, RO("counter")>>})
    [] leaf = "tcp" -> tcp_object(id)
    [] leaf = "udp" -> Pick(id, {<<1 .. 5, RO("counter")>>})
    [] leaf = "udpentry" -> udpentry_object(id)
    [] leaf = "snmp" -> snmp_object(id)
    [] OTHER -> NONE

\* What get_object_def adds to the last identifier to get back to the object's.
depth(leaf) ==
  CASE leaf \in {"atentry", "ntomentry", "udpentry"} -> IPLEN + 1
    [] leaf \in {"addrentry", "rteentry"} -> IPLEN
    [] OTHER -> 1

\* The object named by oid, found at a leaf with rest identifiers left.
get_object_def(leaf, rest, oid) ==
  IF leaf = "none" \/ rest # 1 THEN NONE ELSE object_def(leaf, oid[Len(oid) - depth(leaf)])
-----------------------------------------------------------------------------
(* Counters: the ones the stack increments, and the ones each identifier    *)
(* publishes.                                                               *)
ip_counters ==
  {"inreceives", "inhdrerrors", "inaddrerrors", "forwdatagrams", "inunknownprotos", "indiscards",
   "indelivers", "outrequests", "outdiscards", "outnoroutes", "reasmreqds", "reasmoks",
   "reasmfails", "fragoks", "fragfails", "fragcreates", "routingdiscards"}
ip_get_value(id) ==
  <<"forwarding", "ttl", "inreceives", "inhdrerrors", "inaddrerrors", "forwdatagrams",
    "inunknownprotos", "indiscards", "indelivers", "outrequests", "outdiscards", "outnoroutes",
    "reasmtimeout", "reasmreqds", "reasmoks", "reasmfails", "fragoks", "fragfails", "fragcreates",
    "", "", "", "routingdiscards">>[id]
IcmpKinds == <<"msgs", "errors", "destunreachs", "timeexcds", "parmprobs", "srcquenchs", "redirects",
               "echos", "echoreps", "timestamps", "timestampreps", "addrmasks", "addrmaskreps">>
icmp_counters == {<<way, IcmpKinds[k]>> : way \in {"in", "out"}, k \in 1 .. 13}
icmp_get_value(id) ==
  IF id <= 13 THEN <<"in", IcmpKinds[id]>> ELSE <<"out", IcmpKinds[id - 13]>>
tcp_counters ==
  {"activeopens", "passiveopens", "attemptfails", "estabresets", "insegs", "outsegs", "retranssegs",
   "inerrs", "outrsts"}
tcp_get_value(id) ==
  <<"rtoalgorithm", "rtomin", "rtomax", "maxconn", "activeopens", "passiveopens", "attemptfails",
    "estabresets", "currestab", "insegs", "outsegs", "retranssegs", "", "inerrs", "outrsts">>[id]
udp_counters == {"indatagrams", "noports", "inerrors", "outdatagrams"}
udp_get_value(id) == <<"indatagrams", "noports", "inerrors", "outdatagrams">>[id]
snmp_counters ==
  {"inpkts", "outpkts", "inbadversions", "inbadcommunitynames", "inbadcommunityuses",
   "inasnparseerrs", "intoobigs", "innosuchnames", "inbadvalues", "inreadonlys", "ingenerrs",
   "intotalreqvars", "intotalsetvars", "ingetrequests", "ingetnexts", "insetrequests",
   "ingetresponses", "intraps", "outtoobigs", "outnosuchnames", "outbadvalues", "outgenerrs",
   "outgetrequests", "outgetnexts", "outsetrequests", "outgetresponses", "outtraps"}
snmp_get_value(id) ==
  <<"inpkts", "outpkts", "inbadversions", "inbadcommunitynames", "inbadcommunityuses",
    "inasnparseerrs", "", "intoobigs", "innosuchnames", "inbadvalues", "inreadonlys", "ingenerrs",
    "intotalreqvars", "intotalsetvars", "ingetrequests", "ingetnexts", "insetrequests",
    "ingetresponses", "intraps", "outtoobigs", "outnosuchnames", "outbadvalues", "", "outgenerrs",
    "outgetrequests", "outgetnexts", "outsetrequests", "outgetresponses", "outtraps",
    "enableauthentraps">>[id]
-----------------------------------------------------------------------------
(* The tree.  A node has a type, the functions of its leaves and its kids: *)
(* pairs of an identifier and at most one child node.                       *)
Node(type, leaf, kids) == [type |-> type, leaf |-> leaf, kids |-> kids]
scalar(leaf) == Node("SC", leaf, <<>>)
Array(ids, n) == [i \in DOMAIN ids |-> <<ids[i], <<n>>>>]
\* A table: enabled by its maxlength; each column has the same index tree below it.
Table(maxlength, columns, root) ==
  Node("RA", "none",
       IF maxlength = 0 THEN <<>> ELSE <<<<1, <<Node("AR", "none", Array(Nums(columns), root))>>>>>>)

ip(m) ==
  Node("AR", "none",
       Array(Nums(19), scalar("ip")) \o
       <<<<20, <<Table(m.max.addr, 5, m.addr)>>>>, <<21, <<Table(m.max.rte, 13, m.rte)>>>>,
         <<22, <<Table(m.max.ntom, 4, m.ntom)>>>>, <<23, <<scalar("ip")>>>>>>)
tcp ==
  Node("AR", "none",
       Array(Nums(12), scalar("tcp")) \o
       <<<<13, <<Node("RA", "none", <<>>)>>>>, <<14, <<scalar("tcp")>>>>, <<15, <<scalar("tcp")>>>>>>)
udp(m) ==
  Node("AR", "none", Array(Nums(4), scalar("udp")) \o <<<<5, <<Table(m.max.udp, 2, m.udp)>>>>>>)
interfaces(m) ==
  Node("AR", "none", <<<<1, <<scalar("interfaces")>>>>, <<2, <<Table(m.max.if, 22, m.if)>>>>>>)
mib2_at(m) ==
  Node("RA", "none", IF m.max.at = 0 THEN <<>> ELSE <<<<1, <<Table(1, 3, m.at)>>>>>>)
snmp_group == Node("AR", "none", Array(Nums(6) \o SubSeq(Nums(22), 8, 22) \o SubSeq(Nums(30), 24, 30),
                                       scalar("snmp")))
mib2(m) ==
  Node("AR", "none",
       <<<<1, <<Node("AR", "none", Array(Nums(7), scalar("system")))>>>>, <<2, <<interfaces(m)>>>>,
         <<3, <<mib2_at(m)>>>>, <<4, <<ip(m)>>>>,
         <<5, <<Node("AR", "none", Array(Nums(26), scalar("icmp")))>>>>, <<6, <<tcp>>>>,
         <<7, <<udp(m)>>>>, <<11, <<snmp_group>>>>>>)
\* A node outside the agent, asked for its identifiers level by level.
RECURSIVE External(_)
External(level) ==
  Node("EX", "ext",
       [i \in DOMAIN ExtIds[level] |->
          <<ExtIds[level][i], IF level = Len(ExtIds) THEN <<>> ELSE <<External(level + 1)>>>>])
internet(m) ==
  Node("AR", "none",
       <<<<2, <<Node("AR", "none", <<<<1, <<mib2(m)>>>>>>)>>>>, <<4, <<External(1)>>>>>>)

NotFound == [leaf |-> "none", rest |-> 0, found |-> FALSE]
Find(node, id) == SelectSeq(node.kids, LAMBDA k : k[1] = id)

\* The parent of the instance ident and how many identifiers are left there.
RECURSIVE snmp_search_tree(_, _)
snmp_search_tree(node, ident) ==
  IF node.type = "SC"
  THEN IF ident = <<0>> THEN [leaf |-> node.leaf, rest |-> 1, found |-> TRUE] ELSE NotFound
  ELSE IF ident = <<>> \/ Find(node, Head(ident)) = <<>> THEN NotFound
  ELSE LET k == Find(node, Head(ident))[1] IN
       IF k[2] = <<>> THEN [leaf |-> node.leaf, rest |-> Len(ident), found |-> TRUE]
       ELSE snmp_search_tree(k[2][1], Tail(ident))

empty_table(child) == child # <<>> /\ child[1].type \in {"AR", "RA", "LR"} /\ child[1].kids = <<>>

NoNext == [oid |-> <<>>, leaf |-> "none", found |-> FALSE]
At(oid, leaf) == [oid |-> oid, leaf |-> leaf, found |-> TRUE]
FirstFrom(kids, n) ==   \* the first kid from the n-th on that is no empty table, 0 if none
  LET full == {j \in n .. Len(kids) : ~empty_table(kids[j][2])}
  IN IF full = {} THEN 0 ELSE CHOOSE j \in full : \A k \in full : j <= k

\* The instance after ident.  ret: the name so far; stack: what lies to the
\* right of each identifier of ret that was matched against ident.
RECURSIVE snmp_expand_tree(_, _, _, _)
RECURSIVE climb(_, _)
climb(ret, stack) ==
  IF stack = <<>> THEN NoNext
  ELSE IF Last(stack) = <<>> THEN climb(Front(ret), Front(stack))
  ELSE LET right == Last(stack)[1] IN
       IF right[2] = <<>> THEN climb(Front(ret), Front(stack))
       ELSE snmp_expand_tree(right[2][1], <<>>, Append(Front(ret), right[1]), Front(stack))
Leftmost(node, ret, stack) ==
  LET left == FirstFrom(node.kids, 1) IN
  IF left = 0 THEN climb(ret, stack)
  ELSE LET k == node.kids[left] IN
       IF k[2] = <<>> THEN At(Append(ret, k[1]), node.leaf)
       ELSE snmp_expand_tree(k[2][1], <<>>, Append(ret, k[1]), stack)
Match(node, ident, ret, stack) ==
  LET kids == node.kids
      right(i) == IF FirstFrom(kids, i + 1) = 0 THEN <<>> ELSE <<kids[FirstFrom(kids, i + 1)]>>
      from == SelectInSeq(kids, LAMBDA k : k[1] >= Head(ident))
  IN IF from = 0 THEN climb(ret, stack)
     ELSE IF kids[from][2] # <<>>
     THEN snmp_expand_tree(kids[from][2][1],
                           IF kids[from][1] = Head(ident) THEN Tail(ident) ELSE <<>>,
                           Append(ret, kids[from][1]), Append(stack, right(from)))
     ELSE IF kids[from][1] > Head(ident) THEN At(Append(ret, kids[from][1]), node.leaf)
     ELSE IF from < Len(kids) THEN At(Append(ret, kids[from + 1][1]), node.leaf)
     ELSE climb(ret, stack)
snmp_expand_tree(node, ident, ret, stack) ==
  IF node.type = "SC" THEN IF ident = <<>> THEN At(Append(ret, 0), node.leaf) ELSE climb(ret, stack)
  ELSE IF ident = <<>> THEN Leftmost(node, ret, stack)
  ELSE Match(node, ident, ret, stack)
-----------------------------------------------------------------------------
(* Index trees.  mem counts the allocations that still succeed.             *)
Below(rn, id) == Cardinality({i \in DOMAIN rn.kids : rn.kids[i][1] < id})
snmp_mib_node_insert(rn, id) ==
  IF Find(rn, id) # <<>> THEN rn
  ELSE [rn EXCEPT !.kids = InsertAt(rn.kids, Below(rn, id) + 1, <<id, <<>>>>)]
SetChild(rn, id, child) == [rn EXCEPT !.kids[Below(rn, id) + 1][2] = child]

\* Adds idx level by level.  A node that cannot be allocated is skipped, and
\* what is left of idx goes into the same list.
RECURSIVE InsertIndex(_, _, _, _)
InsertIndex(rn, idx, leaf, mem) ==
  IF idx = <<>> THEN [rn |-> rn, mem |-> mem, fail |-> FALSE]
  ELSE LET id == Head(idx)
           there == Find(rn, id) # <<>>
           rn1 == snmp_mib_node_insert(rn, id)
           mem1 == IF there THEN mem ELSE mem - 1
           old == rn1.kids[Below(rn, id) + 1][2]
           new == Node("LR", IF Len(idx) = 2 THEN leaf ELSE "none", <<>>)
           below == InsertIndex(IF old = <<>> THEN new ELSE old[1], Tail(idx), leaf,
                                IF old = <<>> THEN mem1 - 1 ELSE mem1)
       IN IF ~there /\ mem = 0 THEN [InsertIndex(rn, Tail(idx), leaf, mem) EXCEPT !.fail = TRUE]
          ELSE IF Len(idx) = 1 THEN [rn |-> rn1, mem |-> mem1, fail |-> FALSE]
          ELSE IF old = <<>> /\ mem1 = 0 THEN [rn |-> rn1, mem |-> 0, fail |-> TRUE]
          ELSE [below EXCEPT !.rn = SetChild(rn1, id, <<below.rn>>)]

\* Removes idx: the nodes below the last one that has other children.
\* A slip that marks a node for deletion although it has other children.
RECURSIVE DeleteIndexMutant(_, _)
DeleteIndexMutant(rn, idx) ==
  LET id == Head(idx)
      child == Find(rn, id)[1][2]
      below == DeleteIndexMutant(child[1], Tail(idx))
  IN IF Find(rn, id) = <<>> THEN [rn |-> rn, ok |-> FALSE, gone |-> FALSE]
     ELSE IF child # <<>> /\ Len(idx) > 1 /\ ~below.ok THEN [rn |-> rn, ok |-> FALSE, gone |-> FALSE]
     ELSE [rn |-> [rn EXCEPT !.kids = RemoveAt(rn.kids, Below(rn, id) + 1)], ok |-> TRUE, gone |-> TRUE]
RECURSIVE DeleteIndex(_, _)
DeleteIndex(rn, idx) ==
  LET id == Head(idx)
      child == Find(rn, id)[1][2]
      below == DeleteIndex(child[1], Tail(idx))
      deletable == child = <<>> \/ Len(child[1].kids) <= 1
      without == [rn EXCEPT !.kids = RemoveAt(rn.kids, Below(rn, id) + 1)]
  IN IF Find(rn, id) = <<>> THEN [rn |-> rn, ok |-> FALSE, gone |-> FALSE]
     ELSE IF child = <<>> \/ Len(idx) = 1
     THEN [rn |-> IF deletable THEN without ELSE rn, ok |-> TRUE, gone |-> deletable]
     ELSE IF ~below.ok THEN [rn |-> rn, ok |-> FALSE, gone |-> FALSE]
     ELSE IF deletable /\ below.gone THEN [rn |-> without, ok |-> TRUE, gone |-> TRUE]
     ELSE [rn |-> SetChild(rn, id, <<below.rn>>), ok |-> TRUE, gone |-> FALSE]

Listed(rn) ==   \* the paths of an index tree
  LET RECURSIVE paths(_)
      paths(n) == UNION {IF n.kids[i][2] = <<>> THEN {<<n.kids[i][1]>>}
                         ELSE {<<n.kids[i][1]>> \o q : q \in paths(n.kids[i][2][1])} : i \in DOMAIN n.kids}
  IN paths(rn)

\* w: the trees m, the memory left and whether an allocation failed.
With(w, t, r) == [m |-> [w.m EXCEPT ![t] = r.rn], mem |-> r.mem, fail |-> w.fail \/ r.fail]
InsertIn(w, t, leaf, idx) == With(w, t, InsertIndex(w.m[t], idx, leaf, w.mem))
Enable(w, t) == [w EXCEPT !.m.max[t] = 1]
DeleteIn(w, t, idx) == [w EXCEPT !.m[t] = DeleteIndex(w.m[t], idx).rn]
DisableIfEmpty(w, t) == IF w.m[t].kids = <<>> THEN [w EXCEPT !.m.max[t] = 0] ELSE w

snmp_inc_iflist(w) == Enable(InsertIn(w, "if", "ifentry", <<Len(w.m.if.kids) + 1>>), "if")
snmp_dec_iflist(w) == DisableIfEmpty([w EXCEPT !.m.if.kids = Front(w.m.if.kids)], "if")

snmp_insert_arpidx_tree(w, ifidx, a) ==
  Enable(Enable(InsertIn(InsertIn(w, "at", "atentry", <<ifidx>> \o a), "ntom", "ntomentry", <<ifidx>> \o a),
                "at"), "ntom")
snmp_delete_arpidx_tree(w, ifidx, a) ==
  DisableIfEmpty(DisableIfEmpty(DeleteIn(DeleteIn(w, "at", <<ifidx>> \o a), "ntom", <<ifidx>> \o a),
                                "at"), "ntom")

snmp_insert_ipaddridx_tree(w, n) == Enable(InsertIn(w, "addr", "addrentry", n.addr), "addr")
snmp_delete_ipaddridx_tree(w, n) == DisableIfEmpty(DeleteIn(w, "addr", n.addr), "addr")

Zero == [i \in 1 .. IPLEN |-> 0]
Mask(a, bits) == [i \in 1 .. IPLEN |-> IF i <= bits THEN a[i] ELSE 0]   \* bits: identifiers kept
Network(n) == Mask(n.addr, n.mask)
snmp_insert_iprteidx_tree(w, dflt, n) ==
  Enable(IF dflt THEN InsertIn(w, "rte", "rteentry", Zero)
         ELSE IF Network(n) # Zero THEN InsertIn(w, "rte", "rteentry", Network(n)) ELSE w, "rte")
snmp_delete_iprteidx_tree(w, dflt, n) ==
  DisableIfEmpty(IF dflt THEN DeleteIn(w, "rte", Zero)
                 ELSE IF Network(n) # Zero THEN DeleteIn(w, "rte", Network(n)) ELSE w, "rte")

Binding(p) == Append(Zero, p)   \* of a pcb bound to a port of any address
snmp_insert_udpidx_tree(w, port) == Enable(InsertIn(w, "udp", "udpentry", Binding(port)), "udp")
snmp_delete_udpidx_tree(w, port, pcbs) ==
  LET bindings == Cardinality({q \in UdpPcbs : pcbs[q] = port})
  IN DisableIfEmpty(IF bindings = 1 THEN DeleteIn(w, "udp", Binding(port)) ELSE w, "udp")
-----------------------------------------------------------------------------
(* What changes the tables: interfaces (netif.c), ARP entries, UDP pcbs.    *)
Change(w, n) ==
  /\ net.ops < MaxOps
  /\ mib' = w.m
  /\ net' = [n EXCEPT !.ops = net.ops + 1]
  /\ last' = [last EXCEPT !.oom = last.oom \/ w.fail]
  /\ UNCHANGED <<slot, val>>
Trees(mem) == [m |-> mib, mem |-> mem, fail |-> FALSE]

NoIf == [addr |-> Zero, mask |-> 0]
netif_set_ipaddr(w, n, a) ==
  LET old == snmp_delete_iprteidx_tree(snmp_delete_ipaddridx_tree(w, n), FALSE, n)
      n1 == [n EXCEPT !.addr = a]
  IN snmp_insert_iprteidx_tree(snmp_insert_ipaddridx_tree(old, n1), FALSE, n1)
netif_set_netmask(w, n, bits) ==
  snmp_insert_iprteidx_tree(snmp_delete_iprteidx_tree(w, FALSE, n), FALSE, [n EXCEPT !.mask = bits])

OnList(n) == \E i \in DOMAIN net.list : net.list[i] = n
snmp_netiftoifindex(n) == CHOOSE i \in DOMAIN net.list : net.list[i] = n
Shift == net.moved \/ net.arp # {}   \* interfaces are renumbered while ARP entries exist

\* netif_add: the address is set, and listed, before init may fail.
netif_add(n, a, bits, ok, mem) ==
  LET conf == [net EXCEPT !.nif[n] = [addr |-> a, mask |-> bits]]
  IN /\ ~OnList(n)
     /\ \E w \in {netif_set_netmask(netif_set_ipaddr(Trees(mem), NoIf, a), [NoIf EXCEPT !.addr = a], bits)} :
          IF ok THEN Change(snmp_inc_iflist(w), [conf EXCEPT !.list = <<n>> \o net.list, !.moved = Shift])
          ELSE Change(w, [conf EXCEPT !.strays = net.strays \cup {a, Mask(a, bits)}])
SetIpaddr(n, a, mem) ==
  /\ OnList(n)
  /\ Change(netif_set_ipaddr(Trees(mem), net.nif[n], a), [net EXCEPT !.nif[n].addr = a])
SetNetmask(n, bits, mem) ==
  /\ OnList(n)
  /\ Change(netif_set_netmask(Trees(mem), net.nif[n], bits), [net EXCEPT !.nif[n].mask = bits])
netif_set_default(n, mem) ==   \* 0: NULL
  /\ n = 0 \/ OnList(n)
  /\ Change(IF n = 0 THEN snmp_delete_iprteidx_tree(Trees(mem), TRUE, NoIf)
            ELSE snmp_insert_iprteidx_tree(Trees(mem), TRUE, net.nif[n]), [net EXCEPT !.default = n])
\* netif_remove: the row of the address goes, the one of the network stays.
\* (With ARP entries of the interface left, their later removal would walk off the list.)
netif_remove(n, mem) ==
  LET w == snmp_dec_iflist(snmp_delete_ipaddridx_tree(Trees(mem), net.nif[n]))
      off == [net EXCEPT !.list = SelectSeq(net.list, LAMBDA x : x # n), !.moved = Shift,
                         !.strays = net.strays \cup {Network(net.nif[n])}]
  IN /\ OnList(n) /\ mib.if.kids # <<>>   \* asserted by snmp_mib_node_delete
     /\ \A e \in net.arp : e[1] # n
     /\ IF net.default = n THEN Change(snmp_delete_iprteidx_tree(w, TRUE, NoIf), [off EXCEPT !.default = 0])
        ELSE Change(w, off)

ArpInsert(n, a, mem) ==
  /\ OnList(n) /\ \A e \in net.arp : e[2] # a
  /\ Change(snmp_insert_arpidx_tree(Trees(mem), snmp_netiftoifindex(n), a),
            [net EXCEPT !.arp = net.arp \cup {<<n, a>>}])
ArpDelete(e, mem) ==
  Change(snmp_delete_arpidx_tree(Trees(mem), snmp_netiftoifindex(e[1]), e[2]),
         [net EXCEPT !.arp = net.arp \ {e}])

\* udp_bind of a pcb that is bound already does not take the old row away.
udp_bind(q, port, mem) ==
  Change(snmp_insert_udpidx_tree(Trees(mem), port),
         [net EXCEPT !.pcbs[q] = port, !.rebound = net.rebound \/ net.pcbs[q] # 0])
udp_remove(q, mem) ==
  /\ net.pcbs[q] # 0
  /\ Change(snmp_delete_udpidx_tree(Trees(mem), net.pcbs[q], net.pcbs), [net EXCEPT !.pcbs[q] = 0])

TablesNext ==
  \E mem \in Mem :
    \/ \E n \in Netifs, a \in Addrs, bits \in 0 .. 1, ok \in BOOLEAN : netif_add(n, a, bits, ok, mem)
    \/ \E n \in Netifs, a \in Addrs : SetIpaddr(n, a, mem)
    \/ \E n \in Netifs, bits \in 0 .. 1 : SetNetmask(n, bits, mem)
    \/ \E n \in Netifs \cup {0} : netif_set_default(n, mem)
    \/ \E n \in Netifs : netif_remove(n, mem)
    \/ \E n \in Netifs, a \in Hosts : ArpInsert(n, a, mem)
    \/ \E e \in net.arp : ArpDelete(e, mem)
    \/ \E q \in UdpPcbs, port \in Ports : udp_bind(q, port, mem)
    \/ \E q \in UdpPcbs : udp_remove(q, mem)
-----------------------------------------------------------------------------
(* Requests.  A slot serves one; it may wait for an external object.        *)
prefix == <<1, 3, 6, 1>>
snmp_iso_prefix_tst(name) == Len(name) > 3 /\ SubSeq(name, 1, 4) = prefix
snmp_iso_prefix_expand(name) == \A i \in 1 .. 4 : i <= Len(name) => name[i] <= prefix[i]
Rest(name) == SubSeq(name, 5, Len(name))

SearchIn(tree, name) == IF snmp_iso_prefix_tst(name) THEN snmp_search_tree(tree, Rest(name)) ELSE NotFound
ExpandIn(tree, name) ==
  IF snmp_iso_prefix_expand(name) THEN snmp_expand_tree(tree, Rest(name), prefix, <<>>) ELSE NoNext
Search(name) == SearchIn(internet(mib), name)
Expand(name) == ExpandIn(internet(mib), name)
Definition(f, name) == IF f.found THEN get_object_def(f.leaf, f.rest, name) ELSE NONE

Defaults == [system |-> [id \in 4 .. 6 |-> IF id = 5 THEN "FQDN-unk" ELSE ""], traps |-> 2, ext |-> ""]
IdOf(leaf, name) == name[Len(name) - depth(leaf)]
v_len(leaf, id) == IF leaf = "system" /\ id \in 4 .. 6 /\ val.system[id] = "" THEN 0 ELSE 4

system_set_test(id, v) == id \in Writable
ip_set_test(id, v) == (id = 1 /\ v = 2) \/ (id = 2 /\ v = 255)
snmp_set_test(id, v) == id = 30 /\ IF 30 \in Writable THEN v \in {1, 2} ELSE v = 2
set_test(leaf, id, v) ==
  CASE leaf = "system" -> system_set_test(id, v)
    [] leaf = "ip" -> ip_set_test(id, v)
    [] leaf = "snmp" -> snmp_set_test(id, v)
    [] OTHER -> FALSE
set_value(vals, leaf, id, v) ==
  CASE leaf = "system" /\ id \in 4 .. 6 -> [vals EXCEPT !.system[id] = v]
    [] leaf = "snmp" /\ id = 30 -> [vals EXCEPT !.traps = v]
    [] OTHER -> vals

\* An event works on t: the slot, the variables, the memory left, what response
\* finds a buffer (any, a small one, none), and the response it sent.
Empty == [st |-> "EMPTY", rt |-> "get", req |-> <<>>, invb |-> <<>>, outvb |-> <<>>, idx |-> 0,
          oid |-> <<>>, wrote |-> {}]
NoResponse == [sent |-> FALSE, rt |-> "get", req |-> <<>>, status |-> "noError", index |-> 0,
               vbs |-> <<>>, wrote |-> {}, sized |-> TRUE, traps |-> 0, n |-> 0, oom |-> FALSE]

\* A tooBig status is sent with an empty list; only the retry has counted the lengths of one.
snmp_send_response(t, status, index) ==
  LET r == [t.resp EXCEPT !.sent = TRUE, !.rt = t.s.rt, !.req = t.s.req, !.status = status, !.index = index,
                          !.vbs = t.s.outvb, !.wrote = t.s.wrote, !.sized = TRUE]
  IN IF t.buf = "any"
     THEN [t EXCEPT !.resp = IF status = "tooBig" THEN [r EXCEPT !.vbs = <<>>, !.sized = FALSE] ELSE r]
     ELSE IF t.buf = "small" THEN [t EXCEPT !.resp = [r EXCEPT !.status = "tooBig", !.index = 0, !.vbs = <<>>]]
     ELSE t
snmp_error_response(t, status) ==
  LET e == [t EXCEPT !.s.outvb = t.s.invb, !.s.invb = <<>>]
  IN [snmp_send_response(e, status, 1 + t.s.idx) EXCEPT !.s = Empty]
snmp_ok_response(t) == [snmp_send_response(t, "noError", 0) EXCEPT !.s = Empty]

Cur(t) == t.s.invb[t.s.idx + 1]
Ask(t, st, oid) == [t EXCEPT !.s.st = st, !.s.oid = oid]
Step(t, st) == [t EXCEPT !.s.st = st, !.s.idx = t.s.idx + 1]
Answered(t, vb, cost) == [Step(t, "SEARCH") EXCEPT !.s.outvb = Append(t.s.outvb, vb), !.mem = t.mem - cost]

\* GET: the name moves to the answer; without memory for the value it moves back.
GetOne(t, len) ==
  IF t.mem = 0 \/ (len > 0 /\ t.mem = 1) THEN snmp_error_response(t, "tooBig")
  ELSE [Answered(t, Cur(t), IF len > 0 THEN 2 ELSE 1) EXCEPT !.s.invb[t.s.idx + 1].name = <<>>]
RECURSIVE GetLoop(_)
GetLoop(t) ==
  LET f == Search(Cur(t).name) IN
  IF t.s.st # "SEARCH" THEN t
  ELSE IF t.s.idx = Len(t.s.invb) THEN snmp_ok_response(t)
  ELSE IF f.leaf = "ext" THEN Ask(t, "EXT_GET_OBJDEF", Cur(t).name)
  ELSE IF ~Definition(f, Cur(t).name).instance THEN snmp_error_response(t, "noSuchName")
  ELSE GetLoop(GetOne(t, v_len(f.leaf, IdOf(f.leaf, Cur(t).name))))
snmp_msg_get_event(t, a) ==
  GetLoop(CASE t.s.st = "EXT_GET_OBJDEF" ->
                 IF a.def.instance THEN Ask(t, "EXT_GET_VALUE", t.s.oid) ELSE snmp_error_response(t, "noSuchName")
            [] t.s.st = "EXT_GET_VALUE" -> GetOne(t, IF val.ext = "" THEN 0 ELSE 4)
            [] OTHER -> t)

\* GETNEXT: the answer has a name of its own (varbind, name and value are allocated).
NextOne(t, oid, len) ==
  LET cost == IF len > 0 THEN 3 ELSE 2 IN
  IF t.mem < cost THEN snmp_error_response(t, "tooBig")
  ELSE Answered(t, [name |-> oid, type |-> "none", val |-> 0], cost)
RECURSIVE NextLoop(_)
NextLoop(t) ==
  LET e == Expand(Cur(t).name) IN
  IF t.s.st # "SEARCH" THEN t
  ELSE IF t.s.idx = Len(t.s.invb) THEN snmp_ok_response(t)
  ELSE IF ~e.found THEN snmp_error_response(t, "noSuchName")
  ELSE IF e.leaf = "ext" THEN Ask(t, "EXT_GET_OBJDEF", e.oid)
  ELSE NextLoop(NextOne(t, e.oid, v_len(e.leaf, IdOf(e.leaf, e.oid))))
snmp_msg_getnext_event(t, a) ==
  NextLoop(CASE t.s.st = "EXT_GET_OBJDEF" ->
                  IF a.def.instance THEN Ask(t, "EXT_GET_VALUE", t.s.oid) ELSE snmp_error_response(t, "noSuchName")
             [] t.s.st = "EXT_GET_VALUE" -> NextOne(t, t.s.oid, IF val.ext = "" THEN 0 ELSE 4)
             [] OTHER -> t)

\* SET: all values are tested, then all are set.
Test(t, def, ok) ==
  IF def.access # "rw" THEN snmp_error_response(t, "noSuchName")
  ELSE IF def.type # Cur(t).type \/ ~ok THEN snmp_error_response(t, "badValue")
  ELSE Step(t, "SEARCH")
RECURSIVE TestLoop(_)
TestLoop(t) ==
  LET f == Search(Cur(t).name)
      def == Definition(f, Cur(t).name)
      id == IdOf(f.leaf, Cur(t).name)
  IN IF t.s.st # "SEARCH" THEN t
     ELSE IF t.s.idx = Len(t.s.invb) THEN [t EXCEPT !.s.st = "SET_VALUE", !.s.idx = 0]
     ELSE IF f.leaf = "ext" THEN Ask(t, "EXT_GET_OBJDEF", Cur(t).name)
     ELSE IF ~def.instance THEN snmp_error_response(t, "noSuchName")
     ELSE TestLoop(Test(t, def, set_test(f.leaf, id, Cur(t).val)))
Wrote(t) == [Step(t, "SET_VALUE") EXCEPT !.s.wrote = t.s.wrote \cup {t.s.idx + 1}]
RECURSIVE SetLoop(_)
SetLoop(t) ==
  LET f == Search(Cur(t).name)
      id == IdOf(f.leaf, Cur(t).name)
  IN IF t.s.st # "SET_VALUE" THEN t
     ELSE IF t.s.idx = Len(t.s.invb)
     THEN snmp_ok_response([t EXCEPT !.s.outvb = t.s.invb, !.s.invb = <<>>])
     ELSE IF f.leaf = "ext" THEN Ask(t, "EXT_GET_OBJDEF_S", Cur(t).name)
     ELSE SetLoop([Wrote(t) EXCEPT !.val = set_value(t.val, f.leaf, id, Cur(t).val)])
snmp_msg_set_event(t, a) ==
  SetLoop(TestLoop(
    CASE t.s.st = "EXT_GET_OBJDEF" ->
           IF a.def.instance THEN Ask(t, "EXT_SET_TEST", t.s.oid) ELSE snmp_error_response(t, "noSuchName")
      [] t.s.st = "EXT_SET_TEST" -> Test(t, a.def, a.ok)
      [] t.s.st = "EXT_GET_OBJDEF_S" ->
           IF a.def.instance THEN Ask(t, "EXT_SET_VALUE", t.s.oid) ELSE snmp_error_response(t, "genError")
      [] t.s.st = "EXT_SET_VALUE" -> [Wrote(t) EXCEPT !.val.ext = Cur(t).val]
      [] OTHER -> t))

snmp_msg_event(i, s, a, mem, buf) ==
  LET t == [s |-> s, val |-> val, mem |-> mem, buf |-> buf, resp |-> [last EXCEPT !.sent = FALSE]]
  IN /\ \E u \in {CASE s.rt = "getnext" -> snmp_msg_getnext_event(t, a)
                    [] s.rt = "get" -> snmp_msg_get_event(t, a)
                    [] s.rt = "set" -> snmp_msg_set_event(t, a)} :
          /\ slot' = [slot EXCEPT ![i] = u.s]
          /\ val' = u.val
          /\ last' = [u.resp EXCEPT !.n = last.n + (IF s.st = "SEARCH" THEN 1 ELSE 0)]
     /\ UNCHANGED <<mib, net>>

NoAnswer == [def |-> NONE, ok |-> FALSE]
Answers == [def : {NONE, RO("octets"), RW("octets")}, ok : BOOLEAN]
Bufs == {"any", "small", "none"}

snmp_pdu_header_check(r) ==
  r.shape /\ r.version = 0 /\ r.community = "public" /\ r.pdu \in {"get", "getnext", "set"}
\* Allocations of a decoded list: varbind, name and, unless it is NULL, value.
snmp_varbind_alloc(vb) ==
  1 + (IF vb.name = <<>> THEN 0 ELSE 1) + (IF vb.type = "null" THEN 0 ELSE 1)
snmp_pdu_dec_varbindlist(vbs) ==
  FoldLeft(LAMBDA n, vb : n + snmp_varbind_alloc(vb), 0, vbs)
\* A wrong community is reported to the trap destinations, while there are buffers.
snmp_authfail_trap(r, mem) ==
  IF r.shape /\ r.version = 0 /\ r.community # "public" /\ val.traps = 1
  THEN IF mem < TrapDests THEN mem ELSE TrapDests
  ELSE 0

\* snmp_recv: an accepted request takes the first free slot; any other is dropped silently.
snmp_recv(r, mem, buf) ==
  LET free == {i \in DOMAIN slot : slot[i].st = "EMPTY"}
      i == CHOOSE j \in free : \A k \in free : j <= k
      need == snmp_pdu_dec_varbindlist(r.vbs)
  IN /\ last.n < MaxRequests
     /\ IF /\ free # {} /\ snmp_pdu_header_check(r) /\ r.status = 0 /\ r.index = 0
           /\ r.vbs # <<>> /\ mem >= need
        THEN snmp_msg_event(i, [Empty EXCEPT !.st = "SEARCH", !.rt = r.pdu, !.req = r.vbs, !.invb = r.vbs],
                            NoAnswer, mem - need, buf)
        ELSE /\ last' = [last EXCEPT !.n = last.n + 1, !.sent = FALSE,
                                     !.traps = IF free = {} THEN 0 ELSE snmp_authfail_trap(r, mem)]
             /\ UNCHANGED <<mib, net, slot, val>>
\* An external object answers what slot i asked.
ExternalAnswer(i, a, mem, buf) ==
  /\ slot[i].st # "EMPTY"
  /\ snmp_msg_event(i, slot[i], a, mem, buf)

SnmpInit ==
  /\ mib = [if |-> Node("LR", "ifentry", <<>>), at |-> Node("LR", "none", <<>>),
            ntom |-> Node("LR", "none", <<>>), addr |-> Node("LR", "none", <<>>),
            rte |-> Node("LR", "none", <<>>), udp |-> Node("LR", "none", <<>>),
            max |-> [t \in {"if", "at", "ntom", "addr", "rte", "udp"} |-> 0]]
  /\ net = [list |-> <<>>, nif |-> [n \in Netifs |-> NoIf], default |-> 0, arp |-> {},
            pcbs |-> [q \in UdpPcbs |-> 0], moved |-> FALSE, rebound |-> FALSE, strays |-> {}, ops |-> 0]
  /\ slot = [i \in 1 .. SNMP_CONCURRENT_REQUESTS |-> Empty]
  /\ val = Defaults
  /\ last = NoResponse
SnmpNext ==
  \/ TablesNext
  \/ \E mem \in Mem, buf \in Bufs :
       \/ \E r \in Requests : snmp_recv(r, mem, buf)
       \/ \E i \in DOMAIN slot, a \in Answers : ExternalAnswer(i, a, mem, buf)
-----------------------------------------------------------------------------
(* The codes (asn1_enc.c, asn1_dec.c), octet by octet in a chain of pbufs.  *)
H == B \div 2
ERR_ARG == <<-1>>
SumSeq(q) == FoldLeft(LAMBDA a, b : a + b, 0, q)
LenTo(chain, k) == SumSeq([i \in 1 .. k |-> Len(chain[i])])
\* The pbuf with the octet at ofs, and the octets after it up to the end of the chain.
First(chain, ofs) ==
  LET ks == {k \in DOMAIN chain : ofs < LenTo(chain, k)} IN
  IF ks = {} THEN <<>>
  ELSE LET k == Min(ks) IN
       <<[p |-> k, ptr |-> 1 + ofs - LenTo(chain, k - 1), ofs |-> ofs, plen |-> LenTo(chain, k)]>>
NextOctet(chain, c) ==
  IF c.ofs + 1 < c.plen THEN <<[c EXCEPT !.ofs = @ + 1, !.ptr = @ + 1]>>
  ELSE IF c.p = Len(chain) THEN <<>>
  ELSE <<[p |-> c.p + 1, ptr |-> 1, ofs |-> c.ofs + 1, plen |-> c.plen + Len(chain[c.p + 1])]>>
Walk(chain, ofs, n) ==
  FoldLeft(LAMBDA w, i : IF Len(w) < i - 1 \/ w = <<>> THEN w ELSE w \o NextOctet(chain, w[i - 1]),
           First(chain, ofs), [i \in 1 .. n - 1 |-> i + 1])
Put(chain, ofs, os) ==
  LET w == Walk(chain, ofs, Len(os)) IN
  [ok |-> w # <<>> /\ Len(w) >= Len(os),
   chain |-> FoldLeft(LAMBDA ch, i : [ch EXCEPT ![w[i].p][w[i].ptr] = os[i]], chain,
                      Nums(IF Len(w) < Len(os) THEN Len(w) ELSE Len(os)))]
Get(chain, ofs, n) ==
  LET w == Walk(chain, ofs, n) IN
  IF Len(w) < n THEN ERR_ARG ELSE [i \in 1 .. n |-> chain[w[i].p][w[i].ptr]]

snmp_asn1_enc_length_cnt(l) == IF l < H THEN 1 ELSE IF l < B THEN 2 ELSE 3
snmp_asn1_enc_length(l) ==
  CASE l < H -> <<l>> [] l >= H /\ l < B -> <<H + 1, l>> [] OTHER -> <<H + 2, l \div B, l % B>>
snmp_asn1_dec_length(chain, ofs) ==
  LET form == Get(chain, ofs, 1)
      body(n) == Get(chain, ofs + 1, n)
      rest == Get(chain, ofs + 1, LenTo(chain, Len(chain)) - ofs - 1)
      ends == {k \in 2 .. Len(rest) : rest[k - 1] = 0 /\ rest[k] = 0}
  IN CASE form = ERR_ARG -> [ok |-> FALSE]
       [] form[1] < H -> [ok |-> TRUE, used |-> 1, length |-> form[1]]
       [] form[1] = H -> IF ends = {} THEN [ok |-> FALSE] ELSE [ok |-> TRUE, used |-> 1, length |-> Min(ends)]
       [] form[1] = H + 1 -> IF body(1) = ERR_ARG THEN [ok |-> FALSE]
                             ELSE [ok |-> TRUE, used |-> 2, length |-> body(1)[1]]
       [] form[1] = H + 2 -> IF body(2) = ERR_ARG THEN [ok |-> FALSE]
                             ELSE [ok |-> TRUE, used |-> 3, length |-> B * body(2)[1] + body(2)[2]]
       [] OTHER -> [ok |-> FALSE]

Fits(v, most) == LET ns == {n \in 1 .. most - 1 : v < H * B ^ (n - 1)} IN IF ns = {} THEN most ELSE Min(ns)
snmp_asn1_enc_u32t_cnt(v) == Fits(v, 5)
snmp_asn1_enc_s32t_cnt(v) == Fits(IF v < 0 THEN -v - 1 ELSE v, 4)
snmp_asn1_enc_u32t(v, n) == [i \in 1 .. n |-> IF n = 5 /\ i = 1 THEN 0 ELSE (v \div B ^ (n - i)) % B]
snmp_asn1_enc_s32t(v, n) == [i \in 1 .. n |-> (v \div B ^ (n - i)) % B]
snmp_asn1_dec_u32t(os) ==
  IF Len(os) \notin 1 .. 5 \/ os[1] >= H THEN -1
  ELSE FoldLeft(LAMBDA v, o : (v * B + o) % B ^ 4, 0, IF Len(os) > 1 /\ os[1] = 0 THEN Tail(os) ELSE os)
snmp_asn1_dec_s32t(os) == FoldLeft(LAMBDA v, o : v * B + o, IF os[1] >= H THEN -1 ELSE 0, os)

\* A sub-identifier in groups of seven bits; only the last has the top bit clear.
Groups(sub) ==
  LET ks == {k \in 1 .. 4 : (sub \div H ^ k) % B # 0}
      most == IF ks = {} THEN 0 ELSE Max(ks)
  IN [i \in 1 .. most |-> H + ((sub \div H ^ (most + 1 - i)) % H)] \o <<sub % H>>
snmp_asn1_enc_oid_cnt(id) ==
  LET size(sub) == 1 + Cardinality({k \in 1 .. 4 : sub >= H ^ k})
      subs == IF Len(id) > 1 THEN SubSeq(id, 3, Len(id)) ELSE id
  IN (IF Len(id) > 1 THEN 1 ELSE 0) + SumSeq([i \in DOMAIN subs |-> size(subs[i])])
snmp_asn1_enc_oid(id) ==
  IF Len(id) <= 1 THEN ERR_ARG
  ELSE <<IF id[1] = 1 /\ id[2] = 3 THEN 43 ELSE (id[1] * 40 + id[2]) % B>> \o
       FlattenSeq([i \in 1 .. Len(id) - 2 |-> Groups(id[i + 2])])
\* The pointer moves on after the prefix, even when no sub-identifier follows.
PutOid(chain, ofs, id) ==
  LET os == snmp_asn1_enc_oid(id)
      put == Put(chain, ofs, os)
  IN [put EXCEPT !.ok = @ /\ (Len(id) = 2 => Len(Walk(chain, ofs, 2)) = 2)]
\* Of octets whose last has its top bit clear.
snmp_asn1_dec_oid(os) ==
  LET first == IF os[1] < 40 THEN <<0, os[1]>> ELSE IF os[1] < 80 THEN <<1, os[1] - 40>> ELSE <<2, os[1] - 80>>
      octet(d, o) == IF Len(d.id) = LWIP_SNMP_OBJ_ID_LEN THEN [d EXCEPT !.ok = FALSE]
                     ELSE IF o >= H THEN [d EXCEPT !.sub = @ * H + o - H]
                     ELSE [d EXCEPT !.id = Append(@, d.sub * H + o), !.sub = 0]
  IN IF os = <<>> THEN [ok |-> TRUE, id |-> <<>>, sub |-> 0]
     ELSE FoldLeft(octet, [ok |-> TRUE, id |-> first, sub |-> 0], Tail(os))
snmp_asn1_enc_raw(raw) == raw
snmp_asn1_dec_raw(os, raw_len) == IF raw_len < Len(os) THEN ERR_ARG ELSE os
-----------------------------------------------------------------------------
(* What is claimed.                                                         *)

\* The instances of the tree, without the order of its traversal.
RECURSIVE Leaves(_)
Leaves(node) ==
  IF node.type = "SC" THEN {<<0>>}
  ELSE UNION {{<<k[1]>> \o q : q \in IF k[2] = <<>> THEN {<<>>} ELSE Leaves(k[2][1])} :
              k \in ToSet(node.kids)}
Instances(tree) == {prefix \o q : q \in Leaves(tree)}
Less(a, b) ==
  LET differ == {i \in 1 .. Len(a) : i <= Len(b) /\ a[i] # b[i]} IN
  IF differ = {} THEN Len(a) < Len(b)
  ELSE LET i == CHOOSE i \in differ : \A j \in differ : i <= j IN a[i] < b[i]

\* A route table that is enabled and empty sends the traversal astray.
Regular == ~last.oom /\ (mib.max.rte = 1 => mib.rte.kids # <<>>)

\* GETNEXT returns the least instance after the name asked for, or none if there is none.
\* GET finds the instances, each with its definition, and nothing else.
WalkTrue ==
  Regular =>
    LET tree == internet(mib)
        all == Instances(tree)
    IN /\ \A name \in Asks :
            LET e == ExpandIn(tree, name)
                later == {q \in all : Less(name, q)}
            IN IF e.found THEN e.oid \in later /\ \A q \in later : ~Less(q, e.oid) ELSE later = {}
       /\ \A q \in all : LET f == SearchIn(tree, q) IN f.leaf = "ext" \/ Definition(f, q).instance
       /\ \A name \in Asks : name \notin all => ~Definition(SearchIn(tree, name), name).instance

\* The rows are the interfaces, addresses, networks, ARP entries and bindings there are;
\* an interface that was removed, or whose init failed, may leave its rows behind.
RowsTrue ==
  ~last.oom =>
    /\ Listed(mib.if) = {<<i>> : i \in DOMAIN net.list}
    /\ Listed(mib.addr) \subseteq net.strays \cup {net.nif[n].addr : n \in ToSet(net.list)}
    /\ Listed(mib.rte) \ {Zero} \subseteq net.strays \cup {Network(net.nif[n]) : n \in ToSet(net.list)}
    /\ Zero \in Listed(mib.rte) <=> net.default # 0
    /\ Listed(mib.at) = Listed(mib.ntom)
    /\ ~net.moved => Listed(mib.at) = {<<snmp_netiftoifindex(e[1])>> \o e[2] : e \in net.arp}
    /\ LET bound == {Binding(net.pcbs[q]) : q \in {r \in UdpPcbs : net.pcbs[r] # 0}} IN
       /\ bound \subseteq Listed(mib.udp)
       /\ ~net.rebound => Listed(mib.udp) = bound
    /\ \A t \in {"if", "at", "ntom", "addr", "udp"} : mib.max[t] = 1 <=> mib[t].kids # <<>>

Names(vbs) == [i \in DOMAIN vbs |-> vbs[i].name]
\* A response carries the names of its request, or of their successors, and points at the
\* varbind that failed; a GET that fails has given away the names before that one.
ResponseTrue ==
  last.sent =>
    LET given == Names(last.req)
        got == Names(last.vbs)
    IN CASE last.status = "noError" ->
              /\ last.index = 0 /\ Len(got) = Len(given)
              /\ IF last.rt = "getnext" THEN \A i \in DOMAIN got : Less(given[i], got[i]) ELSE got = given
         [] last.status = "tooBig" -> got = <<>> /\ (last.sized <=> last.index = 0)
         [] OTHER ->
              /\ last.index \in DOMAIN given
              /\ IF last.rt = "get"
                 THEN got = [i \in DOMAIN given |-> IF i < last.index THEN <<>> ELSE given[i]]
                 ELSE got = given

\* SET writes all of its values or none; when an object disappears meanwhile, the error points
\* at the first value not written.  (A tooBig sent for want of a buffer tells nothing.)
SetTrue ==
  /\ last.sent /\ last.rt = "set" =>
       /\ last.status = "noError" => last.wrote = DOMAIN last.req
       /\ last.status \in {"noSuchName", "badValue"} => last.wrote = {}
       /\ last.status = "genError" => last.wrote = 1 .. last.index - 1
  /\ \A i \in DOMAIN slot : slot[i].st \in {"EMPTY", "EXT_GET_OBJDEF", "EXT_SET_TEST"} => slot[i].wrote = {}

\* A slot waits only for an external object, and holds every name once; a free one holds nothing.
SlotsTrue ==
  \A i \in DOMAIN slot :
    LET s == slot[i] IN
    /\ s.st \in {"EMPTY", "EXT_GET_OBJDEF", "EXT_GET_VALUE", "EXT_SET_TEST", "EXT_GET_OBJDEF_S",
                 "EXT_SET_VALUE"}
    /\ IF s.st = "EMPTY" THEN s.invb = <<>> /\ s.outvb = <<>>
       ELSE /\ s.idx < Len(s.invb)
            /\ s.rt # "set" => Len(s.outvb) = s.idx
            /\ s.rt = "get" => \A j \in DOMAIN s.invb : (s.invb[j].name = <<>>) <=> j <= s.idx
            /\ Search(s.oid).leaf = "ext"

\* Each counter is published by exactly one object of its group, and each object has a value.
CountersTrue ==
  /\ {ip_get_value(id) : id \in (3 .. 12) \cup (14 .. 19) \cup {23}} = ip_counters
  /\ {icmp_get_value(id) : id \in 1 .. 26} = icmp_counters
  /\ {tcp_get_value(id) : id \in (5 .. 8) \cup (10 .. 12) \cup {14, 15}} = tcp_counters
  /\ {udp_get_value(id) : id \in 1 .. 4} = udp_counters
  /\ {snmp_get_value(id) : id \in (1 .. 6) \cup (8 .. 22) \cup (24 .. 29)} = snmp_counters

Blank(sizes) == [i \in DOMAIN sizes |-> [j \in 1 .. sizes[i] |-> B - 1]]
Encoded(c) ==
  CASE c.kind = "length" -> snmp_asn1_enc_length(c.value)
    [] c.kind = "u32" -> snmp_asn1_enc_u32t(c.value, snmp_asn1_enc_u32t_cnt(c.value))
    [] c.kind = "s32" -> snmp_asn1_enc_s32t(c.value, snmp_asn1_enc_s32t_cnt(c.value))
    [] c.kind = "oid" -> snmp_asn1_enc_oid(c.value)
    [] c.kind = "raw" -> snmp_asn1_enc_raw(c.value)
\* What is encoded anywhere in a chain of pbufs decodes to the same value, takes the octets that
\* were counted for it, the fewest that hold it, and touches no other; the encoding fails exactly
\* when the chain ends too early (an identifier of two needs an octet after its own).
CodesTrue(c, sizes) ==
  \E os \in {Encoded(c)} :
  \E put \in {IF c.kind = "oid" THEN PutOid(Blank(sizes), c.ofs, c.value) ELSE Put(Blank(sizes), c.ofs, os)} :
  LET after == IF c.kind = "oid" /\ Len(os) = 1 THEN 1 ELSE 0
      flat == FlattenSeq(put.chain)
      back == Get(put.chain, c.ofs, Len(os))
      room == Len(flat) - c.ofs
  IN /\ put.ok <=> Len(os) + after <= room
     /\ put.ok =>
          /\ flat = [i \in 1 .. c.ofs |-> B - 1] \o os \o [i \in 1 .. room - Len(os) |-> B - 1]
          /\ CASE c.kind = "length" ->
                    /\ Len(os) = snmp_asn1_enc_length_cnt(c.value)
                    /\ snmp_asn1_dec_length(put.chain, c.ofs) =
                         [ok |-> TRUE, used |-> Len(os), length |-> c.value]
               [] c.kind = "u32" -> /\ snmp_asn1_dec_u32t(back) = c.value
                                    /\ Len(os) > 1 => os[1] # 0 \/ os[2] >= H
               [] c.kind = "s32" -> /\ snmp_asn1_dec_s32t(back) = c.value
                                    /\ Len(os) > 1 => ~(os[1] = 0 /\ os[2] < H) /\ ~(os[1] = B - 1 /\ os[2] >= H)
               [] c.kind = "oid" ->
                    /\ Len(os) = snmp_asn1_enc_oid_cnt(c.value)
                    /\ LET d == snmp_asn1_dec_oid(back) IN
                       IF Len(c.value) <= LWIP_SNMP_OBJ_ID_LEN THEN d.ok /\ d.id = c.value ELSE ~d.ok
               [] c.kind = "raw" -> snmp_asn1_dec_raw(back, Len(c.value)) = c.value
=============================================================================
