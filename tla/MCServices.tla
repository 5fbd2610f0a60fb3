----------------------------- MODULE MCServices -----------------------------
(***************************************************************************)
(* lwIP's SNMP agent, its memory and its datagrams.  As in MCNet, a        *)
(* behaviour exercises one of them, named by part: its variables are x1,   *)
(* x2, ...                                                                 *)
(***************************************************************************)
EXTENDS Integers, Sequences, TLC

CONSTANT Parts

VARIABLES part, x1, x2, x3, x4, x5

vars == <<part, x1, x2, x3, x4, x5>>

\* Two interfaces, two hosts and two UDP sockets come and go.
Under(q) == <<1, 3, 6, 1>> \o q
Names == {<<>>, <<1, 3>>} \cup
         {Under(q) : q \in {<<2, 1, 2, 2, 1, 22>>, <<2, 1, 3, 1, 1, 3, 2, 1, 3>>, <<2, 1, 3, 1, 1, 2, 1, 1, 3>>,
                            <<2, 1, 4, 19, 0>>, <<2, 1, 4, 20, 1, 2, 1, 1>>, <<2, 1, 4, 21, 1, 1, 0, 0>>,
                            <<2, 1, 4, 21, 1, 13, 9>>, <<2, 1, 7, 5, 1, 1, 0, 0, 7>>,
                            <<2, 1, 11, 30, 0>>, <<4, 1, 2>>}}
Rows == INSTANCE Snmp WITH
  IPLEN <- 2, Netifs <- {1, 2}, Addrs <- {<<0, 0>>, <<1, 1>>, <<1, 2>>}, Hosts <- {<<1, 3>>, <<2, 1>>},
  Ports <- {7, 8}, UdpPcbs <- {1, 2}, Asks <- {}, Requests <- {}, ExtIds <- <<<<1, 3>>, <<1, 2>>>>,
  Writable <- {}, TrapDests <- 0, SNMP_CONCURRENT_REQUESTS <- 1, Mem <- {99}, MaxOps <- 4, MaxRequests <- 0,
  B <- 8, LWIP_SNMP_OBJ_ID_LEN <- 32, mib <- x1, net <- x2, slot <- x3, val <- x4, last <- x5
Tree == INSTANCE Snmp WITH
  IPLEN <- 2, Netifs <- {1, 2}, Addrs <- {<<0, 0>>, <<1, 1>>}, Hosts <- {<<1, 3>>},
  Ports <- {7}, UdpPcbs <- {1}, Asks <- Names, Requests <- {}, ExtIds <- <<<<1, 3>>, <<1, 2>>>>,
  Writable <- {}, TrapDests <- 0, SNMP_CONCURRENT_REQUESTS <- 1, Mem <- {99}, MaxOps <- 3, MaxRequests <- 0,
  B <- 256, LWIP_SNMP_OBJ_ID_LEN <- 4, mib <- x1, net <- x2, slot <- x3, val <- x4, last <- x5

\* Two requests at a time, some for objects that answer later, memory for none, some or all.
Vb(q, type, v) == [name |-> Under(q), type |-> type, val |-> v]
Message(pdu, vbs) == [shape |-> TRUE, version |-> 0, community |-> "public", pdu |-> pdu, status |-> 0,
                      index |-> 0, vbs |-> vbs]
NameAsked == Message("get", <<Vb(<<2, 1, 1, 5, 0>>, "null", 0)>>)
Messages ==
  {Message("get", <<Vb(<<2, 1, 1, 5, 0>>, "null", 0), Vb(<<4, 1, 2>>, "null", 0), Vb(<<2, 1, 1, 9, 0>>, "null", 0)>>),
   Message("get", <<Vb(<<2, 1, 1, 4, 0>>, "null", 0), Vb(<<2, 1, 2, 2, 1, 2, 1>>, "null", 0)>>),
   Message("getnext", <<Vb(<<2, 1, 11, 30, 0>>, "null", 0), Vb(<<2, 1, 1, 5, 0>>, "null", 0)>>),
   Message("set", <<Vb(<<2, 1, 1, 4, 0>>, "octets", "new"), Vb(<<4, 1, 2>>, "octets", "new"),
                    Vb(<<2, 1, 11, 30, 0>>, "int", 1)>>),
   Message("set", <<Vb(<<4, 1, 2>>, "octets", "own"), Vb(<<2, 1, 1, 5, 0>>, "octets", "x")>>),
   Message("set", <<Vb(<<2, 1, 11, 30, 0>>, "int", 3)>>),
   [NameAsked EXCEPT !.community = "other"], [NameAsked EXCEPT !.pdu = "trap"],
   [NameAsked EXCEPT !.status = 5]}
Agent == INSTANCE Snmp WITH
  IPLEN <- 2, Netifs <- {1}, Addrs <- {<<1, 1>>}, Hosts <- {}, Ports <- {}, UdpPcbs <- {}, Asks <- {},
  Requests <- Messages, ExtIds <- <<<<1, 3>>, <<1, 2>>>>, Writable <- {4, 30}, TrapDests <- 2,
  SNMP_CONCURRENT_REQUESTS <- 2, Mem <- {4, 99}, MaxOps <- 1, MaxRequests <- 2,
  B <- 256, LWIP_SNMP_OBJ_ID_LEN <- 32, mib <- x1, net <- x2, slot <- x3, val <- x4, last <- x5

\* Every word of four octets of three bits, and real octets for names and lengths.
Coded(kind, values) == [kind : {kind}, value : values, ofs : {2}]
SmallCodes == Coded("u32", 0 .. 8 ^ 4 - 1) \cup Coded("s32", -(8 ^ 4 \div 2) .. (8 ^ 4 \div 2) - 1)
Subs == {0, 127, 128, 16383, 16384, 2097152, 268435455, 268435456, 2147483647}
RealCodes ==
  Coded("length", {0, 1, 127, 128, 129, 255, 256, 257, 32768, 65535}) \cup
  Coded("oid", {<<1, 3>>, <<0, 39>>, <<2, 47>>} \cup {<<1, 3, a, b>> : a, b \in Subs} \cup {<<1, 3, 6, 1, a>> : a \in Subs}) \cup
  Coded("raw", {<<>>, <<7>>, <<1, 2, 3>>})
Single == <<1, 1, 1, 1, 1, 1, 1>>
Chains == {Single, <<3, 2, 8>>}

\* A heap of 24 bytes; two pool pbufs with a heap of 12; and with a reference.
Heap == INSTANCE Pbuf WITH
  MEM_SIZE <- 24, MEM_ALIGNMENT <- 2, SIZEOF_STRUCT_MEM <- 2, MIN_SIZE <- 3, SIZEOF_STRUCT_PBUF <- 2,
  PBUF_POOL_BUFSIZE <- 4, PoolIds <- <<>>, RefIds <- <<>>, Sizes <- {1, 5, 7, 12}, Types <- {}, Layers <- {},
  Lengths <- {}, Increments <- {}, MaxHeld <- 9, heap <- x1, tab <- x2, pb <- x3, app <- x4
Bufs == INSTANCE Pbuf WITH
  MEM_SIZE <- 12, MEM_ALIGNMENT <- 2, SIZEOF_STRUCT_MEM <- 2, MIN_SIZE <- 3, SIZEOF_STRUCT_PBUF <- 2,
  PBUF_POOL_BUFSIZE <- 4, PoolIds <- <<101, 102>>, RefIds <- <<>>, Sizes <- {}, Types <- {"pool", "ram"},
  Layers <- {1}, Lengths <- {3}, Increments <- {-2, 2}, MaxHeld <- 2, heap <- x1, tab <- x2, pb <- x3, app <- x4
Refs == INSTANCE Pbuf WITH
  MEM_SIZE <- 12, MEM_ALIGNMENT <- 2, SIZEOF_STRUCT_MEM <- 2, MIN_SIZE <- 3, SIZEOF_STRUCT_PBUF <- 2,
  PBUF_POOL_BUFSIZE <- 4, PoolIds <- <<101, 102>>, RefIds <- <<201>>, Sizes <- {}, Types <- {"pool", "ref"},
  Layers <- {1}, Lengths <- {3}, Increments <- {-2, 2}, MaxHeld <- 2, heap <- x1, tab <- x2, pb <- x3, app <- x4

\* Three datagrams of two to four fragments through a narrow interface.
Own == <<1, 1>>
Peer == <<1, 2>>
Tcp(id, n) ==
  [src |-> Peer, dst |-> Own, proto |-> "tcp", id |-> id, off |-> 0, mf |-> FALSE, data |-> [i \in 1 .. n |-> 10 * id + i],
   sport |-> 5, dport |-> 6, type |-> 8, shape |-> "ok", opts |-> FALSE, clen |-> 1]
Eth == [up |-> TRUE, ip |-> Own, broadcast |-> TRUE, mtu |-> 4, dhcp |-> FALSE]
Frag == INSTANCE Ip WITH
  IP_HLEN <- 1, OCTETS <- 2, IP_REASS_MAX_PBUFS <- 4, IP_REASS_MAXAGE <- 1, MEMP_NUM_REASSDATA <- 3,
  Datagrams <- {Tcp(1, 9), Tcp(2, 5), Tcp(3, 4)}, Mtus <- {4}, Packets <- {[Tcp(1, 2) EXCEPT !.opts = TRUE, !.mf = TRUE]},
  UdpPcbs <- {}, RawPcbs <- {}, Ports <- {}, FIRST_PORT <- 7, LAST_PORT <- 8, OwnAddrs <- {}, Peers <- {}, Data <- {},
  MaxHeld <- 4, InitialNetifs <- {<<Eth>>}, NetifsChange <- FALSE,
  Choice <- [mem : BOOLEAN, room : {"all"}, eater : {0}, frags : {99}],
  reass <- x1, pcbs <- x2, netif <- x3, bufs <- x4, seen <- x5

\* Two UDP sockets; and two raw sockets with everything else that may arrive.
Packet(proto, src, dst, sport, dport) ==
  [Tcp(1, 2) EXCEPT !.proto = proto, !.src = src, !.dst = dst, !.sport = sport, !.dport = dport]
Udps == {Packet("udp", Peer, Own, 5, 6), Packet("udp", <<1, 3>>, <<1, 255>>, 6, 6), Packet("udp", Peer, Own, 6, 7),
         [Packet("udp", Peer, Own, 5, 6) EXCEPT !.shape = "sum"]}
Others == {Packet("udp", <<0, 0>>, <<1, 7>>, 67, 68), Packet("udp", <<0, 0>>, Own, 67, 68), Packet("udp", Peer, Own, 6, 7),
           Packet("icmp", Peer, Own, 0, 0), Packet("icmp", Peer, <<255, 255>>, 0, 0), Packet("gre", Peer, Own, 0, 0),
           Packet("gre", Peer, <<1, 255>>, 0, 0), Packet("udp", <<224, 1>>, Own, 5, 6), Packet("udp", Peer, <<1, 255>>, 5, 6),
           [Packet("gre", Peer, Own, 5, 6) EXCEPT !.opts = TRUE], [Packet("udp", Peer, Own, 5, 6) EXCEPT !.shape = "version"],
           [Packet("icmp", Peer, Own, 5, 6) EXCEPT !.shape = "short"]}
Socks == INSTANCE Ip WITH
  IP_HLEN <- 1, OCTETS <- 2, IP_REASS_MAX_PBUFS <- 4, IP_REASS_MAXAGE <- 1, MEMP_NUM_REASSDATA <- 3,
  Datagrams <- {}, Mtus <- {}, Packets <- Udps, UdpPcbs <- {1, 2}, RawPcbs <- {}, Ports <- {6}, FIRST_PORT <- 7,
  LAST_PORT <- 8, OwnAddrs <- {Own, <<0, 0>>}, Peers <- {Peer}, Data <- {<<1, 2, 3, 4>>},
  MaxHeld <- 1, InitialNetifs <- {<<Eth>>}, NetifsChange <- TRUE,
  Choice <- {[mem |-> TRUE, room |-> "all", eater |-> 0, frags |-> 99], [mem |-> FALSE, room |-> "udp", eater |-> 0, frags |-> 1]},
  reass <- x1, pcbs <- x2, netif <- x3, bufs <- x4, seen <- x5
Raws == INSTANCE Ip WITH
  IP_HLEN <- 1, OCTETS <- 2, IP_REASS_MAX_PBUFS <- 4, IP_REASS_MAXAGE <- 1, MEMP_NUM_REASSDATA <- 3,
  Datagrams <- {}, Mtus <- {}, Packets <- Others, UdpPcbs <- {}, RawPcbs <- {3, 4}, Ports <- {6}, FIRST_PORT <- 7,
  LAST_PORT <- 8, OwnAddrs <- {Own}, Peers <- {Peer}, Data <- {<<1, 2, 3, 4>>},
  MaxHeld <- 1, InitialNetifs <- {<<[Eth EXCEPT !.dhcp = TRUE]>>}, NetifsChange <- TRUE,
  Choice <- {[mem |-> TRUE, room |-> "all", eater |-> 3, frags |-> 99], [mem |-> FALSE, room |-> "none", eater |-> 4, frags |-> 1]},
  reass <- x1, pcbs <- x2, netif <- x3, bufs <- x4, seen <- x5
-----------------------------------------------------------------------------
Off == "unused"

Init ==
  /\ part \in Parts
  /\ \/ part = "heap" /\ Heap!PbufInit /\ x5 = Off
     \/ part = "pbufs" /\ Bufs!PbufInit /\ x5 = Off
     \/ part = "refs" /\ Refs!PbufInit /\ x5 = Off
     \/ part = "fragments" /\ Frag!IpInit
     \/ part = "udp" /\ Socks!IpInit
     \/ part = "raw" /\ Raws!IpInit
     \/ part = "mib rows" /\ Rows!SnmpInit
     \/ part = "mib walk" /\ Tree!SnmpInit
     \/ part = "agent" /\ Agent!SnmpInit
     \/ part = "words" /\ x1 \in SmallCodes /\ x2 = Single /\ x3 = Off /\ x4 = Off /\ x5 = Off
     \/ part = "codes" /\ x1 \in RealCodes /\ x2 \in Chains /\ x3 = Off /\ x4 = Off /\ x5 = Off

Next ==
  /\ UNCHANGED part
  /\ \/ part = "heap" /\ Heap!PbufNext /\ UNCHANGED x5
     \/ part = "pbufs" /\ Bufs!PbufNext /\ UNCHANGED x5
     \/ part = "refs" /\ Refs!PbufNext /\ UNCHANGED x5
     \/ part = "fragments" /\ Frag!IpNext
     \/ part = "udp" /\ Socks!IpNext
     \/ part = "raw" /\ Raws!IpNext
     \/ part = "mib rows" /\ Rows!TablesNext
     \/ part = "mib walk" /\ Tree!TablesNext
     \/ part = "agent" /\ Agent!SnmpNext

Spec == Init /\ [][Next]_vars
-----------------------------------------------------------------------------
\* A manager walks exactly the rows there are, whatever interfaces, hosts and sockets came and
\* went (snmp_expand_tree, snmp_insert/delete_*idx_tree); a response matches its request, and a
\* SET writes all or nothing (snmp_msg_event); codes decode to what was encoded.
CallsTrue == /\ part = "mib rows" => Rows!RowsTrue
             /\ part = "mib walk" => Tree!WalkTrue
             /\ part = "agent" => Agent!ResponseTrue /\ Agent!SetTrue /\ Agent!SlotsTrue
             /\ part = "words" => Rows!CodesTrue(x1, x2)
             /\ part = "codes" => Tree!CodesTrue(x1, x2) /\ Tree!CountersTrue

\* Blocks and buffers are owned once and freed when nobody needs them (mem_malloc, mem_free, pbuf_free,
\* pbuf_cat); fragments are accounted for and delivered in place (ip_reass); a datagram finds its
\* socket, and what is sent bears an address of the host (udp_input, udp_sendto_if, raw_input).
DatagramsTrue == /\ part = "heap" => Heap!HeapTrue
                 /\ part = "pbufs" => Bufs!HeapTrue /\ Bufs!PbufTrue
                 /\ part = "refs" => Refs!PbufTrue
                 /\ part = "fragments" => Frag!ReassTrue
                 /\ part = "udp" => Socks!SocketsTrue
                 /\ part = "raw" => Raws!SocketsTrue

\* What reassembly delivers was sent: "the totally last fragment (flag more fragments = 0) was
\* received at least once AND all fragments are received" (ip_frag.c:552).
ReassembledWhole == part = "fragments" => Frag!Whole
=============================================================================
