------------------------------- MODULE MCNet --------------------------------
(***************************************************************************)
(* lwIP's addresses and its TCP.  Each protocol has its own state, so a    *)
(* behaviour exercises one of them, named by part: its variables are x1,   *)
(* x2, ..., and for the DHCP client those of Dhcp.                         *)
(***************************************************************************)
EXTENDS Dhcp, Sequences, TLC

CONSTANT Parts

VARIABLES part, x1, x2, x3, x4, x5

vars == <<part, x1, x2, x3, x4, x5, dhcp, netif, hist>>

\* Two hosts and one behind the gateway share a cache of two entries.
Arp == INSTANCE Etharp WITH
  ARP_TABLE_SIZE <- 2, ARP_MAXAGE <- 3, ARP_MAXPENDING <- 2, MEMP_NUM_ARP_QUEUE <- 2,
  Local <- {"h1", "gw"}, Remote <- {"r"}, Gateway <- "gw", Macs <- {"m1", "m2"},
  arp_table <- x1, etharp_cached_entry <- x2, q_used <- x3, told <- x4, right <- x5

\* Leases with and without an end, options in all three fields.
DhcpOptions ==
  {[overload |-> "file", options |-> ("server" :> "s1" @@ "lease" :> 6),
    file |-> ("t1" :> 2 @@ "mask" :> "C"), sname |-> <<>>],
   [overload |-> "both", options |-> ("lease" :> 63), file |-> <<>>, sname |-> ("router" :> "gw")]}

\* Four bytes and a FIN, across the wrap of the sequence numbers.
In == INSTANCE TcpIn WITH
  SEQ <- 16, IRS <- 13, LAST <- 4, TCP_WND <- 3, MSS <- 2, rcv <- x1, app <- x2

\* Four bytes and a FIN through a window that closes.
Out == INSTANCE TcpOut WITH
  SEQ <- 16, ISS <- 13, LAST <- 4, MSS <- 2, U16 <- 12, TCP_SND_BUF <- 4, TCP_SND_QUEUELEN <- 6,
  TCP_MAXRTX <- 2, Windows <- {0, 3}, PerSegment <- {2}, snd <- x1

\* Two blocks, two ports, one peer.
Conn == INSTANCE TcpConn WITH
  Pcbs <- {1, 2}, MEMP_NUM_TCP_PCB_LISTEN <- 1, Ports <- {1, 2}, Peers <- {"x"}, Prios <- {1, 2},
  PRIO_NORMAL <- 2, AGE <- 1, pcb <- x1, lists <- x2, port <- x3, app <- x4
-----------------------------------------------------------------------------
Off == "unused"

Init ==
  /\ part \in Parts /\ DhcpInit
  /\ \/ part = "arp" /\ Arp!ArpInit
     \/ part = "dhcp" /\ x1 = Off /\ x2 = Off /\ x3 = Off /\ x4 = Off /\ x5 = Off
     \/ part = "tcp in" /\ In!TcpInInit /\ x3 = Off /\ x4 = Off /\ x5 = Off
     \/ part = "tcp out" /\ Out!TcpOutInit /\ x2 = Off /\ x3 = Off /\ x4 = Off /\ x5 = Off
     \/ part = "tcp" /\ Conn!TcpInit /\ x5 = Off

Next ==
  /\ UNCHANGED part
  /\ \/ part = "arp" /\ Arp!ArpNext /\ UNCHANGED dhcpVars
     \/ part = "dhcp" /\ DhcpNext /\ UNCHANGED <<x1, x2, x3, x4, x5>>
     \/ part = "tcp in" /\ In!TcpInNext /\ UNCHANGED <<x3, x4, x5, dhcpVars>>
     \/ part = "tcp out" /\ Out!TcpOutNext /\ UNCHANGED <<x2, x3, x4, x5, dhcpVars>>
     \/ part = "tcp" /\ Conn!TcpNext /\ UNCHANGED <<x5, dhcpVars>>

Spec == Init /\ [][Next]_vars
-----------------------------------------------------------------------------
\* An address resolved is the one its host told last and packets wait in order
\* (find_entry, update_arp_entry, etharp_query); the address a client checks, or uses
\* since it was checked, is one that nobody has answered for (dhcp_arp_reply).
AddressesTrue == /\ part = "arp" => Arp!ArpTrue
                 /\ DhcpTypeOK /\ LeaseEarned

\* The application gets the stream in order, none of it twice and none missing,
\* whatever the order of the segments and whatever it refuses (tcp_receive,
\* tcp_input, tcp_fasttmr); and what was written and not acknowledged is queued exactly
\* once, with something there to send it again (tcp_enqueue, tcp_output, tcp_rexmit_rto).
StreamTrue == /\ part = "tcp in" => In!StreamTrue
              /\ part = "tcp out" => Out!SendTrue

\* A control block is on the list its state names and is freed only when the
\* application knows (tcp_close, tcp_process, tcp_alloc, tcp_slowtmr).
ConnectionsTrue == part = "tcp" => Conn!ConnectionsTrue

\* A connection that was closed and wholly acknowledged leaves FIN_WAIT_1: after
\* tcp_close "The pcb is then automatically freed in tcp_slowtmr()" (tcp.c:102).
ClosedIsFreed == part = "tcp out" => Out!ClosedIsFreed
=============================================================================
