------------------------------- MODULE TcpConn -------------------------------
(***************************************************************************)
(* The TCP connections of lwIP (tcp.c, tcp_in.c): the pool of protocol     *)
(* control blocks, the lists they are on, ports, the state machine, the    *)
(* timers that remove connections and what the application is told.  What  *)
(* a segment's numbers say is an input: whether its acknowledgement is the *)
(* expected one, whether its FIN is in sequence, whether a reset is        *)
(* acceptable.  Segments are late, repeated and lost.                      *)
(***************************************************************************)
EXTENDS Integers, Sequences, SequencesExt, FiniteSetsExt

CONSTANTS Pcbs,                  \* the pool of tcp_pcb: MEMP_NUM_TCP_PCB
          MEMP_NUM_TCP_PCB_LISTEN,
          Ports,                 \* TCP_LOCAL_PORT_RANGE_START .. END
          Peers,                 \* remote addresses and ports
          Prios, PRIO_NORMAL,
          AGE                    \* ages above are not told apart

VARIABLES pcb,                   \* the blocks
          lists,                 \* tcp_bound_pcbs, tcp_listen_pcbs, tcp_active_pcbs, tcp_tw_pcbs
          port,                  \* tcp_new_port's static variable
          app                    \* the blocks the application may use; history

tcpVars == <<pcb, lists, port, app>>

Nobody == "nobody"
Blank == [state |-> "CLOSED", used |-> FALSE, lport |-> 0, peer |-> Nobody, prio |-> PRIO_NORMAL, age |-> 0,
          sent |-> FALSE]

\* holds: blocks the application has and has not closed; lost: one of them was freed
\* and no callback said so; taken: tcp_new_port returned a port some block is bound to.
TcpInit ==
  /\ pcb = [i \in Pcbs |-> Blank]
  /\ lists = [bound |-> {}, listen |-> {}, active |-> <<>>, tw |-> <<>>]
  /\ port = Min(Ports)
  /\ app = [holds |-> {}, lost |-> FALSE, taken |-> FALSE]

\* The functions below take and return the state t.
State == [p |-> pcb, l |-> lists, n |-> port, a |-> app]
Becomes(t) == pcb' = t.p /\ lists' = t.l /\ port' = t.n /\ app' = t.a

Without(q, i) == SelectSeq(q, LAMBDA j : j # i)
\* A slip that leaves the block on the list of those that are bound.
TCP_RMVMutant(t, i) == [t EXCEPT !.l.active = Without(@, i), !.l.tw = Without(@, i)]

TCP_RMV(t, i) == [t EXCEPT !.l.bound = @ \ {i}, !.l.active = Without(@, i), !.l.tw = Without(@, i)]
Moved(t, i, state) ==
  LET u == TCP_RMV(t, i) IN
  IF state = "TIME_WAIT" THEN [u EXCEPT !.l.tw = <<i>> \o @, !.p[i].state = state]
  ELSE [u EXCEPT !.l.active = <<i>> \o @, !.p[i].state = state]
Goes(t, i, state) == [t EXCEPT !.p[i].state = state]

\* The block is taken off its list and freed; told: the error callback was called.
Freed(t, i, told) ==
  LET u == TCP_RMV(t, i) IN
  [u EXCEPT !.p[i] = Blank, !.a.holds = @ \ {i}, !.a.lost = @ \/ (i \in t.a.holds /\ ~told)]

tcp_abort(t, i) == Freed(t, i, t.p[i].state # "TIME_WAIT")

\* The block the scan of tcp_kill_prio ends with, 0 if none.
Scan(t, q, prio) ==
  FoldLeft(LAMBDA best, i :
             IF t.p[i].prio <= prio /\ t.p[i].prio <= best.prio /\ t.p[i].age >= best.age
             THEN [i |-> i, age |-> t.p[i].age, prio |-> t.p[i].prio] ELSE best,
           [i |-> 0, age |-> 0, prio |-> Max(Prios)], q)
tcp_kill_prio(t, prio) ==
  LET i == Scan(t, t.l.active, prio).i IN
  IF i = 0 THEN t ELSE tcp_abort(t, i)

Oldest(t, q) == FoldLeft(LAMBDA i, j : IF i = 0 \/ t.p[j].age >= t.p[IF i = 0 THEN j ELSE i].age THEN j ELSE i, 0, q)
tcp_kill_timewait(t) == IF t.l.tw = <<>> THEN t ELSE tcp_abort(t, Oldest(t, t.l.tw))

Unused(t) == {i \in Pcbs : ~t.p[i].used}
Room(t, prio) ==
  LET u == IF Unused(t) = {} THEN tcp_kill_timewait(t) ELSE t
  IN  IF Unused(u) = {} THEN tcp_kill_prio(u, prio) ELSE u
\* NULL is 0.
tcp_alloc(t, prio) ==
  LET u == Room(t, prio) IN
  IF Unused(u) = {} THEN [t |-> u, i |-> 0]
  ELSE LET i == Min(Unused(u)) IN [t |-> [u EXCEPT !.p[i].used = TRUE], i |-> i]

tcp_new ==
  LET x == tcp_alloc(State, PRIO_NORMAL) IN
  Becomes(IF x.i = 0 THEN x.t ELSE [x.t EXCEPT !.a.holds = @ \cup {x.i}])

LocalPorts(t, is) == {t.p[i].lport : i \in is}
ListenPorts(t) == {l.lport : l \in t.l.listen}
Active(t) == Range(t.l.active)
Waiting(t) == Range(t.l.tw)

\* The next port that no active, waiting or listening block has.
tcp_new_port(t) ==
  LET busy == LocalPorts(t, Active(t) \cup Waiting(t)) \cup ListenPorts(t)
      free == Ports \ busy
      above == {n \in free : n > t.n}
      n == IF above # {} THEN Min(above) ELSE Min(free)
  IN  [t EXCEPT !.n = n, !.a.taken = @ \/ n \in LocalPorts(t, t.l.bound)]
PortLeft(t) == Ports \ (LocalPorts(t, Active(t) \cup Waiting(t)) \cup ListenPorts(t)) # {}

\* A block that is not bound yet is bound to a port, or to any (n = 0).  The address is the
\* only local one: a block in TIME_WAIT has it, and then the port is in use.
tcp_bind(i, n) ==
  /\ i \in app.holds /\ pcb[i].state = "CLOSED" /\ pcb[i].lport = 0
  /\ n = 0 => PortLeft(State)
  /\ LET t == IF n = 0 THEN tcp_new_port(State) ELSE State
         m == IF n = 0 THEN t.n ELSE n
         inUse == m \in ListenPorts(t) \cup LocalPorts(t, Active(t) \cup Waiting(t) \cup t.l.bound)
     IN  Becomes(IF inUse THEN t ELSE [t EXCEPT !.p[i].lport = m, !.l.bound = @ \cup {i}])

\* The block is exchanged for a smaller one, whose priority nobody sets.
tcp_listen(i, prio) ==
  /\ i \in lists.bound
  /\ Cardinality(lists.listen) < MEMP_NUM_TCP_PCB_LISTEN
  /\ LET t == Freed([State EXCEPT !.a.holds = @ \ {i}], i, TRUE)
     IN  Becomes([t EXCEPT !.l.listen = @ \cup {[lport |-> pcb[i].lport, prio |-> prio]}])

\* mem: the SYN could be queued.
tcp_connect(i, peer, mem) ==
  /\ i \in app.holds /\ pcb[i].state = "CLOSED"
  /\ pcb[i].lport = 0 => PortLeft(State)
  /\ LET t == IF pcb[i].lport = 0 THEN tcp_new_port(State) ELSE State
         u == [t EXCEPT !.p[i].lport = IF @ = 0 THEN t.n ELSE @, !.p[i].peer = peer, !.p[i].sent = mem]
     IN  Becomes(Moved(u, i, "SYN_SENT"))

\* mem: the FIN could be queued; if not the application keeps the block.
tcp_close(i, mem) ==
  /\ i \in app.holds
  /\ LET s == pcb[i].state
         t == [State EXCEPT !.a.holds = @ \ {i}]
     IN  Becomes(IF s \in {"CLOSED", "SYN_SENT"} THEN Freed(t, i, TRUE)
                 ELSE IF ~mem THEN State
                 ELSE Goes(t, i, IF s = "CLOSE_WAIT" THEN "LAST_ACK" ELSE "FIN_WAIT_1"))

tcp_close_listen(l) ==
  /\ l \in lists.listen
  /\ Becomes([State EXCEPT !.l.listen = @ \ {l}])

abort(i) ==
  /\ i \in app.holds /\ pcb[i].state # "CLOSED"
  /\ Becomes(tcp_abort([State EXCEPT !.a.holds = @ \ {i}], i))

\* A segment: which flags it has, and what tcp_process finds out about its numbers.
Segs == [syn : BOOLEAN, ack : {"none", "expected", "other"}, fin : {"none", "now", "later", "queued"},
         rst : {"none", "good", "bad"}]
\* Those a peer sends; a queued FIN is one ->ooseq had and this segment brought in sequence.
Segments ==
  {s \in Segs : /\ s.syn => s.fin = "none"
                /\ s.rst # "none" => ~s.syn /\ s.fin = "none"
                /\ s.fin # "none" => s.ack # "none"}

Fin(s) == s.fin \in {"now", "later"}

\* The states of a connection that the application has closed.
Closing(t, i, s) ==
  LET state == t.p[i].state
      acked == s.ack = "expected"
  IN  CASE state = "FIN_WAIT_1" /\ Fin(s) -> IF acked THEN Moved(t, i, "TIME_WAIT") ELSE Goes(t, i, "CLOSING")
        [] state = "FIN_WAIT_1" /\ ~Fin(s) /\ acked -> Goes(t, i, "FIN_WAIT_2")
        [] state = "FIN_WAIT_2" /\ Fin(s) -> Moved(t, i, "TIME_WAIT")
        [] state = "CLOSING" /\ acked -> Moved(t, i, "TIME_WAIT")
        [] state = "LAST_ACK" /\ acked -> Freed(t, i, FALSE)
        [] OTHER -> t

\* The block i; accepts: the accept callback returns no error.
tcp_process(t, i, s, accepts) ==
  LET state == t.p[i].state
      \* tcp_receive
      passive == IF s.fin = "queued" /\ state = "ESTABLISHED" THEN Goes(t, i, "CLOSE_WAIT") ELSE t
  IN  CASE s.rst # "none" -> IF s.rst = "good" THEN Freed(t, i, TRUE) ELSE t
        [] s.rst = "none" /\ state = "SYN_SENT" ->
             IF s.ack = "expected" /\ s.syn /\ t.p[i].sent THEN Goes(t, i, "ESTABLISHED") ELSE t
        [] s.rst = "none" /\ state = "SYN_RCVD" ->
             IF s.ack # "expected" THEN t
             ELSE IF ~accepts THEN tcp_abort(t, i)
             ELSE LET u == [t EXCEPT !.a.holds = @ \cup {i}] IN
                  Goes(u, i, IF s.fin \in {"now", "queued"} THEN "CLOSE_WAIT" ELSE "ESTABLISHED")
        [] s.rst = "none" /\ state \in {"ESTABLISHED", "CLOSE_WAIT"} ->
             IF s.fin = "now" THEN Goes(t, i, "CLOSE_WAIT") ELSE passive
        [] OTHER -> Closing(t, i, s)

tcp_listen_input(t, l, s, peer) ==
  IF s.ack # "none" \/ ~s.syn THEN t
  ELSE LET x == tcp_alloc(t, l.prio) IN
       IF x.i = 0 THEN x.t
       ELSE Moved([x.t EXCEPT !.p[x.i].lport = l.lport, !.p[x.i].peer = peer, !.p[x.i].sent = TRUE], x.i, "SYN_RCVD")

Matching(q, n, peer) == SelectSeq(q, LAMBDA i : pcb[i].lport = n /\ pcb[i].peer = peer)

\* A match on the active list moves to the front; a reset that finds nobody is ignored,
\* anything else is answered with one.
tcp_input(s, n, peer, accepts) ==
  LET hit == Matching(lists.active, n, peer)
      t == State
      front(i) == [t EXCEPT !.l.active = <<i>> \o Without(@, i), !.p[i].age = IF s.rst = "none" THEN 0 ELSE @]
  IN  IF hit # <<>> THEN Becomes(tcp_process(front(hit[1]), hit[1], s, accepts))
      ELSE IF Matching(lists.tw, n, peer) # <<>> THEN Becomes(t)
      ELSE \/ \E l \in lists.listen : l.lport = n /\ Becomes(tcp_listen_input(t, l, s, peer))
           \/ n \notin ListenPorts(State) /\ Becomes(t)

\* The states a timer may take a connection out of: too many retransmissions of what
\* was sent, or too long in the state.  LAST_ACK and FIN_WAIT_2 are the application's no more.
Leaves(i) ==
  \/ pcb[i].sent \/ pcb[i].state \in {"FIN_WAIT_2", "LAST_ACK", "SYN_RCVD"}

RECURSIVE FreeAll(_, _, _)
FreeAll(t, is, told) ==
  IF is = {} THEN t ELSE LET i == Min(is) IN FreeAll(Freed(t, i, told), is \ {i}, told)

\* The blocks in due have waited long enough.
tcp_slowtmr(due) ==
  LET older == [i \in Pcbs |-> IF pcb[i].used THEN [pcb[i] EXCEPT !.age = Min({@ + 1, AGE})] ELSE pcb[i]]
      t == FreeAll([State EXCEPT !.p = older], due \cap Active(State), TRUE)
  IN  /\ due \subseteq {i \in Active(State) : Leaves(i)} \cup {i \in Waiting(State) : pcb[i].age = AGE}
      /\ Becomes(FreeAll(t, due \cap Waiting(State), FALSE))

TcpNext ==
  \/ tcp_new
  \/ \E i \in Pcbs :
       \/ \E prio \in Prios : tcp_listen(i, prio)
       \/ \E n \in Ports \cup {0} : tcp_bind(i, n)
       \/ \E peer \in Peers, mem \in BOOLEAN : tcp_connect(i, peer, mem)
       \/ \E mem \in BOOLEAN : tcp_close(i, mem)
       \/ abort(i)
  \/ \E l \in lists.listen : tcp_close_listen(l)
  \/ \E s \in Segments, n \in Ports, peer \in Peers, accepts \in {TRUE, \A i \in Pcbs : pcb[i].state # "SYN_RCVD"} :
       tcp_input(s, n, peer, accepts)
  \/ \E due \in SUBSET Pcbs : tcp_slowtmr(due)
-----------------------------------------------------------------------------
Synchronized == {"SYN_SENT", "SYN_RCVD", "ESTABLISHED", "CLOSE_WAIT", "FIN_WAIT_1", "FIN_WAIT_2", "CLOSING", "LAST_ACK"}
NoDuplicates(q) == \A j, k \in DOMAIN q : q[j] = q[k] => j = k

\* The axioms of tcp.h about the lists and what the application relies on: every block
\* that is not CLOSED is on exactly the list its state says, once; a free block is on
\* none; the application is told when a block it uses is freed; two connections have
\* different ends, unless tcp_new_port gave out a port that was bound.
ConnectionsTrue ==
  /\ NoDuplicates(lists.active) /\ NoDuplicates(lists.tw)
  /\ \A i \in Pcbs :
       /\ (i \in Range(lists.active)) <=> pcb[i].state \in Synchronized
       /\ (i \in Range(lists.tw)) <=> pcb[i].state = "TIME_WAIT"
       /\ i \in lists.bound => pcb[i].state = "CLOSED"
       /\ ~pcb[i].used => i \notin app.holds \cup lists.bound /\ pcb[i].state = "CLOSED"
  /\ ~app.lost
  /\ app.holds \cap Range(lists.tw) = {}
  /\ ~app.taken => \A i, j \in Range(lists.active) \cup Range(lists.tw) :
                     (pcb[i].lport = pcb[j].lport /\ pcb[i].peer = pcb[j].peer) => i = j
=============================================================================
