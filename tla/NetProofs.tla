------------------------------ MODULE NetProofs ------------------------------
(***************************************************************************)
(* Proofs about the two clients that wait for servers, for every address,  *)
(* lease, number of retries and counter width: the DHCP client, which uses *)
(* an address only while it has leased it (Dhcp), and the sessions of PPP  *)
(* over Ethernet, which keep what they wait for (PppOe).                   *)
(***************************************************************************)
EXTENDS Dhcp, PppOe, TLAPS

St == [c : Client, n : Interface]

\* e differs from d in its state, tries and request timer at most.
SameLease(d, e) ==
  /\ e.n = d.n /\ e.c.on = d.c.on /\ e.c.offered = d.c.offered
  /\ e.c.t1 = d.c.t1 /\ e.c.t1_renew = d.c.t1_renew

(* Changing the state (dhcp_set_state) keeps the lease and the timer.      *)
LEMMA SetState ==
  ASSUME NEW d \in St, NEW new \in States
  PROVE  LET e == dhcp_set_state(d, new)
         IN  /\ e \in St /\ SameLease(d, e)
             /\ e.c.state = new /\ e.c.request_timeout = d.c.request_timeout
<1>1. 0 \in 0 .. U8 - 1
  BY DhcpAssumption
<1>2. CASE new = d.c.state
  BY <1>2 DEF dhcp_set_state, SameLease
<1>3. CASE new # d.c.state
  <2> DEFINE c == [d.c EXCEPT !.state = new, !.tries = 0]
  <2>1. d.c \in Client /\ d.n \in Interface
    BY DEF St
  <2>2. c \in Client
    BY <1>1, <2>1, Zenon DEF Client
  <2>3. /\ c.state = new /\ c.request_timeout = d.c.request_timeout /\ c.on = d.c.on
        /\ c.offered = d.c.offered /\ c.t1 = d.c.t1 /\ c.t1_renew = d.c.t1_renew
    BY <2>1 DEF Client
  <2> HIDE DEF c
  <2>4. dhcp_set_state(d, new) = [d EXCEPT !.c = c]
    BY <1>3 DEF dhcp_set_state, c
  <2> QED
    BY <2>1, <2>2, <2>3, <2>4 DEF St, SameLease
<1> QED
  BY <1>2, <1>3

(* A time that is not zero starts the request timer.                       *)
LEMMA LaterSet ==
  ASSUME NEW d \in St, NEW msecs \in Nat
  PROVE  LET e == Later(d, msecs)
         IN  /\ e \in St /\ SameLease(d, e)
             /\ e.c.state = d.c.state /\ e.c.tries = d.c.tries
             /\ msecs > 0 => e.c.request_timeout > 0
<1> DEFINE F == DHCP_FINE_TIMER_MSECS
           q == (msecs + F - 1) \div F
<1>1. F \in Nat /\ F > 0
  BY DhcpAssumption
<1>2. q \in Nat /\ (msecs > 0 => q > 0)
  BY <1>1
<1> HIDE DEF q
<1>3. Later(d, msecs) = [d EXCEPT !.c.request_timeout = q]
  BY DEF Later, q
<1> QED
  BY <1>2, <1>3 DEF St, Client, SameLease

(* A try counts, modulo the width of its counter.                          *)
LEMMA TriedOnce ==
  ASSUME NEW d \in St
  PROVE  LET e == Tried(d)
         IN  /\ e \in St /\ SameLease(d, e)
             /\ e.c.state = d.c.state /\ e.c.request_timeout = d.c.request_timeout
<1>1. (d.c.tries + 1) % U8 \in 0 .. U8 - 1
  BY DhcpAssumption DEF St, Client
<1> QED
  BY <1>1 DEF Tried, St, Client, SameLease

(* A request (dhcp_discover) forgets the offer and starts the timer.       *)
LEMMA Discover ==
  ASSUME NEW d \in St, NEW mem \in BOOLEAN
  PROVE  LET e == dhcp_discover(d, mem)
         IN  /\ e \in St /\ e.n = d.n /\ e.c.on = d.c.on
             /\ e.c.state = IF mem THEN "SELECTING" ELSE d.c.state
             /\ e.c.request_timeout > 0
<1> DEFINE a == [d EXCEPT !.c.offered = ANY]
           b == IF mem THEN dhcp_set_state(a, "SELECTING") ELSE a
           f == Tried(b)
           msecs == IF f.c.tries < 4 THEN (f.c.tries + 1) * 1000 ELSE 10000
<1>1. a \in St /\ a.n = d.n /\ a.c.on = d.c.on /\ a.c.state = d.c.state
  BY DEF St, Client
<1>2. /\ b \in St /\ b.n = d.n /\ b.c.on = d.c.on
      /\ b.c.state = IF mem THEN "SELECTING" ELSE d.c.state
  <2> HIDE DEF a
  <2>1. CASE mem
    BY <1>1, <2>1, SetState DEF SameLease, States
  <2>2. CASE ~mem
    BY <1>1, <2>2
  <2> QED
    BY <2>1, <2>2
<1> HIDE DEF a, b
<1>3. /\ f \in St /\ f.n = d.n /\ f.c.on = d.c.on
      /\ f.c.state = IF mem THEN "SELECTING" ELSE d.c.state
  BY <1>2, TriedOnce DEF SameLease
<1> HIDE DEF f
<1>4. msecs \in Nat /\ msecs > 0
  <2>1. f.c.tries \in Nat
    BY <1>3, DhcpAssumption DEF St, Client
  <2> QED
    BY <2>1
<1>5. dhcp_discover(d, mem) = Later(f, msecs)
  BY DEF dhcp_discover, f, b, a
<1> HIDE DEF msecs
<1> QED
  BY <1>3, <1>4, <1>5, LaterSet DEF SameLease

(* The wait before the next try is a number, and zero only when the        *)
(* counter of tries has just wrapped around.                               *)
LEMMA BackoffType ==
  ASSUME NEW d \in St, NEW limit \in Nat, NEW unit \in Nat \ {0}, NEW most \in Nat \ {0}
  PROVE  /\ Backoff(d, limit, unit, most) \in Nat
         /\ d.c.tries # 0 => Backoff(d, limit, unit, most) > 0
<1>1. d.c.tries \in Nat
  BY DhcpAssumption DEF St, Client
<1>2. d.c.tries * unit \in Nat /\ (d.c.tries # 0 => d.c.tries * unit > 0)
  BY <1>1
<1> QED
  BY <1>2 DEF Backoff

\* e is d after one more try: its timer runs, unless the count of tries wrapped.
Retried(d, e) ==
  /\ e \in St /\ SameLease(d, e) /\ e.c.state = d.c.state
  /\ e.c.request_timeout > 0 \/ e.c.tries = 0

(* One more try in a state that goes on asking, and the timer for the next *)
(* (TryAgain).                                                             *)
LEMMA TriedAgain ==
  ASSUME NEW d \in St, NEW limit \in Nat, NEW unit \in Nat \ {0}, NEW most \in Nat \ {0}
  PROVE  Retried(d, TryAgain(d, limit, unit, most))
<1> DEFINE e == Tried(d)
           n == Backoff(e, limit, unit, most)
<1>1. e \in St /\ SameLease(d, e) /\ e.c.state = d.c.state
  BY TriedOnce
<1>4. TryAgain(d, limit, unit, most) = Later(e, n)
  BY DEF TryAgain
<1> HIDE DEF e
<1>2. n \in Nat /\ (e.c.tries # 0 => n > 0)
  BY <1>1, BackoffType
<1> HIDE DEF n
<1>3. LET f == Later(e, n)
      IN  /\ f \in St /\ SameLease(e, f) /\ f.c.state = e.c.state /\ f.c.tries = e.c.tries
          /\ n > 0 => f.c.request_timeout > 0
  BY <1>1, <1>2, LaterSet
<1> QED
  BY <1>1, <1>2, <1>3, <1>4 DEF SameLease, Retried

(* The tries of the client's requests: their limits and their waits.       *)
LEMMA Tries ==
  ASSUME NEW d \in St
  PROVE  /\ Retried(d, TryAgain(d, 4, 1000, 4000))
         /\ Retried(d, TryAgain(d, 10, 2000, 20000))
         /\ Retried(d, TryAgain(d, 10, 1000, 10000))
<1>1. 4 \in Nat /\ 10 \in Nat
  OBVIOUS
<1>2. /\ 1000 \in Nat \ {0} /\ 2000 \in Nat \ {0} /\ 4000 \in Nat \ {0}
      /\ 10000 \in Nat \ {0} /\ 20000 \in Nat \ {0}
  OBVIOUS
<1> QED
  BY <1>1, <1>2, TriedAgain, SMT

(* A request for the offer, with or without memory for it (dhcp_select).   *)
LEMMA Select ==
  ASSUME NEW d \in St, NEW mem \in BOOLEAN
  PROVE  LET e == dhcp_select(d, mem)
         IN  /\ e \in St /\ SameLease(d, e)
             /\ e.c.state = IF mem THEN "REQUESTING" ELSE d.c.state
             /\ e.c.request_timeout > 0 \/ e.c.tries = 0
<1> DEFINE a == IF mem THEN dhcp_set_state(d, "REQUESTING") ELSE d
<1>1. a \in St /\ SameLease(d, a) /\ a.c.state = IF mem THEN "REQUESTING" ELSE d.c.state
  <2>1. CASE mem
    BY <2>1, SetState DEF States
  <2>2. CASE ~mem
    BY <2>2 DEF SameLease
  <2> QED
    BY <2>1, <2>2
<1>2. dhcp_select(d, mem) = TryAgain(a, 4, 1000, 4000)
  BY DEF dhcp_select
<1> HIDE DEF a
<1> QED
  BY <1>1, <1>2, Tries DEF SameLease, Retried

(* Renewing and rebinding keep the lease (dhcp_renew, dhcp_rebind).        *)
LEMMA Renewing ==
  ASSUME NEW d \in St, NEW e \in {dhcp_renew(d), dhcp_rebind(d)}
  PROVE  /\ e \in St /\ SameLease(d, e)
         /\ e.c.state = IF e = dhcp_renew(d) THEN "RENEWING" ELSE "REBINDING"
         /\ e.c.request_timeout > 0 \/ e.c.tries = 0
<1> DEFINE a == dhcp_set_state(d, "RENEWING")
           b == dhcp_set_state(d, "REBINDING")
<1>1. /\ a \in St /\ SameLease(d, a) /\ a.c.state = "RENEWING"
      /\ b \in St /\ SameLease(d, b) /\ b.c.state = "REBINDING"
  BY SetState DEF States, Leased
<1>2. dhcp_renew(d) = TryAgain(a, 10, 2000, 20000) /\ dhcp_rebind(d) = TryAgain(b, 10, 1000, 10000)
  BY DEF dhcp_renew, dhcp_rebind
<1> HIDE DEF a, b
<1>3. CASE e = dhcp_renew(d)
  BY <1>1, <1>2, <1>3, Tries DEF SameLease, Retried
<1>4. CASE e = dhcp_rebind(d) /\ e # dhcp_renew(d)
  BY <1>1, <1>2, <1>4, Tries DEF SameLease, Retried
<1> QED
  BY <1>3, <1>4

(* Giving the interface an address (netif_set_addr) leaves the client      *)
(* alone.                                                                  *)
LEMMA SetAddr ==
  ASSUME NEW d \in St, NEW ip \in {ANY} \cup Addrs,
         NEW mask \in {none, "A"} \cup Given("mask"), NEW gw \in {none, "first"} \cup Given("router")
  PROVE  LET e == netif_set_addr(d, ip, mask, gw)
         IN  e \in St /\ e.c = d.c /\ e.n.ip = ip /\ e.n.up = d.n.up
<1> DEFINE n == [d.n EXCEPT !.ip = ip, !.mask = mask, !.gw = gw]
<1>1. d.c \in Client /\ d.n \in Interface
  BY DEF St
<1>2. n \in Interface /\ n.ip = ip /\ n.up = d.n.up
  BY <1>1, Zenon DEF Interface
<1> HIDE DEF n
<1>3. netif_set_addr(d, ip, mask, gw) = [d EXCEPT !.n = n]
  BY DEF netif_set_addr, n
<1> QED
  BY <1>1, <1>2, <1>3 DEF St

(* So does setting it down (netif_set_down).                               *)
LEMMA SetDown ==
  ASSUME NEW d \in St
  PROVE  netif_set_down(d) \in St /\ netif_set_down(d).c = d.c
<1>1. d.n \in Interface /\ [d.n EXCEPT !.up = FALSE] \in Interface
  BY Zenon DEF St, Interface
<1> QED
  BY <1>1, Zenon DEF St, netif_set_down

(* Giving the lease back (dhcp_release) leaves the interface without an    *)
(* address.                                                                *)
LEMMA Released ==
  ASSUME NEW d \in St
  PROVE  LET e == dhcp_release(d)
         IN  e \in St /\ e.c.on = d.c.on /\ e.c.state = "OFF" /\ e.n.ip = ANY
<1> DEFINE a == dhcp_set_state(d, "OFF")
           c == [a.c EXCEPT !.server = ANY, !.offered = ANY, !.mask = none, !.gw = none,
                            !.t0_lease = 0, !.t1_renew = 0, !.t2_rebind = 0]
           f == [a EXCEPT !.c = c]
           g == TryAgain(f, 10, 1000, 10000)
<1>1. a \in St /\ a.c.on = d.c.on /\ a.c.state = "OFF"
  BY SetState DEF States, SameLease
<1>2. dhcp_release(d) = netif_set_addr(netif_set_down(g), ANY, none, none)
  BY DEF dhcp_release
<1> HIDE DEF a
<1>3. a.c \in Client
  BY <1>1 DEF St
<1>4. c \in Client
  BY <1>3, Zenon DEF Client
<1>5. c.on = d.c.on /\ c.state = "OFF"
  BY <1>1, <1>3 DEF Client
<1> HIDE DEF c
<1>6. f \in St /\ f.c.on = d.c.on /\ f.c.state = "OFF"
  BY <1>1, <1>4, <1>5 DEF St
<1> HIDE DEF f
<1>7. g \in St /\ g.c.on = d.c.on /\ g.c.state = "OFF"
  BY <1>6, Tries DEF SameLease, Retried
<1> HIDE DEF g
<1> QED
  BY <1>2, <1>7, SetDown, SetAddr

(* Checking the address (dhcp_check) starts the timer and leaves the       *)
(* interface alone.                                                        *)
LEMMA Checked ==
  ASSUME NEW d \in St
  PROVE  LET e == dhcp_check(d)
         IN  /\ e \in St /\ SameLease(d, e) /\ e.c.state = "CHECKING"
             /\ e.c.request_timeout > 0
<1> DEFINE a == Tried(d)
           b == Later(a, 500)
<1>1. a \in St /\ SameLease(d, a)
  BY TriedOnce
<1>2. dhcp_check(d) = dhcp_set_state(b, "CHECKING")
  BY DEF dhcp_check
<1> HIDE DEF a
<1>3. b \in St /\ SameLease(a, b) /\ b.c.request_timeout > 0
  BY <1>1, LaterSet
<1> HIDE DEF b
<1> QED
  BY <1>1, <1>2, <1>3, SetState DEF SameLease, States

(* Declining the address (dhcp_decline) starts the timer, too.             *)
LEMMA Declined ==
  ASSUME NEW d \in St
  PROVE  LET e == dhcp_decline(d)
         IN  /\ e \in St /\ SameLease(d, e) /\ e.c.state = "BACKING_OFF"
             /\ e.c.request_timeout > 0
<1> DEFINE a == dhcp_set_state(d, "BACKING_OFF")
           b == Tried(a)
<1>1. a \in St /\ SameLease(d, a) /\ a.c.state = "BACKING_OFF"
  BY SetState DEF States
<1>2. dhcp_decline(d) = Later(b, 10000)
  BY DEF dhcp_decline
<1> HIDE DEF a
<1>3. b \in St /\ SameLease(a, b) /\ b.c.state = "BACKING_OFF"
  BY <1>1, TriedOnce
<1> HIDE DEF b
<1> QED
  BY <1>1, <1>2, <1>3, LaterSet, SMTT(30) DEF SameLease

(* A lease that ends starts its timer at one tick at least.                *)
LEMMA TimerType ==
  ASSUME NEW secs \in Nat, NEW old \in 0 .. U16 - 1
  PROVE  /\ Timer(secs, old) \in 0 .. U16 - 1
         /\ secs # INFINITE => Timer(secs, old) > 0
<1> DEFINE ticks == (secs + DHCP_COARSE_TIMER_SECS \div 2) \div DHCP_COARSE_TIMER_SECS
<1>1. DHCP_COARSE_TIMER_SECS \in Nat \ {0} /\ U16 \in Nat /\ U16 >= 2
  BY DhcpAssumption
<1>2. DHCP_COARSE_TIMER_SECS \div 2 \in Nat
  BY <1>1
<1>3. ticks \in Nat
  BY <1>1, <1>2
<1> HIDE DEF ticks
<1>4. Timer(secs, old) = IF secs = INFINITE THEN old
                         ELSE IF ticks >= U16 THEN U16 - 1 ELSE IF ticks = 0 THEN 1 ELSE ticks
  BY DEF Timer, ticks
<1> QED
  BY <1>1, <1>3, <1>4

(* Binding (dhcp_bind) gives the interface the offered address and starts  *)
(* the renewal's timer.                                                    *)
LEMMA Bound ==
  ASSUME NEW d \in St
  PROVE  LET e == dhcp_bind(d)
         IN  /\ e \in St /\ e.c.on = d.c.on /\ e.c.state = "BOUND"
             /\ e.c.offered = d.c.offered /\ e.n.ip = e.c.offered /\ e.n.up
             /\ e.c.t1_renew # INFINITE => e.c.t1 > 0
<1> DEFINE c == [d.c EXCEPT !.t1 = Timer(d.c.t1_renew, @), !.t2 = Timer(d.c.t2_rebind, @)]
           m == IF d.c.mask = none THEN "A" ELSE d.c.mask
           g == IF d.c.gw = none THEN "first" ELSE d.c.gw
           n == [d.n EXCEPT !.up = TRUE]
           x == [d EXCEPT !.c = c, !.n = n]
           f == netif_set_addr(x, d.c.offered, m, g)
<1>1. d.c \in Client /\ d.n \in Interface
  BY DEF St
<1>2. /\ Timer(d.c.t1_renew, d.c.t1) \in 0 .. U16 - 1
      /\ Timer(d.c.t2_rebind, d.c.t2) \in 0 .. U16 - 1
      /\ d.c.t1_renew # INFINITE => Timer(d.c.t1_renew, d.c.t1) > 0
  <2>1. {d.c.t1_renew, d.c.t2_rebind} \subseteq Nat /\ {d.c.t1, d.c.t2} \subseteq 0 .. U16 - 1
    BY <1>1 DEF Client
  <2> QED
    BY <2>1, TimerType, Zenon
<1>3. c \in Client
  BY <1>1, <1>2, Zenon DEF Client
<1>4. /\ c.on = d.c.on /\ c.offered = d.c.offered /\ c.t1_renew = d.c.t1_renew
      /\ c.t1 = Timer(d.c.t1_renew, d.c.t1)
  BY <1>1 DEF Client
<1>5. m \in {none, "A"} \cup Given("mask") /\ g \in {none, "first"} \cup Given("router")
  BY <1>1 DEF Client
<1>6. d.c.offered \in {ANY} \cup Addrs
  BY <1>1 DEF Client
<1>7. n \in Interface /\ n.up = TRUE
  BY <1>1, Zenon DEF Interface
<1>8. dhcp_bind(d) = dhcp_set_state(f, "BOUND")
  BY <1>1, Zenon DEF dhcp_bind, St, netif_set_addr, Client, Interface
<1> HIDE DEF c, n, m, g
<1>9. x \in St /\ x.c = c /\ x.n = n
  BY <1>3, <1>7, Zenon DEF St
<1> HIDE DEF x
<1>10. f \in St /\ f.c = c /\ f.n.up /\ f.n.ip = d.c.offered
  BY <1>5, <1>6, <1>7, <1>9, SetAddr, SMTT(30)
<1> HIDE DEF f
<1> QED
  BY <1>2, <1>4, <1>8, <1>10, SetState DEF SameLease, States, Leased

(* The least of one or two positions.                                      *)
LEMMA LeastOfTwo ==
  ASSUME NEW S \in SUBSET (1 .. 2), S # {}
  PROVE  /\ Min(S) \in S
         /\ 1 \in S => Min(S) = 1
<1>1. \E x \in S : \A y \in S : x <= y
  <2>1. CASE 1 \in S
    BY <2>1
  <2>2. CASE 1 \notin S
    <3>1. PICK x \in S : TRUE
      BY Zenon
    <3>2. \A y \in S : y = 2
      BY <2>2
    <3> QED
      BY <3>1, <3>2
  <2> QED
    BY <2>1, <2>2
<1>2. Min(S) \in S /\ \A y \in S : Min(S) <= y
  BY <1>1, Zenon DEF Min
<1>3. Min(S) \in 1 .. 2
  BY <1>2, Zenon
<1> QED
  BY <1>2, <1>3

(* An option is found in the field that holds it first (dhcp_get_option_   *)
(* ptr): the type of a message in its options field, any other where the   *)
(* server put it.                                                          *)
LEMMA OptionFound ==
  ASSUME NEW m \in Messages, NEW else
  PROVE  /\ m.yiaddr \in Addrs
         /\ dhcp_get_option_ptr(m, "type", else) = m.options["type"]
         /\ \A o : o # "type" =>
              /\ Holding(m, o) = {} => dhcp_get_option_ptr(m, o, else) = else
              /\ Holding(m, o) # {} => dhcp_get_option_ptr(m, o, else) \in Given(o)
<1>1. PICK ip \in Addrs, f \in Options, t \in {"OFFER", "ACK", "NAK"} : m = Message(ip, f, t)
  BY DEF Messages
<1> DEFINE F == Fields(m)
<1>2. /\ m.yiaddr = ip /\ m.file = f.file /\ m.sname = f.sname
      /\ DOMAIN m.options = {"type"} \cup DOMAIN f.options /\ m.options["type"] = t
      /\ \A o \in DOMAIN f.options : o # "type" => m.options[o] = f.options[o]
  BY <1>1 DEF Message
<1>3. /\ DOMAIN F \subseteq 1 .. 2 /\ 1 \in DOMAIN F /\ F[1] = m.options
      /\ 2 \in DOMAIN F => F[2] \in {f.file, f.sname}
  <2>1. CASE m.overload = "none"
    BY <2>1 DEF Fields
  <2>2. CASE m.overload = "file"
    BY <1>2, <2>2 DEF Fields
  <2>3. CASE m.overload # "none" /\ m.overload # "file"
    BY <1>2, <2>3 DEF Fields
  <2> QED
    BY <2>1, <2>2, <2>3
<1> HIDE DEF F
<1>4. \A o : Holding(m, o) = {k \in DOMAIN F : o \in DOMAIN F[k]}
  BY DEF Holding, F
<1>5. \A o : Holding(m, o) \in SUBSET (1 .. 2)
  BY <1>3, <1>4
<1>6. \A o : dhcp_get_option_ptr(m, o, else) =
              IF Holding(m, o) = {} THEN else ELSE F[Min(Holding(m, o))][o]
  BY DEF dhcp_get_option_ptr, F
<1>7. dhcp_get_option_ptr(m, "type", else) = m.options["type"]
  <2>1. 1 \in Holding(m, "type")
    BY <1>2, <1>3, <1>4
  <2>2. Min(Holding(m, "type")) = 1
    BY <1>5, <2>1, LeastOfTwo
  <2> QED
    BY <1>3, <1>6, <2>1, <2>2
<1>8. ASSUME NEW o, o # "type", Holding(m, o) # {}
      PROVE  dhcp_get_option_ptr(m, o, else) \in Given(o)
  <2> DEFINE k == Min(Holding(m, o))
  <2>1. k \in Holding(m, o)
    BY <1>5, <1>8, LeastOfTwo
  <2> HIDE DEF k
  <2>2. k \in {1, 2} /\ k \in DOMAIN F /\ o \in DOMAIN F[k]
    BY <1>3, <1>4, <2>1
  <2>3. \A g \in {f.options, f.file, f.sname} : o \in DOMAIN g => g[o] \in Given(o)
    BY DEF Given
  <2>4. CASE k = 1
    <3>1. o \in DOMAIN f.options /\ m.options[o] = f.options[o]
      BY <1>2, <1>3, <1>8, <2>2, <2>4
    <3> QED
      BY <1>3, <1>6, <1>8, <2>3, <2>4, <3>1 DEF k
  <2>5. CASE k = 2
    BY <1>3, <1>6, <1>8, <2>2, <2>3, <2>5 DEF k
  <2> QED
    BY <2>2, <2>4, <2>5
<1> QED
  BY <1>2, <1>6, <1>7, <1>8

(* The lease times servers send are numbers.                               *)
LEMMA LeaseTimes ==
  ASSUME NEW m \in Messages, NEW o \in {"lease", "t1", "t2"}, NEW else \in Nat
  PROVE  dhcp_get_option_ptr(m, o, else) \in Nat
<1>1. Given(o) \subseteq Nat
  BY DhcpAssumption DEF Given
<1> QED
  BY <1>1, OptionFound

(* What an acknowledgement says is kept (dhcp_handle_ack).                 *)
LEMMA AckRead ==
  ASSUME NEW d \in St, NEW m \in Messages
  PROVE  LET e == dhcp_handle_ack(d, m)
         IN  e \in St /\ e.n = d.n /\ e.c.on = d.c.on /\ e.c.state = d.c.state
<1> DEFINE t0 == dhcp_get_option_ptr(m, "lease", d.c.t0_lease)
           t1 == dhcp_get_option_ptr(m, "t1", t0 \div 2)
           t2 == dhcp_get_option_ptr(m, "t2", t0)
           mask == dhcp_get_option_ptr(m, "mask", none)
           gw == dhcp_get_option_ptr(m, "router", none)
           c == [d.c EXCEPT !.t0_lease = t0, !.t1_renew = t1, !.t2_rebind = t2,
                            !.offered = m.yiaddr, !.mask = mask, !.gw = gw]
<1>1. d.c \in Client /\ d.c.t0_lease \in Nat
  BY DEF St, Client
<1>2. t0 \in Nat
  BY <1>1, LeaseTimes
<1>3. dhcp_handle_ack(d, m) = [d EXCEPT !.c = c]
  BY DEF dhcp_handle_ack
<1> HIDE DEF t0
<1>4. t0 \div 2 \in Nat
  BY <1>2
<1>5. t1 \in Nat /\ t2 \in Nat
  BY <1>2, <1>4, LeaseTimes
<1>6. mask \in {none} \cup Given("mask") /\ gw \in {none} \cup Given("router")
  BY OptionFound
<1>7. m.yiaddr \in {ANY} \cup Addrs
  BY OptionFound
<1> HIDE DEF t1, t2, mask, gw
<1>8. c \in Client
  BY <1>1, <1>2, <1>5, <1>6, <1>7, Zenon DEF Client
<1>9. c.on = d.c.on /\ c.state = d.c.state
  BY <1>1 DEF Client
<1> HIDE DEF c
<1> QED
  BY <1>3, <1>8, <1>9 DEF St

(* Stopping the timer (dhcp_recv) changes nothing else.                    *)
LEMMA Quieted ==
  ASSUME NEW d \in St
  PROVE  LET e == Quiet(d)
         IN  /\ e \in St /\ SameLease(d, e)
             /\ e.c.state = d.c.state /\ e.c.request_timeout = 0
  BY DEF St, Client, Quiet, SameLease

(* A refusal takes the address away and asks again (dhcp_handle_nak).      *)
LEMMA Refused ==
  ASSUME NEW d \in St, NEW mem \in BOOLEAN
  PROVE  LET e == dhcp_handle_nak(d, mem)
         IN  /\ e \in St /\ e.c.on = d.c.on /\ e.n.ip = ANY
             /\ e.c.state \in {"SELECTING", "BACKING_OFF"} /\ e.c.request_timeout > 0
<1> DEFINE a == netif_set_addr(netif_set_down(d), ANY, none, none)
           b == dhcp_set_state(a, "BACKING_OFF")
<1>1. a \in St /\ a.c = d.c /\ a.n.ip = ANY
  BY SetDown, SetAddr
<1>2. dhcp_handle_nak(d, mem) = dhcp_discover(b, mem)
  BY DEF dhcp_handle_nak
<1> HIDE DEF a
<1>3. b \in St /\ b.n.ip = ANY /\ b.c.on = d.c.on /\ b.c.state = "BACKING_OFF"
  BY <1>1, SetState DEF SameLease, States
<1> HIDE DEF b
<1> QED
  BY <1>2, <1>3, Discover

(* An offer that names its server is asked for; another changes nothing    *)
(* (dhcp_handle_offer).                                                    *)
LEMMA Offered ==
  ASSUME NEW d \in St, NEW m \in Messages, NEW mem \in BOOLEAN
  PROVE  LET e == dhcp_handle_offer(d, m, mem)
         IN  IF Holding(m, "server") = {} THEN e = d
             ELSE /\ e \in St /\ e.n = d.n /\ e.c.on = d.c.on
                  /\ e.c.state = IF mem THEN "REQUESTING" ELSE d.c.state
                  /\ e.c.request_timeout > 0 \/ e.c.tries = 0
<1>1. CASE Holding(m, "server") = {}
  BY <1>1 DEF dhcp_handle_offer
<1>2. CASE Holding(m, "server") # {}
  <2> DEFINE s == dhcp_get_option_ptr(m, "server", ANY)
             c == [d.c EXCEPT !.server = s, !.offered = m.yiaddr]
             a == [d EXCEPT !.c = c]
  <2>1. s \in {ANY} \cup Given("server") /\ m.yiaddr \in {ANY} \cup Addrs
    BY <1>2, OptionFound
  <2>2. dhcp_handle_offer(d, m, mem) = dhcp_select(a, mem)
    BY <1>2 DEF dhcp_handle_offer
  <2> HIDE DEF s
  <2>3. d.c \in Client
    BY DEF St
  <2>4. c \in Client /\ c.on = d.c.on /\ c.state = d.c.state
    BY <2>1, <2>3, Zenon DEF Client
  <2> HIDE DEF c
  <2>5. a \in St /\ a.n = d.n /\ a.c = c
    BY <2>4 DEF St
  <2> HIDE DEF a
  <2> QED
    BY <1>2, <2>2, <2>4, <2>5, Select DEF SameLease
<1> QED
  BY <1>1, <1>2

DhcpInv == DhcpTypeOK /\ DhcpTrue /\ LeaseEarned

\* What the steps of an attached client have in common.
ClientStep ==
  /\ dhcp.on = "yes" /\ dhcp'.on = "yes" /\ dhcp'.state # "INIT"
  /\ dhcp' \in Client /\ netif' \in Interface
  /\ \/ /\ netif' = netif /\ dhcp'.offered = dhcp.offered
        /\ dhcp.state \in Leased => dhcp'.state \in Leased
        /\ dhcp'.state = "BOUND" => dhcp.state = "BOUND"
     \/ netif' = netif /\ dhcp.state \notin Leased /\ dhcp'.state # "BOUND"
     \/ netif'.ip = ANY
     \/ dhcp'.state = "BOUND" /\ netif'.ip = dhcp'.offered /\ netif'.up
  /\ dhcp'.state = "CHECKING" => dhcp.state \in {"REQUESTING", "CHECKING"}
  /\ dhcp'.state \in Leased => dhcp.state \in Leased \cup {"CHECKING", "REQUESTING"}
  /\ dhcp'.state = "BOUND" /\ dhcp'.t1_renew # INFINITE => dhcp'.t1 > 0

\* The history after such a step, whatever the last offer was like.
HistoryStep ==
  /\ hist' \in Hist
  /\ hist'.stale = (hist.stale /\ netif'.ip = netif.ip /\ dhcp'.state # "BOUND")
  /\ hist'.claimed = IF dhcp.state = "REQUESTING" /\ dhcp'.state = "CHECKING" THEN {}
                     ELSE hist.claimed
  /\ hist'.early = ((hist.early /\ ~(dhcp.state = "REQUESTING" /\ dhcp'.state = "CHECKING"))
                      \/ (dhcp.state = "REQUESTING" /\ dhcp'.state \in Leased))

TimerRuns ==
  dhcp'.request_timeout = 0 =>
    dhcp'.state \in {"BOUND", "OFF"} \/ hist'.unnamed \/ dhcp'.tries = 0

(* Steps of this kind keep the invariant.                                  *)
LEMMA ClientKept ==
  ASSUME DhcpInv, ClientStep, HistoryStep, TimerRuns
  PROVE  DhcpInv'
<1> USE DEF DhcpInv, ClientStep, HistoryStep
<1>1. DhcpTypeOK'
  BY DEF DhcpTypeOK
<1>2. hist \in Hist /\ dhcp \in Client
  BY DEF DhcpTypeOK
<1>3. /\ dhcp.state # "INIT"
      /\ hist.stale => dhcp.state # "BOUND"
      /\ dhcp.state \in Leased \cup {"CHECKING"} /\ ~hist.early => hist.claimed = {}
      /\ dhcp.state = "CHECKING" => ~hist.early
  BY DEF LeaseEarned
<1>4. LeaseEarned'
  <2>1. hist'.stale => dhcp'.state # "BOUND"
    BY Zenon
  <2>2. dhcp'.state = "CHECKING" => ~hist'.early /\ hist'.claimed = {}
    BY <1>3, Zenon DEF Leased
  <2>3. dhcp'.state \in Leased /\ ~hist'.early => hist'.claimed = {}
    BY <1>3, Zenon DEF Leased
  <2> QED
    BY <2>1, <2>2, <2>3 DEF LeaseEarned
<1>5. netif'.ip # ANY /\ ~hist'.stale =>
        dhcp'.state \in Leased /\ netif'.ip = dhcp'.offered /\ netif'.up
  <2>1. netif.ip # ANY /\ ~hist.stale =>
          dhcp.state \in Leased /\ netif.ip = dhcp.offered /\ netif.up
    BY DEF DhcpTrue
  <2> QED
    BY <1>3, <2>1, Zenon DEF Leased
<1>6. dhcp'.state = "BOUND" /\ ~hist'.early => netif'.ip \notin hist'.claimed
  BY <1>4 DEF LeaseEarned, Leased
<1> QED
  BY <1>1, <1>4, <1>5, <1>6 DEF DhcpTrue, TimerRuns

(* What Traced says of the step it belongs to.                             *)
LEMMA History ==
  ASSUME hist \in Hist
  PROVE  /\ hist' = Traced => HistoryStep /\ hist'.unnamed = hist.unnamed
         /\ \A u \in BOOLEAN : hist' = [Traced EXCEPT !.unnamed = u] =>
              HistoryStep /\ hist'.unnamed = u
  BY Zenon DEF Hist, Traced, HistoryStep

(* The client and its interface, as the functions take them.               *)
LEMMA StateType ==
  ASSUME DhcpInv
  PROVE  State \in St /\ State.c = dhcp /\ State.n = netif
  BY DEF DhcpInv, DhcpTypeOK, State, St

(* A message, early, late or repeated, is answered with the invariant kept *)
(* (dhcp_recv).                                                            *)
LEMMA ReceiveKept ==
  ASSUME DhcpInv, NEW m \in Messages, dhcp_recv(m)
  PROVE  DhcpInv'
<1> DEFINE d == State
           type == m.options["type"]
           un == IF dhcp.state = "SELECTING" /\ type = "OFFER"
                 THEN Holding(m, "server") = {} ELSE hist.unnamed
<1>1. d \in St /\ d.c = dhcp /\ d.n = netif
  BY StateType
<1>2. PICK mem \in BOOLEAN : Becomes(Answered(d, m, mem))
  BY DEF dhcp_recv
<1> DEFINE e == Answered(d, m, mem)
<1>3. dhcp' = e.c /\ netif' = e.n
  BY <1>2 DEF Becomes
<1>4. HistoryStep /\ hist'.unnamed = un
  <2>1. hist \in Hist /\ un \in BOOLEAN
    BY Zenon DEF DhcpInv, DhcpTypeOK, Hist
  <2>2. hist' = [Traced EXCEPT !.unnamed = un]
    BY <2>1 DEF dhcp_recv, Traced, Hist
  <2> HIDE DEF un
  <2> QED
    BY <2>1, <2>2, History
<1>5. dhcp_get_option_ptr(m, "type", none) = type
  BY OptionFound
<1>6. dhcp.on = "yes" /\ dhcp.state # "INIT"
  BY DEF dhcp_recv, DhcpInv, LeaseEarned
<1> HIDE DEF d, type
<1>7. CASE type = "ACK" /\ dhcp.state = "REQUESTING"
  <2> DEFINE a == dhcp_handle_ack(d, m)
             b == Quiet(a)
  <2>1. a \in St /\ a.n = d.n /\ a.c.on = d.c.on
    BY <1>1, AckRead
  <2>2. e = dhcp_check(b)
    BY <1>1, <1>5, <1>7 DEF Answered
  <2> HIDE DEF a
  <2>3. b \in St /\ SameLease(a, b)
    BY <2>1, Quieted
  <2> HIDE DEF b, e
  <2>4. /\ e \in St /\ SameLease(b, e) /\ e.c.state = "CHECKING"
        /\ e.c.request_timeout > 0
    BY <2>2, <2>3, Checked
  <2>5. ClientStep
    BY <1>1, <1>3, <1>6, <1>7, <2>1, <2>3, <2>4 DEF ClientStep, St, SameLease, Leased
  <2> QED
    BY <1>3, <1>4, <2>4, <2>5, ClientKept DEF TimerRuns
<1>8. CASE type = "ACK" /\ dhcp.state \in {"REBINDING", "RENEWING"}
  <2> DEFINE b == Quiet(d)
  <2>1. e = dhcp_bind(b)
    BY <1>1, <1>5, <1>8 DEF Answered
  <2>2. b \in St /\ SameLease(d, b)
    BY <1>1, Quieted
  <2> HIDE DEF b, e
  <2>3. /\ e \in St /\ e.c.on = b.c.on /\ e.c.state = "BOUND"
        /\ e.n.ip = e.c.offered /\ e.n.up
        /\ e.c.t1_renew # INFINITE => e.c.t1 > 0
    BY <2>1, <2>2, Bound
  <2>4. ClientStep
    BY <1>1, <1>3, <1>6, <1>8, <2>2, <2>3 DEF ClientStep, St, SameLease, Leased
  <2> QED
    BY <1>3, <1>4, <2>3, <2>4, ClientKept DEF TimerRuns
<1>9. CASE type = "NAK" /\ dhcp.state \in {"REQUESTING", "REBINDING", "RENEWING"}
  <2> DEFINE b == Quiet(d)
  <2>1. e = dhcp_handle_nak(b, mem)
    BY <1>1, <1>5, <1>9 DEF Answered
  <2>2. b \in St /\ SameLease(d, b)
    BY <1>1, Quieted
  <2> HIDE DEF b, e
  <2>3. /\ e \in St /\ e.c.on = b.c.on /\ e.n.ip = ANY
        /\ e.c.state \in {"SELECTING", "BACKING_OFF"} /\ e.c.request_timeout > 0
    BY <2>1, <2>2, Refused
  <2>4. ClientStep
    BY <1>1, <1>3, <1>6, <1>9, <2>2, <2>3 DEF ClientStep, St, SameLease, Leased
  <2> QED
    BY <1>3, <1>4, <2>3, <2>4, ClientKept DEF TimerRuns
<1>10. CASE type = "OFFER" /\ dhcp.state = "SELECTING"
  <2> DEFINE b == Quiet(d)
  <2>1. e = dhcp_handle_offer(b, m, mem)
    BY <1>1, <1>5, <1>10 DEF Answered
  <2>2. b \in St /\ SameLease(d, b) /\ b.c.state = d.c.state
    BY <1>1, Quieted
  <2> HIDE DEF b, e
  <2>3. /\ e \in St /\ e.n = b.n /\ e.c.on = b.c.on /\ e.c.state \in {"SELECTING", "REQUESTING"}
        /\ Holding(m, "server") = {} \/ e.c.request_timeout > 0 \/ e.c.tries = 0
    BY <1>1, <1>10, <2>1, <2>2, Offered
  <2>4. ClientStep
    BY <1>1, <1>3, <1>6, <1>10, <2>2, <2>3 DEF ClientStep, St, SameLease, Leased
  <2>5. Holding(m, "server") = {} => hist'.unnamed
    BY <1>4, <1>10, Zenon
  <2>6. TimerRuns
    BY <1>3, <2>3, <2>5 DEF TimerRuns
  <2> QED
    BY <1>4, <2>4, <2>6, ClientKept
<1>11. CASE ~ \/ type = "ACK" /\ dhcp.state \in {"REQUESTING", "REBINDING", "RENEWING"}
              \/ type = "NAK" /\ dhcp.state \in {"REQUESTING", "REBINDING", "RENEWING"}
              \/ type = "OFFER" /\ dhcp.state = "SELECTING"
  <2>1. e = d
    BY <1>1, <1>5, <1>11 DEF Answered
  <2>2. dhcp' = dhcp /\ netif' = netif /\ hist'.unnamed = hist.unnamed
    BY <1>1, <1>3, <1>4, <1>11, <2>1
  <2>3. dhcp \in Client /\ netif \in Interface
    BY DEF DhcpInv, DhcpTypeOK
  <2> HIDE DEF e
  <2>4. ClientStep
    BY <1>6, <2>2, <2>3 DEF ClientStep, DhcpInv, DhcpTrue
  <2>5. TimerRuns
    BY <1>6, <2>2 DEF TimerRuns, DhcpInv, DhcpTrue
  <2> QED
    BY <1>4, <2>4, <2>5, ClientKept
<1> QED
  BY <1>7, <1>8, <1>9, <1>10, <1>11

(* An address that another host answers for is given up (dhcp_arp_reply).  *)
LEMMA ArpKept ==
  ASSUME DhcpInv, NEW addr \in Addrs, dhcp_arp_reply(addr)
  PROVE  DhcpInv'
<1> DEFINE d == State
           e == dhcp_decline(d)
<1>1. d \in St /\ d.c = dhcp /\ d.n = netif
  BY StateType
<1>2. /\ dhcp.on = "yes" /\ dhcp.state = "CHECKING" /\ dhcp' = e.c /\ netif' = e.n
      /\ hist' = [hist EXCEPT !.claimed = @ \cup {addr}]
  BY DEF dhcp_arp_reply, Becomes
<1> HIDE DEF d
<1>3. e \in St /\ SameLease(d, e) /\ e.c.state = "BACKING_OFF" /\ e.c.request_timeout > 0
  BY <1>1, Declined
<1> HIDE DEF e
<1>4. hist \in Hist
  BY DEF DhcpInv, DhcpTypeOK
<1>5. hist' \in Hist /\ hist'.stale = hist.stale
  BY <1>2, <1>4 DEF Hist
<1>6. dhcp' \in Client /\ netif' \in Interface /\ netif' = netif
  BY <1>1, <1>2, <1>3 DEF St, SameLease
<1>7. netif.ip = ANY \/ hist.stale
  BY <1>2 DEF DhcpInv, DhcpTrue, Leased
<1> QED
  BY <1>2, <1>3, <1>5, <1>6, <1>7 DEF DhcpInv, DhcpTypeOK, DhcpTrue, LeaseEarned, Leased

(* What happens when the request timer runs out, state by state            *)
(* (dhcp_timeout).                                                         *)
LEMMA TimeoutStep ==
  ASSUME DhcpInv, dhcp.on = "yes", NEW d \in St, NEW mem \in BOOLEAN,
         d.n = netif, SameLease(State, d), d.c.state = dhcp.state,
         dhcp' = dhcp_timeout(d, mem).c, netif' = dhcp_timeout(d, mem).n
  PROVE  ClientStep /\ TimerRuns
<1> DEFINE e == dhcp_timeout(d, mem)
           s == dhcp.state
<1>1. /\ State.c = dhcp /\ d.c.on = "yes" /\ d.c.offered = dhcp.offered
      /\ d.c.t1 = dhcp.t1 /\ d.c.t1_renew = dhcp.t1_renew
  BY StateType DEF SameLease
<1>2. dhcp.on = "yes" /\ s # "INIT" /\ s \in States
  BY DEF DhcpInv, LeaseEarned, DhcpTypeOK, Client
<1>3. d.c.tries \in Nat
  BY DhcpAssumption DEF St, Client
<1>4. CASE s \in {"BACKING_OFF", "SELECTING"}
  <2>1. e = dhcp_discover(d, mem)
    BY <1>4 DEF dhcp_timeout
  <2> HIDE DEF e
  <2>2. /\ e \in St /\ e.n = d.n /\ e.c.on = d.c.on /\ e.c.state \in {"SELECTING", s}
        /\ e.c.request_timeout > 0
    BY <2>1, Discover
  <2> QED
    BY <1>1, <1>2, <1>4, <2>2 DEF ClientStep, TimerRuns, St, Leased, e
<1>5. CASE s = "REQUESTING" /\ d.c.tries <= 5
  <2>1. e = dhcp_select(d, mem)
    BY <1>3, <1>5 DEF dhcp_timeout
  <2> HIDE DEF e
  <2>2. /\ e \in St /\ SameLease(d, e) /\ e.c.state = "REQUESTING"
        /\ e.c.request_timeout > 0 \/ e.c.tries = 0
    BY <1>5, <2>1, Select
  <2> QED
    BY <1>1, <1>2, <1>5, <2>2 DEF ClientStep, TimerRuns, St, Leased, SameLease, e
<1>6. CASE (s = "REQUESTING" /\ d.c.tries > 5) \/ (s = "REBINDING" /\ d.c.tries > 8)
  <2> DEFINE b == dhcp_release(d)
  <2>1. e = dhcp_discover(b, mem)
    BY <1>3, <1>6 DEF dhcp_timeout
  <2>2. b \in St /\ b.c.on = d.c.on /\ b.c.state = "OFF" /\ b.n.ip = ANY
    BY Released
  <2> HIDE DEF e, b
  <2>3. /\ e \in St /\ e.n = b.n /\ e.c.on = b.c.on /\ e.c.state \in {"SELECTING", "OFF"}
        /\ e.c.request_timeout > 0
    BY <2>1, <2>2, Discover
  <2> QED
    BY <1>1, <1>2, <1>6, <2>2, <2>3 DEF ClientStep, TimerRuns, St, Leased, e
<1>7. CASE s = "CHECKING" /\ d.c.tries <= 1
  <2>1. e = dhcp_check(d)
    BY <1>3, <1>7 DEF dhcp_timeout
  <2> HIDE DEF e
  <2>2. e \in St /\ SameLease(d, e) /\ e.c.state = "CHECKING" /\ e.c.request_timeout > 0
    BY <2>1, Checked
  <2> QED
    BY <1>1, <1>2, <1>7, <2>2 DEF ClientStep, TimerRuns, St, Leased, SameLease, e
<1>8. CASE s = "CHECKING" /\ d.c.tries > 1
  <2>1. e = dhcp_bind(d)
    BY <1>3, <1>8 DEF dhcp_timeout
  <2> HIDE DEF e
  <2>2. /\ e \in St /\ e.c.on = d.c.on /\ e.c.state = "BOUND"
        /\ e.n.ip = e.c.offered /\ e.n.up
        /\ e.c.t1_renew # INFINITE => e.c.t1 > 0
    BY <2>1, Bound
  <2> QED
    BY <1>1, <1>2, <1>8, <2>2 DEF ClientStep, TimerRuns, St, Leased, e
<1>9. CASE s = "RENEWING" \/ (s = "REBINDING" /\ d.c.tries <= 8)
  <2>1. e \in {dhcp_renew(d), dhcp_rebind(d)}
    BY <1>3, <1>9 DEF dhcp_timeout
  <2> HIDE DEF e
  <2>2. /\ e \in St /\ SameLease(d, e) /\ e.c.state \in {"RENEWING", "REBINDING"}
        /\ e.c.request_timeout > 0 \/ e.c.tries = 0
    BY <2>1, Renewing
  <2> QED
    BY <1>1, <1>2, <1>9, <2>2 DEF ClientStep, TimerRuns, St, Leased, SameLease, e
<1>10. CASE s \in {"BOUND", "OFF"}
  <2>1. e = d
    BY <1>10 DEF dhcp_timeout
  <2>2. d.c.state = "BOUND" /\ d.c.t1_renew # INFINITE => d.c.t1 > 0
    BY <1>1 DEF DhcpInv, DhcpTrue
  <2> HIDE DEF e
  <2> QED
    BY <1>1, <1>2, <1>10, <2>1, <2>2 DEF ClientStep, TimerRuns, St, Leased, e
<1>11. /\ d.c.tries <= 1 \/ d.c.tries > 1
       /\ d.c.tries <= 5 \/ d.c.tries > 5
       /\ d.c.tries <= 8 \/ d.c.tries > 8
  BY <1>3
<1>12. s \in {"BACKING_OFF", "SELECTING", "REQUESTING", "CHECKING", "BOUND", "RENEWING",
              "REBINDING", "OFF"}
  BY <1>2 DEF States, Leased
<1> HIDE DEF s, e
<1>13. CASE s = "REQUESTING"
  BY <1>5, <1>6, <1>11, <1>13
<1>14. CASE s = "CHECKING"
  BY <1>7, <1>8, <1>11, <1>14
<1>15. CASE s = "REBINDING"
  BY <1>6, <1>9, <1>11, <1>15
<1> QED
  BY <1>4, <1>9, <1>10, <1>12, <1>13, <1>14, <1>15, Zenon

(* A tick of the request timer, the last one included (dhcp_fine_tmr).     *)
LEMMA FineKept ==
  ASSUME DhcpInv, dhcp_fine_tmr
  PROVE  DhcpInv'
<1> DEFINE d == [State EXCEPT !.c.request_timeout = @ - 1]
<1>1. State \in St /\ State.c = dhcp /\ State.n = netif
  BY StateType
<1>2. dhcp.on = "yes" /\ dhcp.request_timeout > 0 /\ dhcp.request_timeout \in Nat
  BY DEF dhcp_fine_tmr, DhcpInv, DhcpTypeOK, Client
<1>3. PICK mem \in BOOLEAN :
        Becomes(IF d.c.request_timeout = 0 THEN dhcp_timeout(d, mem) ELSE d)
  BY DEF dhcp_fine_tmr
<1>4. HistoryStep /\ hist'.unnamed = hist.unnamed
  BY History DEF dhcp_fine_tmr, DhcpInv, DhcpTypeOK
<1>5. d \in St /\ SameLease(State, d) /\ d.n = netif /\ d.c.state = dhcp.state
  <2> DEFINE q == dhcp.request_timeout - 1
  <2>1. q \in Nat
    BY <1>2
  <2>2. d = [State EXCEPT !.c.request_timeout = q]
    BY <1>1
  <2> HIDE DEF d, q
  <2> QED
    BY <1>1, <2>1, <2>2 DEF St, Client, SameLease
<1> HIDE DEF d
<1>6. ClientStep /\ TimerRuns
  <2>1. CASE d.c.request_timeout = 0
    BY <1>2, <1>3, <1>5, <2>1, TimeoutStep DEF Becomes
  <2>2. CASE d.c.request_timeout # 0
    <3>1. dhcp' = d.c /\ netif' = netif
      BY <1>3, <1>5, <2>2 DEF Becomes
    <3>2. dhcp.state # "INIT" /\ (dhcp.state = "BOUND" /\ dhcp.t1_renew # INFINITE => dhcp.t1 > 0)
      BY <1>2 DEF DhcpInv, DhcpTrue, LeaseEarned
    <3>3. ClientStep
      BY <1>1, <1>2, <1>5, <3>1, <3>2 DEF ClientStep, St, SameLease
    <3> QED
      BY <2>2, <3>1, <3>3 DEF TimerRuns
  <2> QED
    BY <2>1, <2>2
<1> QED
  BY <1>4, <1>6, ClientKept

(* A tick of the lease's timers: the renewal begins before the timer of a  *)
(* bound client can wrap around (dhcp_coarse_tmr).                         *)
LEMMA CoarseKept ==
  ASSUME DhcpInv, dhcp_coarse_tmr
  PROVE  DhcpInv'
<1> DEFINE x1 == (dhcp.t1 + U16 - 1) % U16
           x2 == (dhcp.t2 + U16 - 1) % U16
           d == [State EXCEPT !.c.t2 = (@ + U16 - 1) % U16]
           e == [d EXCEPT !.c.t1 = (@ + U16 - 1) % U16]
           f == IF dhcp.t2 = 1 THEN dhcp_t2_timeout(d)
                ELSE IF dhcp.t1 = 1 THEN dhcp_t1_timeout(e) ELSE e
<1>1. State \in St /\ State.c = dhcp /\ State.n = netif
  BY StateType
<1>2. /\ dhcp.on = "yes" /\ dhcp.t1 \in 0 .. U16 - 1 /\ dhcp.t2 \in 0 .. U16 - 1
      /\ U16 \in Nat /\ U16 >= 2
  BY DhcpAssumption DEF dhcp_coarse_tmr, DhcpInv, DhcpTypeOK, Client
<1>3. dhcp' = f.c /\ netif' = f.n
  BY DEF dhcp_coarse_tmr, Becomes
<1>4. HistoryStep /\ hist'.unnamed = hist.unnamed
  BY History DEF dhcp_coarse_tmr, DhcpInv, DhcpTypeOK
<1>5. x1 \in 0 .. U16 - 1 /\ x2 \in 0 .. U16 - 1
  BY <1>2
<1>6. dhcp.t1 > 1 => x1 > 0
  <2>1. ASSUME dhcp.t1 > 1
        PROVE  x1 = dhcp.t1 - 1
    BY <1>2, <2>1
  <2> QED
    BY <1>2, <2>1
<1>7. /\ d \in St /\ d.n = netif /\ d.c.on = "yes" /\ d.c.state = dhcp.state
      /\ d.c.offered = dhcp.offered /\ d.c.t1 = dhcp.t1 /\ d.c.t1_renew = dhcp.t1_renew
      /\ d.c.request_timeout = dhcp.request_timeout /\ d.c.tries = dhcp.tries
  <2>1. d = [State EXCEPT !.c.t2 = x2]
    BY <1>1
  <2> HIDE DEF d, x2
  <2> QED
    BY <1>1, <1>2, <1>5, <2>1 DEF St, Client
<1>8. /\ e \in St /\ e.n = netif /\ e.c.on = "yes" /\ e.c.state = dhcp.state
      /\ e.c.offered = dhcp.offered /\ e.c.t1 = x1 /\ e.c.t1_renew = dhcp.t1_renew
      /\ e.c.request_timeout = dhcp.request_timeout /\ e.c.tries = dhcp.tries
  <2>1. e = [d EXCEPT !.c.t1 = x1]
    BY <1>7, Zenon
  <2> HIDE DEF d, e, x1
  <2> QED
    BY <1>5, <1>7, <2>1 DEF St, Client
<1>9. \/ /\ dhcp.state \in {"REQUESTING", "BOUND", "RENEWING"}
         /\ \E g \in {d, e} : f \in {dhcp_renew(g), dhcp_rebind(g)}
      \/ f = d /\ dhcp.state # "BOUND"
      \/ f = e /\ (dhcp.t1 # 1 \/ dhcp.state # "BOUND")
  <2> HIDE DEF d, e
  <2>1. CASE dhcp.t2 = 1
    BY <1>7, <2>1 DEF dhcp_t2_timeout, Renewable
  <2>2. CASE dhcp.t2 # 1 /\ dhcp.t1 = 1
    BY <1>8, <2>2 DEF dhcp_t1_timeout, Renewable
  <2>3. CASE dhcp.t2 # 1 /\ dhcp.t1 # 1
    BY <2>3
  <2> QED
    BY <2>1, <2>2, <2>3
<1> HIDE DEF d, e, f, x1
<1>10. dhcp.state # "INIT" /\ (dhcp.state = "BOUND" /\ dhcp.t1_renew # INFINITE => dhcp.t1 > 0)
  BY <1>2 DEF DhcpInv, DhcpTrue, LeaseEarned
<1>11. CASE \/ f = d /\ dhcp.state # "BOUND"
            \/ f = e /\ (dhcp.t1 # 1 \/ dhcp.state # "BOUND")
  <2>1. /\ dhcp'.state = dhcp.state /\ dhcp'.t1_renew = dhcp.t1_renew
        /\ dhcp.state = "BOUND" => dhcp'.t1 = x1 /\ dhcp.t1 # 1
    BY <1>3, <1>7, <1>8, <1>11
  <2>2. dhcp'.state = "BOUND" /\ dhcp'.t1_renew # INFINITE => dhcp'.t1 > 0
    BY <1>2, <1>6, <1>10, <2>1
  <2>3. ClientStep
    BY <1>2, <1>3, <1>7, <1>8, <1>10, <1>11, <2>2 DEF ClientStep, St
  <2>4. TimerRuns
    BY <1>2, <1>3, <1>4, <1>7, <1>8, <1>11 DEF TimerRuns, DhcpInv, DhcpTrue
  <2> QED
    BY <1>4, <2>3, <2>4, ClientKept
<1>12. ASSUME dhcp.state \in {"REQUESTING", "BOUND", "RENEWING"},
              NEW g \in {d, e}, f \in {dhcp_renew(g), dhcp_rebind(g)}
       PROVE  DhcpInv'
  <2>1. /\ g \in St /\ g.n = netif /\ g.c.on = "yes" /\ g.c.state = dhcp.state
        /\ g.c.offered = dhcp.offered
    BY <1>7, <1>8, <1>12
  <2>2. /\ f \in St /\ SameLease(g, f) /\ f.c.state \in {"RENEWING", "REBINDING"}
        /\ f.c.request_timeout > 0 \/ f.c.tries = 0
    BY <1>12, <2>1, Renewing
  <2>3. ClientStep
    BY <1>2, <1>3, <1>12, <2>1, <2>2 DEF ClientStep, St, SameLease, Leased
  <2>4. TimerRuns
    BY <1>3, <2>2 DEF TimerRuns
  <2> QED
    BY <1>4, <2>3, <2>4, ClientKept
<1> QED
  BY <1>9, <1>11, <1>12

(* A client just cleared (dhcp_start, dhcp_stop, dhcp_inform).             *)
LEMMA ClearedType ==
  ASSUME NEW on \in {"yes", "no", "freed"}
  PROVE  [Cleared EXCEPT !.on = on] \in Client /\ [Cleared EXCEPT !.on = on].on = on
<1>1. 0 \in 0 .. U8 - 1 /\ 0 \in 0 .. U16 - 1
  BY DhcpAssumption
<1> QED
  BY <1>1 DEF Client, Cleared, States

(* A client that is not attached keeps nothing but its types.              *)
LEMMA DetachedKept ==
  ASSUME DhcpInv, NEW on \in {"no", "freed"},
         Becomes([State EXCEPT !.c = [Cleared EXCEPT !.on = on]]), hist' \in Hist
  PROVE  DhcpInv'
<1> DEFINE c == [Cleared EXCEPT !.on = on]
<1>1. c \in Client /\ c.on \in {"no", "freed"}
  BY ClearedType
<1> HIDE DEF c
<1>2. dhcp' = c /\ netif' = netif
  BY DEF Becomes, State, c
<1>3. netif \in Interface
  BY DEF DhcpInv, DhcpTypeOK
<1> QED
  BY <1>1, <1>2, <1>3 DEF DhcpInv, DhcpTypeOK, DhcpTrue, LeaseEarned

(* Starting, afresh or again, and with or without memory (dhcp_start).     *)
LEMMA StartKept ==
  ASSUME DhcpInv, dhcp_start
  PROVE  DhcpInv'
<1> DEFINE a == [State EXCEPT !.c = Cleared]
           e == dhcp_discover(a, TRUE)
           gone == [State EXCEPT !.c = [Cleared EXCEPT !.on = "no"]]
<1>1. netif \in Interface /\ hist' \in Hist /\ hist'.stale = (netif.ip # ANY)
  BY Zenon DEF DhcpInv, DhcpTypeOK, dhcp_start, HistInit, Hist
<1>2. Becomes(gone) \/ Becomes(e)
  <2>1. PICK memory \in BOOLEAN, request \in BOOLEAN :
          IF ~memory THEN Becomes(gone)
          ELSE LET d == dhcp_discover(a, request)
               IN  Becomes(IF request THEN d ELSE [d EXCEPT !.c = [Cleared EXCEPT !.on = "no"]])
    BY DEF dhcp_start
  <2>2. CASE memory /\ request
    BY <2>1, <2>2, Zenon
  <2>3. CASE memory /\ ~request
    <3> DEFINE d == dhcp_discover(a, FALSE)
    <3>1. a \in St /\ a.n = netif
      BY <1>1, ClearedType DEF St, State, Cleared
    <3>2. d \in St /\ d.n = netif
      BY <3>1, Discover, Zenon
    <3>3. Becomes([d EXCEPT !.c = [Cleared EXCEPT !.on = "no"]])
      BY <2>1, <2>3, Zenon
    <3> HIDE DEF a, d
    <3> QED
      BY <3>2, <3>3, Zenon DEF St, State, Becomes
  <2>4. CASE ~memory
    BY <2>1, <2>4
  <2> QED
    BY <2>2, <2>3, <2>4, Zenon
<1>3. CASE Becomes(gone)
  BY <1>1, <1>3, DetachedKept
<1>4. CASE Becomes(e)
  <2>1. Cleared \in Client /\ Cleared.on = "yes"
    BY ClearedType DEF Cleared
  <2>2. a \in St /\ a.n = netif /\ a.c = Cleared
    BY <1>1, <2>1 DEF St, State
  <2>3. dhcp' = e.c /\ netif' = e.n
    BY <1>4 DEF Becomes
  <2> HIDE DEF a
  <2>4. /\ e \in St /\ e.n = netif /\ e.c.on = "yes" /\ e.c.state = "SELECTING"
        /\ e.c.request_timeout > 0
    BY <2>1, <2>2, Discover, Zenon
  <2> HIDE DEF e
  <2>5. DhcpTypeOK'
    BY <1>1, <2>3, <2>4 DEF DhcpTypeOK, St
  <2>6. netif'.ip = ANY \/ hist'.stale
    BY <1>1, <2>3, <2>4, Zenon
  <2>7. DhcpTrue' /\ LeaseEarned'
    BY <2>3, <2>4, <2>6 DEF DhcpTrue, LeaseEarned, Leased
  <2> QED
    BY <2>5, <2>7 DEF DhcpInv
<1> QED
  BY <1>2, <1>3, <1>4, Zenon

(* The application ends its lease, or renews it (dhcp_release, dhcp_renew). *)
LEMMA LeaseKept ==
  ASSUME DhcpInv, Release \/ Renew
  PROVE  DhcpInv'
<1> DEFINE d == State
<1>1. d \in St /\ d.c = dhcp /\ d.n = netif
  BY StateType
<1>2. HistoryStep
  BY History DEF Release, Renew, DhcpInv, DhcpTypeOK
<1>3. CASE Release
  <2> DEFINE e == dhcp_release(d)
  <2>1. dhcp.on = "yes" /\ dhcp' = e.c /\ netif' = e.n
    BY <1>3 DEF Release, Becomes
  <2>2. e \in St /\ e.c.on = d.c.on /\ e.c.state = "OFF" /\ e.n.ip = ANY
    BY <1>1, Released
  <2> HIDE DEF e
  <2>3. ClientStep /\ TimerRuns
    BY <1>1, <2>1, <2>2 DEF ClientStep, TimerRuns, St, Leased
  <2> QED
    BY <1>2, <2>3, ClientKept
<1>4. CASE Renew
  <2> DEFINE e == dhcp_renew(d)
  <2>1. dhcp.on = "yes" /\ dhcp.state = "BOUND" /\ dhcp' = e.c /\ netif' = e.n
    BY <1>4 DEF Renew, Becomes
  <2>2. /\ e \in St /\ SameLease(d, e) /\ e.c.state = "RENEWING"
        /\ e.c.request_timeout > 0 \/ e.c.tries = 0
    BY <1>1, Renewing
  <2> HIDE DEF e
  <2>3. ClientStep /\ TimerRuns
    BY <1>1, <2>1, <2>2 DEF ClientStep, TimerRuns, St, Leased, SameLease
  <2> QED
    BY <1>2, <2>3, ClientKept
<1> QED
  BY <1>3, <1>4

(* The DHCP client (dhcp.c), whatever servers send and however often       *)
(* memory is short: the interface has an address only under a lease of it, *)
(* an address that was checked and claimed is not used, and a client that  *)
(* waits has its timer running.                                            *)
THEOREM DhcpCorrect == DhcpSpec => [](DhcpTypeOK /\ DhcpTrue)
<1>1. DhcpInit => DhcpInv
  <2> SUFFICES ASSUME DhcpInit
               PROVE  DhcpInv
    OBVIOUS
  <2>1. dhcp \in Client /\ dhcp.on = "no"
    BY ClearedType DEF DhcpInit
  <2>2. netif \in Interface /\ hist \in Hist
    BY DEF DhcpInit, Interface, Hist, HistInit
  <2> QED
    BY <2>1, <2>2 DEF DhcpInv, DhcpTypeOK, DhcpTrue, LeaseEarned
<1>2. DhcpInv /\ [DhcpNext]_dhcpVars => DhcpInv'
  <2> SUFFICES ASSUME DhcpInv, [DhcpNext]_dhcpVars
               PROVE  DhcpInv'
    OBVIOUS
  <2>1. CASE \E m \in Messages : dhcp_recv(m)
    BY <2>1, ReceiveKept
  <2>2. CASE \E addr \in Addrs : dhcp_arp_reply(addr)
    BY <2>2, ArpKept
  <2>3. CASE dhcp_fine_tmr
    BY <2>3, FineKept
  <2>4. CASE dhcp_coarse_tmr
    BY <2>4, CoarseKept
  <2>5. CASE dhcp_start
    BY <2>5, StartKept
  <2>6. CASE dhcp_stop
    <3>1. hist' \in Hist
      BY <2>6, Zenon DEF dhcp_stop, HistInit, Hist
    <3> QED
      BY <2>6, <3>1, DetachedKept DEF dhcp_stop
  <2>7. CASE Release \/ Renew
    BY <2>7, LeaseKept
  <2>8. CASE UNCHANGED dhcpVars
    BY <2>8 DEF dhcpVars, DhcpInv, DhcpTypeOK, DhcpTrue, LeaseEarned
  <2>9. CASE dhcp_inform
    <3>1. UNCHANGED hist /\ hist' \in Hist
      BY <2>9 DEF dhcp_inform, DhcpInv, DhcpTypeOK
    <3>2. CASE Becomes(State)
      BY <2>8, <3>1, <3>2 DEF Becomes, State, dhcpVars
    <3>3. CASE Becomes([State EXCEPT !.c = [Cleared EXCEPT !.on = "freed"]])
      BY <3>1, <3>3, DetachedKept
    <3> QED
      BY <2>9, <3>2, <3>3 DEF dhcp_inform
  <2> QED
    BY <2>1, <2>2, <2>3, <2>4, <2>5, <2>6, <2>7, <2>8, <2>9 DEF DhcpNext
<1>3. DhcpInv => DhcpTypeOK /\ DhcpTrue
  BY DEF DhcpInv
<1> QED
  BY <1>1, <1>2, <1>3, PTL DEF DhcpSpec

-----------------------------------------------------------------------------
\* PPP over Ethernet: a session that waits has its timer and requests left.
Good(x) ==
  /\ x.state \in Discovering \cup {"CLOSING"} => x.timers > 0
  /\ x.state \in Discovering => x.padi < MAXPADI
Sessions == {s \in Seq(Softc) : \A i \in DOMAIN s : Good(s[i])}
Callbacks == {"start", "stop", "hup", "failed"}
EndTold(p) == \E k \in DOMAIN p : p[k] = "failed"

OeInv ==
  /\ sc \in Sessions /\ pc \in Control
  /\ posted \in Seq(Callbacks) /\ Len(posted) <= MaxPosted
  /\ pc.open => sc # <<>> /\ (sc[Len(sc)].state # "INITIAL" \/ EndTold(posted))

(* Starting and stopping a session's timer.                                *)
LEMMA TimersType ==
  ASSUME NEW x \in Softc
  PROVE  /\ Timeout(x) \in Softc /\ Timeout(x).timers > 0
         /\ Timeout(x).state = x.state /\ Timeout(x).padi = x.padi
         /\ Untimeout(x) \in Softc
         /\ Untimeout(x).state = x.state /\ Untimeout(x).padi = x.padi
         /\ Untimeout(x).padr = x.padr
<1>1. x.timers \in Nat
  BY DEF Softc
<1>2. (IF x.timers > 0 THEN x.timers - 1 ELSE 0) \in Nat /\ x.timers + 1 \in Nat
  BY <1>1
<1>3. Timeout(x) = [x EXCEPT !.timers = x.timers + 1]
  BY DEF Timeout
<1>4. Untimeout(x) = [x EXCEPT !.timers = IF x.timers > 0 THEN x.timers - 1 ELSE 0]
  BY DEF Untimeout
<1> QED
  BY <1>1, <1>2, <1>3, <1>4 DEF Softc

(* A callback posted comes after those that wait (Post).                   *)
LEMMA Posted ==
  ASSUME OeInv, NEW c \in Callbacks, Post(c)
  PROVE  /\ posted' \in Seq(Callbacks) /\ Len(posted') <= MaxPosted
         /\ EndTold(posted) => EndTold(posted)'
         /\ c = "failed" => EndTold(posted)'
<1>1. /\ posted \in Seq(Callbacks) /\ Len(posted) < MaxPosted /\ posted' = Append(posted, c)
  BY DEF OeInv, Post
<1>2. MaxPosted \in Nat
  BY OeAssumption
<1>3. /\ posted' \in Seq(Callbacks) /\ Len(posted') = Len(posted) + 1
      /\ posted'[Len(posted) + 1] = c
      /\ \A k \in DOMAIN posted : k \in DOMAIN posted' /\ posted'[k] = posted[k]
  BY <1>1
<1>4. Len(posted) + 1 \in DOMAIN posted'
  BY <1>1, <1>3
<1> QED
  BY <1>1, <1>2, <1>3, <1>4 DEF EndTold

(* A step of one session keeps the invariant when the session is still     *)
(* watched and its end, if it ended, is told.                              *)
LEMMA SessionKept ==
  ASSUME OeInv, NEW i \in DOMAIN sc, NEW x \in Softc, Good(x), Set(i, x), pc' = pc,
         posted' \in Seq(Callbacks), Len(posted') <= MaxPosted,
         EndTold(posted) => EndTold(posted)',
         x.state = "INITIAL" => sc[i].state = "INITIAL" \/ EndTold(posted)'
  PROVE  OeInv'
<1>1. /\ sc \in Seq(Softc) /\ \A j \in DOMAIN sc : Good(sc[j])
      /\ pc.open => sc # <<>> /\ (sc[Len(sc)].state # "INITIAL" \/ EndTold(posted))
      /\ pc \in Control
  BY DEF OeInv, Sessions
<1>2. sc' = [sc EXCEPT ![i] = x]
  BY DEF Set
<1>3. /\ sc' \in Seq(Softc) /\ Len(sc') = Len(sc) /\ DOMAIN sc' = DOMAIN sc
      /\ \A j \in DOMAIN sc : sc'[j] = IF j = i THEN x ELSE sc[j]
  BY <1>1, <1>2
<1>4. sc' \in Sessions
  BY <1>1, <1>3 DEF Sessions
<1>5. pc'.open => sc' # <<>> /\ (sc'[Len(sc')].state # "INITIAL" \/ EndTold(posted)')
  <2> SUFFICES ASSUME pc.open
               PROVE  sc' # <<>> /\ (sc'[Len(sc')].state # "INITIAL" \/ EndTold(posted)')
    OBVIOUS
  <2>1. sc # <<>> /\ Len(sc) \in DOMAIN sc /\ sc' # <<>>
    BY <1>1, <1>3
  <2> QED
    BY <1>1, <1>3, <2>1
<1> QED
  BY <1>1, <1>4, <1>5 DEF OeInv

(* Disconnecting a session (pppoe_disconnect) starts the timer that ends   *)
(* it.                                                                     *)
LEMMA Disconnected ==
  ASSUME NEW s \in Sessions
  PROVE  LET d == pppoe_disconnect(s)
         IN  /\ d \in Sessions /\ Len(d) = Len(s)
             /\ s # <<>> /\ d[Len(d)].state = "INITIAL" => s[Len(s)].state = "INITIAL"
<1> DEFINE d == pppoe_disconnect(s)
           n == Len(s)
<1>1. s \in Seq(Softc) /\ \A i \in DOMAIN s : Good(s[i])
  BY DEF Sessions
<1>2. CASE s = <<>> \/ s[Len(s)].state \notin {"SESSION", "CLOSING"}
  BY <1>2 DEF pppoe_disconnect
<1>3. CASE s # <<>> /\ s[Len(s)].state \in {"SESSION", "CLOSING"}
  <2> DEFINE x == [s[n] EXCEPT !.state = "CLOSING"]
             y == Timeout(x)
  <2>1. n \in DOMAIN s /\ s[n] \in Softc
    BY <1>1, <1>3
  <2>2. x \in Softc /\ x.state = "CLOSING"
    BY <2>1 DEF Softc
  <2>3. d = [s EXCEPT ![n] = y]
    BY <1>3 DEF pppoe_disconnect
  <2> HIDE DEF x, d
  <2>4. y \in Softc /\ y.timers > 0 /\ y.state = "CLOSING"
    BY <2>2, TimersType
  <2>5. Good(y)
    BY <2>4 DEF Good, Discovering
  <2> HIDE DEF y
  <2>6. /\ d \in Seq(Softc) /\ Len(d) = n /\ DOMAIN d = DOMAIN s
        /\ \A i \in DOMAIN s : d[i] = IF i = n THEN y ELSE s[i]
    BY <1>1, <2>1, <2>3, <2>4
  <2>7. d \in Sessions
    BY <1>1, <2>5, <2>6 DEF Sessions
  <2> QED
    BY <2>1, <2>4, <2>6, <2>7 DEF d
<1> QED
  BY <1>2, <1>3

(* What the callbacks leave, one after the other: only a failure closes    *)
(* the descriptor, and no session goes back to the initial state.          *)
LEMMA CallbackKept ==
  ASSUME OeInv, Callback
  PROVE  OeInv'
<1> DEFINE b == Both(pc, sc)
           c == Head(posted)
           n == CASE c = "start" -> pppStartCB(b)
                  [] c = "stop" -> pppStopCB(b)
                  [] c = "hup" -> pppHupCB(b)
                  [] c = "failed" -> pppOverEthernetInitFailed(b)
           d == pppoe_disconnect(sc)
<1>1. /\ sc \in Sessions /\ pc \in Control
      /\ posted \in Seq(Callbacks) /\ Len(posted) <= MaxPosted /\ posted # <<>>
      /\ pc.open => sc # <<>> /\ (sc[Len(sc)].state # "INITIAL" \/ EndTold(posted))
      /\ pc' = n.pc /\ sc' = n.sc /\ posted' = Tail(posted)
  BY DEF OeInv, Callback
<1>2. /\ c \in Callbacks /\ posted' \in Seq(Callbacks) /\ Len(posted') <= MaxPosted
      /\ c # "failed" => (EndTold(posted) => EndTold(posted)')
  <2>1. /\ c = posted[1] /\ c \in Callbacks /\ posted' \in Seq(Callbacks)
        /\ Len(posted') = Len(posted) - 1
        /\ \A k \in 1 .. Len(posted) - 1 : posted'[k] = posted[k + 1]
    BY <1>1
  <2>2. MaxPosted \in Nat /\ Len(posted) \in Nat
    BY <1>1, OeAssumption
  <2>3. ASSUME c # "failed", NEW k \in DOMAIN posted, posted[k] = "failed"
        PROVE  EndTold(posted)'
    <3>1. k \in 1 .. Len(posted) /\ k # 1
      BY <1>1, <2>1, <2>3
    <3>2. k - 1 \in 1 .. Len(posted) - 1 /\ k - 1 \in DOMAIN posted' /\ (k - 1) + 1 = k
      BY <2>1, <2>2, <3>1
    <3>3. posted'[k - 1] = "failed"
      BY <2>1, <2>3, <3>2
    <3> QED
      BY <3>2, <3>3 DEF EndTold
  <2> QED
    BY <1>1, <2>1, <2>2, <2>3 DEF EndTold
<1>3. d \in Sessions /\ Len(d) = Len(sc)
      /\ (sc # <<>> /\ d[Len(d)].state = "INITIAL" => sc[Len(sc)].state = "INITIAL")
  BY <1>1, Disconnected
<1>4. b.pc = pc /\ b.sc = sc
  BY DEF Both
<1> HIDE DEF b, d
<1>5. pppHupCB(b).pc \in Control /\ pppHupCB(b).pc.open = pc.open /\ pppHupCB(b).sc \in {sc, d}
  BY <1>1, <1>4, Zenon DEF pppHupCB, link_terminated, Both, Control, d
<1>6. /\ n.pc \in Control /\ n.sc \in {sc, d}
      /\ n.pc.open => pc.open /\ c # "failed"
  <2>1. CASE c = "start"
    BY <1>1, <1>4, <2>1, Zenon DEF pppStartCB, Both, Control
  <2>2. CASE c = "stop"
    BY <1>1, <1>4, <2>2, Zenon DEF pppStopCB, Both, Control
  <2>3. CASE c = "hup"
    BY <1>5, <2>3
  <2>4. CASE c = "failed"
    <3> DEFINE h == pppHupCB(b)
               m == pppStopCB(h)
    <3>1. m.pc \in Control /\ m.sc = h.sc
      BY <1>5, Zenon DEF pppStopCB, Both, Control
    <3>2. n = Both([m.pc EXCEPT !.open = FALSE], m.sc)
      BY <2>4 DEF pppOverEthernetInitFailed
    <3> HIDE DEF m, n, h
    <3> QED
      BY <1>5, <3>1, <3>2, Zenon DEF Both, Control, h
  <2> QED
    BY <1>2, <2>1, <2>2, <2>3, <2>4 DEF Callbacks
<1> HIDE DEF n, c
<1>7. sc' \in Sessions /\ Len(sc') = Len(sc)
  BY <1>1, <1>3, <1>6
<1>8. ASSUME pc'.open
      PROVE  sc' # <<>> /\ (sc'[Len(sc')].state # "INITIAL" \/ EndTold(posted)')
  <2>1. sc # <<>> /\ (sc[Len(sc)].state # "INITIAL" \/ EndTold(posted)')
    BY <1>1, <1>2, <1>6, <1>8
  <2>2. sc' # <<>>
    BY <1>1, <1>7, <2>1 DEF Sessions
  <2>3. CASE sc' = sc
    BY <2>1, <2>3
  <2>4. CASE sc' = d
    BY <1>3, <2>1, <2>4
  <2> QED
    BY <1>1, <1>6, <2>2, <2>3, <2>4
<1> QED
  BY <1>1, <1>2, <1>6, <1>7, <1>8 DEF OeInv

(* Opening, and the application's and LCP's ends (pppOverEthernetOpen,     *)
(* pppClose, pppSigHUP, link_terminated, link_down).                       *)
LEMMA ControlKept ==
  ASSUME OeInv,
         \/ \E memory \in BOOLEAN : pppOverEthernetOpen(memory)
         \/ pppClose \/ pppSigHUP \/ LcpEnds \/ LcpAgain
  PROVE  OeInv'
<1> DEFINE d == pppoe_disconnect(sc)
<1>1. /\ sc \in Sessions /\ pc \in Control /\ sc \in Seq(Softc)
      /\ posted \in Seq(Callbacks) /\ Len(posted) <= MaxPosted
      /\ pc.open => sc # <<>> /\ (sc[Len(sc)].state # "INITIAL" \/ EndTold(posted))
  BY DEF OeInv, Sessions
<1>2. ASSUME NEW memory \in BOOLEAN, pppOverEthernetOpen(memory)
      PROVE  OeInv'
  <2>1. /\ pc' = [pc EXCEPT !.open = memory, !.phase = "INITIALIZE", !.lcp = "initial"]
        /\ sc' = (IF memory THEN Append(sc, New) ELSE sc) /\ posted' = posted
    BY <1>2, Zenon DEF pppOverEthernetOpen
  <2>2. pc' \in Control /\ pc'.open = memory
    BY <1>1, <2>1, Zenon DEF Control
  <2>3. New \in Softc /\ Good(New) /\ New.state = "PADI_SENT"
    BY OeAssumption DEF New, Softc, Good
  <2>4. CASE memory
    <3>1. /\ sc' \in Seq(Softc) /\ Len(sc') = Len(sc) + 1 /\ sc'[Len(sc')] = New
          /\ \A i \in DOMAIN sc' : sc'[i] = New \/ (i \in DOMAIN sc /\ sc'[i] = sc[i])
      BY <1>1, <2>1, <2>3, <2>4
    <3>2. sc' \in Sessions /\ sc' # <<>>
      BY <1>1, <2>3, <3>1 DEF Sessions
    <3> QED
      BY <1>1, <2>1, <2>2, <2>3, <3>1, <3>2 DEF OeInv
  <2>5. CASE ~memory
    BY <1>1, <2>1, <2>2, <2>5 DEF OeInv
  <2> QED
    BY <2>4, <2>5
<1>3. CASE pppClose \/ pppSigHUP
  <2>1. PICK c \in Callbacks : Post(c)
    BY <1>3 DEF pppClose, pppSigHUP, Callbacks
  <2>2. pc' = [pc EXCEPT !.calls = @ + 1] /\ pc.calls < MaxPosted /\ sc' = sc
    BY <1>3 DEF pppClose, pppSigHUP
  <2>3. pc' \in Control /\ pc'.open = pc.open
    <3>1. pc.calls + 1 \in 0 .. MaxPosted
      BY <1>1, <2>2, OeAssumption DEF Control
    <3> QED
      BY <1>1, <2>2, <3>1 DEF Control
  <2>4. /\ posted' \in Seq(Callbacks) /\ Len(posted') <= MaxPosted
        /\ EndTold(posted) => EndTold(posted)'
    BY <2>1, Posted
  <2> QED
    BY <1>1, <2>2, <2>3, <2>4 DEF OeInv
<1>4. CASE LcpEnds \/ LcpAgain
  <2>1. /\ pc' \in Control /\ pc'.open = pc.open /\ sc' \in {sc, d} /\ posted' = posted
    <3>1. CASE LcpEnds
      BY <1>1, <3>1, Zenon DEF LcpEnds, link_terminated, Both, Control
    <3>2. CASE LcpAgain
      BY <1>1, <3>2 DEF LcpAgain, Control
    <3> QED
      BY <1>4, <3>1, <3>2
  <2>2. d \in Sessions /\ Len(d) = Len(sc)
        /\ (sc # <<>> /\ d[Len(d)].state = "INITIAL" => sc[Len(sc)].state = "INITIAL")
    BY <1>1, Disconnected
  <2> HIDE DEF d
  <2>3. sc # <<>> => d # <<>>
    BY <1>1, <2>2 DEF Sessions
  <2>4. CASE sc' = sc
    BY <1>1, <2>1, <2>4 DEF OeInv
  <2>5. CASE sc' = d
    BY <1>1, <2>1, <2>2, <2>3, <2>5 DEF OeInv
  <2> QED
    BY <2>1, <2>4, <2>5
<1> QED
  BY <1>2, <1>3, <1>4

(* The concentrator's packets (pppoe_dispatch_disc_pkt), and the session   *)
(* that is up being told (pppoe_linkstatus_up).                            *)
LEMMA PacketKept ==
  ASSUME OeInv, NEW i \in DOMAIN sc,
         \/ \E cookie, memory \in BOOLEAN : PADO(i, cookie, memory)
         \/ PADS(i) \/ PADT(i) \/ pppoe_linkstatus_up(i)
  PROVE  OeInv'
<1> DEFINE x == sc[i]
           u == Untimeout(x)
<1>1. x \in Softc /\ Good(x) /\ posted \in Seq(Callbacks) /\ Len(posted) <= MaxPosted
  BY DEF OeInv, Sessions
<1>2. /\ u \in Softc /\ u.state = x.state /\ u.padi = x.padi
  BY <1>1, TimersType
<1>3. ASSUME NEW cookie \in BOOLEAN, NEW memory \in BOOLEAN, PADO(i, cookie, memory)
      PROVE  OeInv'
  <2> DEFINE k == u.cookie \/ cookie
             v == [u EXCEPT !.cookie = k, !.dest = "peer", !.padr = 0, !.state = "PADR_SENT"]
             w == Timeout(v)
             y == [x EXCEPT !.cookie = FALSE]
             z == IF cookie /\ ~memory THEN y ELSE w
  <2>1. x.state = "PADI_SENT" /\ Set(i, z) /\ pc' = pc /\ posted' = posted
    BY <1>3, Zenon DEF PADO
  <2>2. y \in Softc /\ Good(y) /\ y.state # "INITIAL"
    BY <1>1, <2>1, Zenon DEF Softc, Good, Discovering
  <2> HIDE DEF u, x, y
  <2>3. v \in Softc /\ v.state = "PADR_SENT" /\ v.padi = u.padi
    <3>1. k \in BOOLEAN
      OBVIOUS
    <3>2. 0 \in 0 .. MAXPADR - 1
      BY OeAssumption
    <3> HIDE DEF k
    <3> QED
      BY <1>2, <3>1, <3>2, Zenon DEF Softc
  <2> HIDE DEF v
  <2>4. w \in Softc /\ w.timers > 0 /\ w.state = "PADR_SENT" /\ w.padi = u.padi
    BY <2>3, TimersType
  <2>5. Good(w)
    BY <1>1, <1>2, <2>1, <2>4 DEF Good, Discovering
  <2> HIDE DEF w
  <2>6. z \in Softc /\ Good(z) /\ z.state # "INITIAL"
    BY <2>2, <2>4, <2>5
  <2> HIDE DEF z
  <2> QED
    BY <1>1, <2>1, <2>6, SessionKept DEF EndTold
<1>4. CASE PADS(i)
  <2> DEFINE n == u.ups + 1
             z == [u EXCEPT !.state = "SESSION", !.ups = n]
  <2>1. Set(i, z) /\ pc' = pc /\ posted' = posted
    BY <1>4 DEF PADS
  <2> HIDE DEF u, x
  <2>2. z \in Softc /\ z.state = "SESSION"
    <3>1. n \in Nat
      BY <1>2 DEF Softc
    <3> HIDE DEF n
    <3> QED
      BY <1>2, <3>1, Zenon DEF Softc
  <2>3. Good(z)
    BY <2>2 DEF Good, Discovering
  <2> HIDE DEF z
  <2> QED
    BY <1>1, <2>1, <2>2, <2>3, SessionKept DEF EndTold
<1>5. CASE PADT(i)
  <2> DEFINE z == [u EXCEPT !.state = "INITIAL", !.dest = "all", !.cookie = FALSE]
  <2>1. Set(i, z) /\ pc' = pc /\ Post("failed")
    BY <1>5 DEF PADT
  <2> HIDE DEF u, x
  <2>2. z \in Softc /\ z.state = "INITIAL"
    BY <1>2, Zenon DEF Softc
  <2>3. Good(z)
    BY <2>2 DEF Good, Discovering
  <2> HIDE DEF z
  <2>4. posted' \in Seq(Callbacks) /\ Len(posted') <= MaxPosted /\ EndTold(posted)'
    BY <2>1, Posted DEF Callbacks
  <2> QED
    BY <1>1, <2>1, <2>2, <2>3, <2>4, SessionKept
<1>6. CASE pppoe_linkstatus_up(i)
  <2> DEFINE z == [x EXCEPT !.ups = @ - 1]
  <2>1. x.ups > 0 /\ Set(i, z) /\ pc' = pc /\ Post("start")
    BY <1>6 DEF pppoe_linkstatus_up
  <2>2. x.ups - 1 \in Nat
    BY <1>1, <2>1 DEF Softc
  <2>3. z = [x EXCEPT !.ups = x.ups - 1] /\ z \in Softc
    BY <1>1, <2>2 DEF Softc
  <2>4. z.state = x.state /\ Good(z)
    BY <1>1 DEF Good, Softc
  <2> HIDE DEF z
  <2>5. /\ posted' \in Seq(Callbacks) /\ Len(posted') <= MaxPosted
        /\ EndTold(posted) => EndTold(posted)'
    BY <2>1, Posted DEF Callbacks
  <2> QED
    BY <1>1, <2>1, <2>3, <2>4, <2>5, SessionKept, Zenon
<1> QED
  BY <1>3, <1>4, <1>5, <1>6

(* The timer of a session goes on with it: with another request while      *)
(* there are any left, or with its end (pppoe_timeout).                    *)
LEMMA TimeoutKept ==
  ASSUME OeInv, NEW i \in DOMAIN sc, NEW fails \in BOOLEAN, pppoe_timeout(i, fails)
  PROVE  OeInv'
<1> DEFINE x == sc[i]
           u == Untimeout(x)
           end == u.state = "PADI_SENT" /\ u.padi + 1 >= MAXPADI
           back == u.state = "PADR_SENT" /\ u.padr + 1 >= MAXPADR
           n == IF fails THEN u.padi ELSE u.padi + 1
           m == IF fails THEN u.padr ELSE u.padr + 1
           z1 == [u EXCEPT !.padi = u.padi + 1, !.state = "INITIAL", !.dest = "all"]
           z2 == [u EXCEPT !.padi = n]
           z3 == [u EXCEPT !.dest = "all", !.state = "PADI_SENT", !.padr = 0]
           z4 == [u EXCEPT !.padr = m]
           z5 == [u EXCEPT !.state = "INITIAL", !.dest = "all", !.cookie = FALSE]
<1>1. /\ x \in Softc /\ Good(x) /\ posted \in Seq(Callbacks) /\ Len(posted) <= MaxPosted
  BY DEF OeInv, Sessions
<1>2. u \in Softc /\ u.state = x.state /\ u.padi = x.padi
  BY <1>1, TimersType
<1>3. /\ pc' = pc
      /\ \/ end /\ Set(i, z1) /\ Post("failed")
         \/ u.state = "PADI_SENT" /\ ~end /\ Set(i, Timeout(z2)) /\ posted' = posted
         \/ back /\ Set(i, Timeout(z3)) /\ posted' = posted
         \/ u.state = "PADR_SENT" /\ ~back /\ Set(i, Timeout(z4)) /\ posted' = posted
         \/ u.state = "CLOSING" /\ Set(i, z5) /\ Post("failed")
         \/ u.state \in {"INITIAL", "SESSION"} /\ Set(i, u) /\ posted' = posted
  BY DEF pppoe_timeout
<1>4. /\ u.state \in Discovering => u.padi < MAXPADI
      /\ u.padi \in Nat /\ u.padr \in 0 .. MAXPADR - 1
      /\ MAXPADI \in Nat \ {0} /\ MAXPADR \in Nat \ {0}
  BY <1>1, <1>2, OeAssumption DEF Good, Softc
<1> HIDE DEF u, x
<1>5. ASSUME NEW z \in Softc, Good(z), Set(i, z),
             \/ Post("failed")
             \/ posted' = posted /\ (z.state = "INITIAL" => u.state = "INITIAL")
      PROVE  OeInv'
  <2>1. CASE Post("failed")
    <3>1. posted' \in Seq(Callbacks) /\ Len(posted') <= MaxPosted /\ EndTold(posted)'
      BY <2>1, Posted DEF Callbacks
    <3> QED
      BY <1>3, <1>5, <3>1, SessionKept
  <2>2. CASE posted' = posted /\ (z.state = "INITIAL" => u.state = "INITIAL")
    BY <1>1, <1>2, <1>3, <1>5, <2>2, SessionKept DEF EndTold, x
  <2> QED
    BY <1>5, <2>1, <2>2
<1>6. CASE end /\ Set(i, z1) /\ Post("failed")
  <2>1. u.padi + 1 \in 0 .. MAXPADI
    BY <1>4, <1>6 DEF Discovering
  <2>2. z1 \in Softc /\ z1.state = "INITIAL"
    BY <1>2, <2>1, Zenon DEF Softc
  <2>3. Good(z1)
    BY <2>2 DEF Good, Discovering
  <2> HIDE DEF z1
  <2> QED
    BY <1>5, <1>6, <2>2, <2>3
<1>7. CASE u.state = "PADI_SENT" /\ ~end /\ Set(i, Timeout(z2)) /\ posted' = posted
  <2>1. n \in 0 .. MAXPADI /\ n < MAXPADI
    BY <1>4, <1>7 DEF Discovering
  <2>2. z2 \in Softc /\ z2.state = "PADI_SENT" /\ z2.padi = n
    BY <1>2, <1>7, <2>1 DEF Softc
  <2> HIDE DEF z2
  <2>3. Timeout(z2) \in Softc /\ Good(Timeout(z2)) /\ Timeout(z2).state = "PADI_SENT"
    BY <2>1, <2>2, TimersType DEF Good
  <2> QED
    BY <1>5, <1>7, <2>3
<1>8. CASE back /\ Set(i, Timeout(z3)) /\ posted' = posted
  <2>1. z3 \in Softc /\ z3.state = "PADI_SENT" /\ z3.padi = u.padi
    <3>1. 0 \in 0 .. MAXPADR - 1
      BY <1>4
    <3> QED
      BY <1>2, <3>1, Zenon DEF Softc
  <2> HIDE DEF z3
  <2>2. Timeout(z3) \in Softc /\ Good(Timeout(z3)) /\ Timeout(z3).state = "PADI_SENT"
    BY <1>4, <1>8, <2>1, TimersType DEF Good, Discovering
  <2> QED
    BY <1>5, <1>8, <2>2
<1>9. CASE u.state = "PADR_SENT" /\ ~back /\ Set(i, Timeout(z4)) /\ posted' = posted
  <2>1. m \in 0 .. MAXPADR - 1
    BY <1>4, <1>9
  <2>2. z4 \in Softc /\ z4.state = "PADR_SENT" /\ z4.padi = u.padi
    BY <1>2, <1>9, <2>1 DEF Softc
  <2> HIDE DEF z4
  <2>3. Timeout(z4) \in Softc /\ Good(Timeout(z4)) /\ Timeout(z4).state = "PADR_SENT"
    BY <1>4, <1>9, <2>2, TimersType DEF Good, Discovering
  <2> QED
    BY <1>5, <1>9, <2>3
<1>10. CASE u.state = "CLOSING" /\ Set(i, z5) /\ Post("failed")
  <2>1. z5 \in Softc /\ z5.state = "INITIAL"
    BY <1>2, Zenon DEF Softc
  <2>2. Good(z5)
    BY <2>1 DEF Good, Discovering
  <2> HIDE DEF z5
  <2> QED
    BY <1>5, <1>10, <2>1, <2>2
<1>11. CASE u.state \in {"INITIAL", "SESSION"} /\ Set(i, u) /\ posted' = posted
  <2>1. Good(u)
    BY <1>11 DEF Good, Discovering
  <2> QED
    BY <1>2, <1>5, <1>11, <2>1
<1> HIDE DEF end, back, z1, z2, z3, z4, z5
<1> QED
  BY <1>3, <1>6, <1>7, <1>8, <1>9, <1>10, <1>11

(* PPP over Ethernet (ppp_oe.c), whatever packets the concentrator sends   *)
(* and in whatever order the callbacks run: a session that waits has its   *)
(* timer, and an open descriptor is never left with nothing behind it.     *)
THEOREM SessionsCorrect == OeSpec => [](OeTypeOK /\ SessionsTrue)
<1>1. OeInit => OeInv
  BY OeAssumption DEF OeInit, OeInv, Sessions, Control, Callbacks
<1>2. OeInv /\ [OeNext]_oeVars => OeInv'
  <2> SUFFICES ASSUME OeInv, [OeNext]_oeVars
               PROVE  OeInv'
    OBVIOUS
  <2>1. CASE \/ \E memory \in BOOLEAN : pppOverEthernetOpen(memory)
             \/ pppClose \/ pppSigHUP \/ LcpEnds \/ LcpAgain
    BY <2>1, ControlKept
  <2>2. CASE Callback
    BY <2>2, CallbackKept
  <2>3. ASSUME NEW i \in DOMAIN sc,
               \/ \E cookie, memory \in BOOLEAN : PADO(i, cookie, memory)
               \/ PADS(i) \/ PADT(i) \/ pppoe_linkstatus_up(i)
        PROVE  OeInv'
    BY <2>3, PacketKept
  <2>4. ASSUME NEW i \in DOMAIN sc, NEW fails \in BOOLEAN, pppoe_timeout(i, fails)
        PROVE  OeInv'
    BY <2>4, TimeoutKept
  <2>5. CASE UNCHANGED oeVars
    BY <2>5 DEF oeVars, OeInv, EndTold
  <2> QED
    BY <2>1, <2>2, <2>3, <2>4, <2>5 DEF OeNext
<1>3. OeInv => OeTypeOK /\ SessionsTrue
  BY DEF OeInv, OeTypeOK, SessionsTrue, DiscoveryWatched, OpenIsServed, Sessions, Good,
         Callbacks, EndTold
<1> QED
  BY <1>1, <1>2, <1>3, PTL DEF OeSpec
=============================================================================
