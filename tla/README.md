# A model of the VP2motion motion controller

The repository is an FPGA motion controller with the software that is built for
it: a peripheral that drives a stepper motor (`pcores/motion_v1_00_a`), the boot
loader and console that run on the processor beside it (`sdloader`), the
xilkernel operating system (`bsp/xilkernel_v4_00_a`) and the lwIP network stack
(`sw_services/lwip130_v1_00_a`).  This directory models all four.  TLC checks the
models on small instances; TLAPS proves what holds of the motion core, the stepper
driver, the console, the SD card driver, the DHCP client and PPP sessions and links
for every value of the constants.

In what follows, lwIP files are named below `lwip-1.3.0/src/`, kernel files below
`xilkernel_v4_00_a/src/src/`, loader files below `sdloader/src/`, and core files
below `motion_v1_00_a/hdl/verilog/`.

## 1. The system and its modules

### The motion core and its driver

```
Words
 |- CommandPath             segment timer, velocities, registers   acc_step_gen.v acc_profile_gen.v user_logic.v
 |    \- Steppers           + driver and main loop                 steppers.c motion.c main.c
 |         \. implements MotionQueue
 \- StepPath                position, strobes, pulse shaper        acc_profile_gen.v motor_step_gen.v user_logic.v
```

**Words.** Registers are words modulo `M = 2 * H` (2^32 in the code), signed ones
are `-H .. H-1`; `Signed`, `Unsigned` and `Wrap` are the conversions that ports,
casts and additions make.

**CommandPath.** One clock edge is one step, and every register takes its next
value from the old ones, as non-blocking assignments do.  A clock is a load, a
counting clock, or a clock at rest, and carries at most one bus write.  `HwSpec`
closes the core with a bus that may write any of `BusWrites`, or reset, at any
clock.  `elapsed`, `applied` and `start` are history variables: clocks and
increments since the load, and the values it left.

**StepPath.** `x` moves by `v` on every clock, running segment or not.  Here `v`
and the loads of `x` are arbitrary inputs, so what holds, holds for every profile
the command path can produce.  History variables count strobes, pulses and dropped
strobes with their direction.

**Steppers.** One thread and the clock.  The thread takes at most one console
command, then makes one pass of `steppersMainLoop`.  A driver routine is the
sequence of its bus accesses (`MoveProg`, `StopProg`, `InitProg`, made of the
`MOTION_*` routines): a write takes place on a clock edge of the core, a read sees
it as it is, and any number of clocks may pass between two accesses.  Thus every
read-modify-write of the command register can be cut by the core.  The number of
acceleration steps of a move is computed as the code does, with the rounding of
doubles as a choice.  The coefficients are arbitrary.

**MotionQueue** is the promise: accepted moves run one at a time, in order, each
once, and do run, unless a reset forgets them all.  The refinement mapping counts
the move on its way to the core (`flight`) as the first of the pending.

### The rest of the boot loader

**Cmdline, LineEditor** (`cmdline.c`, `main.c`).  The buffer is the code's array
with its stale contents, and the terminal is modelled by what the code sends it.
`LineEditor` is the promise: text left and right of a cursor, a memory of lines, an
entered line executed before the next key is looked at.  A received key and the
execution of its command are two steps, as in the main loop.

**Mmc** (`mmc.c`, `diskio.c`).  The driver's routines, one step per byte waited
for, and a card that is not in the repository: it answers in order but as late as
it likes, also after the driver has given up, may refuse, and forgets its pending
answers on GO_IDLE_STATE.  A byte out of the middle of a data block may look like
anything.

**FatFs** (`ff.c`, `main.c`).  Mounting (`chk_mounted`), the sector window
(`move_window`), cluster chains (`get_fat`), directories and names
(`dir_next`, `dir_find`, `create_name`, `follow_path`), `f_open`, `f_read`,
`f_lseek`, `f_opendir`, `f_readdir`, and `bootelf` on top.  Each disk access may
fail; a card may be exchanged between mounts.  A card is an image of records
(parameter block, table, directories, program headers); a data byte is its place.
`ffconf.h` sets `_FS_READONLY`, so there is no writing half.

### xilkernel

```
KernelQueue                 FIFO and heap of processes as values   sys/queue.c
 |- Kernel                  process table, scheduler, timers       sys/sched.c sys/process.c sys/timer.c
 |    |- KernelSem          semaphores, timed waits                ipc/semaphore.c
 |    |- KernelMutex        recursive and plain mutexes            ipc/mutex.c
 |    |- KernelMsg          message queues on semaphores           ipc/msg.c
 |    \- KernelThreads      threads, join, detach, kill            sys/pthread.c
 \- KernelStructs           circular array, heap array, pools      sys/queue.c sys/bufmalloc.c
```

The kernel is a record: the process table, the ready queues, the wait queues and
the timer list.  A system call runs to its end or to the point where it blocks; a
process that blocked goes on from the continuation `kont` names, at whatever later
time the scheduler picks it.  Timer interrupts, and posts from an interrupt
handler, come between any two steps.  Both schedulers are modelled
(`SCHED_TYPE`).  `KernelStructs` checks the arrays of `queue.c` against the
sequences that the other modules take them for, and the chains of the buffer
pools, which run through the free blocks themselves.

### lwIP

| module | code | what moves in it |
|---|---|---|
| `Etharp` | `netif/etharp.c` | the table and its recycling, packets waiting for an address, the timer, requests and answers of other hosts |
| `Dhcp` | `core/dhcp.c` | every state, timer and message of the client; servers that answer late, twice, or for an earlier request; the ARP check of the offered address |
| `TcpIn` | `core/tcp_in.c`, `core/tcp.c` | segments in any order against the receive queue, the window, data the application refuses, the FIN |
| `TcpOut` | `core/tcp_out.c`, `core/tcp_in.c`, `core/tcp.c` | queues of unsent and unacknowledged segments, Nagle, window probes, retransmission, fast retransmit, the FIN |
| `TcpConn` | `core/tcp.c`, `core/tcp_in.c` | control blocks, their lists and states, ports, priorities, the limit of the pool, every timer |
| `Ip` | `core/ipv4/ip.c`, `ip_frag.c`, `icmp.c`, `ip_addr.c`, `core/udp.c`, `core/raw.c`, `core/netif.c` | routing, fragmentation, reassembly, sockets, ICMP answers |
| `Pbuf` | `core/mem.c`, `core/memp.c`, `core/pbuf.c` | the heap with its holes, pools, chains and their reference counts |
| `Snmp` | `core/snmp/*.c` | index trees, walks, GET, GETNEXT and SET, request slots, the codes of ASN.1 |
| `PppFsm`, `Lcp`, `Ipcp` | `netif/ppp/fsm.c`, `lcp.c`, `ipcp.c` | two automata over a line that loses or returns packets |
| `PppLink` | `netif/ppp/auth.c`, `pap.c`, `chap.c`, `ppp.c` | phases of a link, authentication both ways |
| `PppFrame` | `netif/ppp/ppp.c` | bytes: flags, escapes, the check sequence, a buffer that is not there |
| `Vj` | `netif/ppp/vj.c` | header compression over a line that loses packets |
| `PppOe` | `netif/ppp/ppp_oe.c` | discovery, its retries, the session |

Each is a component of its own with an environment that does what its callers and
the network may do.  An allocation may fail wherever the code allocates.  Data is
symbolic, but sequence numbers, ports and lengths wrap as in the code, at a smaller
width.

### Composition for the checker

`MC*` modules give the constants small values.  Where several components are
checked by one run, `part`, which never changes, says which of them a behaviour
exercises; the components do not share state in the code either, except through
calls whose outcomes each of them enumerates.  `MCKernel`, `MCNet`, `MCPpp` and
`MCServices` map the components' variables to `x1`, `x2`, ...; `MCMotion`,
`MCLoader` and `MCStorage` extend them, and so do `MCNet` and `MCPpp` the three
components there are proofs about (`Dhcp`, `PppOe`, `PppLink`).

## 2. What is hard here

* The driver and the core share the command register: the driver sets bits in it by
  read, or and write, and the core clears it on a clock of its own choice.
  Segments are chained without a gap only if the next command is in place on the one
  clock on which the timer is done.
* Limits of 0 wrap to a full turn of the counter, and short moves produce them.
* The axis goes on moving when the queue runs dry, until the driver notices; the
  driver's picture of the core must be right, also after a reset.
* A card answers after the driver has given up, and the next command finds the
  answer on the wire.
* In the kernel a timeout, a post, a destruction and a kill can all reach a process
  before it has run again.
* In the network stack every packet may be lost, late, doubled or reordered, every
  allocation may fail, and pools are recycled while somebody still waits.

`PROJECT.json` lists these hazards at the lines where they bite, with the properties
that would catch them going wrong.

## 3. Runs

| run | instance | what it shows |
|---|---|---|
| `motion` | 3-bit words, limits 0 (a full turn) and up, steps on bit 1, shaper points with and without a low phase | length and trajectory of segments under arbitrary bus traffic; strobes are the motion of `x`, pulses are the strobes less the reported misses, with their set-up, hold and width |
| `loader` | 2-bit words, queue of two, a move too short for any step; lines of 2 and of 3 characters, histories of 2 and 1; patience of 4 bytes, blocks on both sides of the address split | commands load whole and configured, idle means at rest, `MotionQueue` is implemented; the console's arrays, terminal, arguments and history, `LineEditor` is implemented; card routines return, and success is genuine |
| `storage` | 4-byte sectors, FAT12, FAT16 and FAT32 cards, broken chains, refused volumes | files, seeks and listings tell what is on the card; what is booted is whole |
| `kernel` | priority scheduling, three processes and the idle task, two priorities | nobody waits for what is there, everybody is where the table says, messages and buffers are kept |
| `kernel_fair` | round robin | ready processes run; timed waits, waits for a free mutex and joins end |
| `net` | ARP, DHCP, the two halves of TCP across the wrap of sequence numbers, two control blocks | addresses, streams and connections are right |
| `ppp` | two LCP and two IPCP ends, one authenticated link, frames, headers, PPPoE | ends that are up agree, what comes off the line was sent |
| `services` | SNMP tables, requests and codes; heap and buffers; fragments; sockets | answers match the tables, memory is accounted for, datagrams find their sockets |
| `sd_card_timeout`, `kernel_lost_post`, `tcp_close_leak`, `reassembly_hole` | parts of the above | findings, below |

**Bounds.** Words of two and three bits wrap within a few increments and make the
limit of 0 a segment of a full turn.  A queue of two is full, half full and empty
while a third move is on its way and a fourth runs.  Lines of three characters have
a middle to insert into.  Four kernel contexts let two processes wait while a third
and an interrupt act; five make a heap of three levels.  Streams of four bytes in
segments of two, starting three below the wrap, overlap and reorder; the window
closes and opens.  Three connections compete for two slots of the header compressor.
Every bound is a constant of its module, named in the guard it limits (`MaxTicks`,
`MaxCreates`, `MaxMounts`, ...).  There are no state constraints.

**Deadlock** is checked in `motion`, `loader`, `storage` and both kernel runs.
`net`, `ppp` and `services` may stop: their environments have a bounded number of
packets, opens and losses, and a closed connection stays closed.

**Fairness.** The clock ticks for ever (`WF(Tick)`); the main loop never blocks and
has no wait inside a routine (`WF(Software)`; in the console, of `NoCharacter` and
`MainLoop`, never of the user's keys); a card routine goes on until it returns
(`MmcFairness`).  In the kernel (`KernelFairness`) the timer interrupt goes on, which
the hardware timer guarantees, and a process that runs ends its time slice or its
call.  Nothing assumes that a card answers, that a user types, that somebody posts, or
that resets cease.  The network runs state safety only: what a liveness property would
say there appears as "whoever waits has a timer" (`Watched`, `DhcpTrue`, `SessionsTrue`, `TcpOut!SendTrue`).

**Findings.**

* `mmc.c:120` promises to send SEND_OP_COND "until response is 0"; the test at line
  133 takes an answer on the last try for a timeout (`GivesUpOnlyUnanswered`).
* `semaphore.c:388` blocks "If resource unavailable".  A timed wait that has timed
  out lowers the count until its process runs, so a post in between wakes nobody and a
  later wait blocks although the post is there (`TimedLosesNoPost`).
* `tcp.c:102` says of a closed connection "The pcb is then automatically freed in
  tcp_slowtmr()".  When everything is acknowledged after a retransmission has set
  `snd_nxt` back, the test in FIN_WAIT_1 (`tcp_in.c:657`) fails for good and no timer
  looks at the block (`ClosedIsFreed`).
* `ip_frag.c:552` hands a datagram on when "all fragments are received".  A fragment
  put between two others is not compared with the one before it, so a datagram with a
  gap is taken for complete (`ReassembledWhole`).

**Stated as the code has it.** A segment that is chained loses the increment of its
last clock (`IncrementCount`).  A move of less than 4 ms runs for 2^32 acceleration
steps (`SegmentLength` with a limit of 0).  A recalled line that is shortened and
entered replaces the original (`HistoryKept`).  `bootelf` does not look at byte counts,
so that a whole program is promised only for files that are whole (`BootsProgram`).
A thread created joinable and detached later keeps its context when it ends
(`sys_pthread_detach`).  `ip_reass_remove_oldest_datagram` can tear its list when it
removes another than the first (`reass.torn`).  `etharp` with no flags still makes an
entry.  The comments beside the actions name more of these.

## 4. Proofs

Each of the eight proof modules extends the module it is about.  The assumptions on
the constants are named in the components and hold of the runs' values, which TLC
evaluates.

**`CommandPathProofs`**, from `H \in Nat \ {0}` and `BusWrites \subseteq BusWrite`:

* `HwTypeCorrect`: `HwSpec => []HwTypeOK`.  Inductive as it stands.
* `SegmentTiming`: `HwSpec => [](SegmentLength /\ IncrementCount)`.  Neither is
  inductive, since they say nothing about the two counters.  `TimerInv` does: while a
  segment runs, `steps` and `dt` are the digits of `elapsed` in base
  `Span(dt_limit)`, below their limits, and `applied = steps`.  `LastDigits` and
  `Strobes` turn the comparisons of the code, `limit - 1` with its wrap included, into
  statements about the last digit.
* `SegmentUninterrupted`: `HwSpec => RunsToTheEnd`, an action property, from the same
  invariant: `done` is low before the last clock, hence `load` is.
* `TrajectoryExact`: `HwSpec => []Trajectory`.  One increment adds `applied` to the
  triangular number (`Triangle`), and `WrapSum` carries it through the wrap.

**`StepPathProofs`**, for velocities of at most a step a clock and shaper points that
raise the step line at all (`StepAssumption`):

* `StrobesExact`, `ShaftExact`, `MissedExact` (invariants), `PulseTimed` (an action
  property), and the types.  `StepInv` adds to the three counts what the shaper's
  counter says about the lines (`ShaperInv`): which phase a pulse is in, hence whether
  the edge that turns the shaft is still to come.  The position wraps; that its
  quotient by the step weight moves by one exactly when bit `STEP_BIT` changes is the
  lemma the strobes rest on, with `Division` and `Multiple` below it.

**`SteppersProofs`** (on `CommandPathProofs`), from `DriverAssumption`:

* `IdleIsRest`, `CommandsUntorn`, `CommandsConfigured`, the types, `QueueServed` (every
  step of driver and core is a step of `MotionQueue` or leaves it alone: the safety half
  of `ServesQueue`), and `CoreUnderDriver` (the core's own theorems hold under this
  driver, whose writes are among those they allow).
* `DriveInv` says, at each bus access of each routine, what is in the registers written
  so far (`Written`), which bits the command register holds and that the value read for
  a read-modify-write is still current (`CommandInv`), whether a move is on its way, and
  what the driver's state implies for the core (`DriverInv`).  The lemmas at the end of
  `CommandPathProofs` say what the routines are like whatever their values: a register is
  written at most once, the command is read directly before a bit of it is set, START is
  set last.  `SteppersProofs` then has one lemma per action.

**`MmcProofs`**, from `MmcAssumption`:

* `SuccessIsReady` and `ReadsAreGenuine`.  `MmcInv` describes the wire at each point of
  the driver: no data before a read command is accepted, a token followed by the data of
  the block asked for and by nothing else, and the answer before the token.
  `FieldIsBlock` is the address arithmetic of `mmc_read_block`.

**`CmdlineProofs`, `EditorProofs`**, from `CmdlineAssumption`:

* `ArraysRespected`, `ScreenTrue`, `ArgumentsSurvive` from `LineInv`: terminal, buffer,
  length and cursor agree (`Shown`); a line not marked as a copy is the recalled one or
  a shortened form of it, so that the length of what replaces it is known (`Recalled`);
  and a command that is due has its line in the buffer (`Due`).  The loops that shift
  and repaint are stated slot by slot; the end of a string and of a command's name are
  least elements of sets (`MinIs`, from the well-foundedness of `<`).
* `LineEdited`: every step is a step of `LineEditor` or leaves it alone (the safety half
  of `EditsLikeLineEditor`).  `HistoryForgetsRightly` is the action property
  `HistoryKept`.

**`NetProofs`**, from `DhcpAssumption` (periods and widths are positive, the lease times
servers send are numbers) and `OeAssumption` (the numbers of retries are positive):

* `DhcpCorrect`: `DhcpSpec => [](DhcpTypeOK /\ DhcpTrue)`, for every set of addresses and of
  options, with messages that come in any order and memory that fails at any request.
  `DhcpTrue` is not inductive: that an address in use was never claimed follows only from what
  held while it was checked.  `LeaseEarned`, which the run `net` checks too, says that nobody
  has answered for an address under check or leased since, and that a client that is bound did
  not keep an address of an earlier start.
* `SessionsCorrect`: `OeSpec => [](OeTypeOK /\ SessionsTrue)`.  A session gives up only
  through its timer, so its count of requests must stay below the limit while it waits
  (`RequestsLeft`, checked by the run `ppp`); and every callback but a failed start leaves an
  open descriptor its session.

**`LinkProofs`**, from `LinkAssumption`:

* `LinkCorrect`: `LinkSpec => [](LinkTypeOK /\ NetAuthenticated /\ OffIsQuiet)`.  The first half
  is about the automaton `PppFsm` with IPCP's callbacks: one lemma per handler says what it does
  to the state and to the interface, whatever its counters are (`AutoOK`).  The second half is
  about the link: the proofs asked for in this session are awaited or given, and none is awaited
  in the network phase (`Agreed`, checked by the run `ppp`); without it a success that arrives
  late could not be told from the last one missing.  Late callouts of PAP, CHAP and IPCP, which
  `UNTIMEOUT` did not remove, are among the steps.

**Only model-checked.** Liveness: `CoastingEnds`, the liveness halves of `ServesQueue`
and `EditsLikeLineEditor`, `RoutineReturns`, `ReadyRuns`, `WaitsEnd` (the prover has no
fairness or ENABLED).  `ArgumentsOfLine` in part: that `cmdlineGetArgStr` finds the
n-th word is induction over a line.  The kernel, FatFs, ARP, TCP, IP, memory and SNMP
modules, which follow the code's loops with recursive operators, and the framing of PPP,
which computes its check sequence with bit operations; neither is open to the prover.
That two LCP or IPCP ends agree (`LinkAgreed`, `AddressesAgreed`) depends on the number of
times they are opened and on the identifiers in use; a proof would need the contents of every
packet on the line.  It and the header compression (`HeadersTrue`) are checked by TLC only.

## 5. Not modelled

* The bus wrapper `motion.vhd`, generated round library cores: one access is one step,
  a soft reset (held for four clocks) is one reset.
* `MOTION_SetX` and the interrupt routines: nobody calls them.  `StepPath` takes loads
  of `x` all the same.  The coefficients of a move (`unqueue_move`, doubles).
* `wr` from the console can write the core behind the driver's back; the models take it
  not to.
* The SPI driver and the UART core: vendor code.  A transfer is synchronous, as the
  polled mode that `mmc_if_init` sets up makes it; characters arrive or do not.
* xilkernel's shared memory, attribute objects, statistics and ELF launcher.  Programs
  keep to what the kernel can do; `KernelThreads` and `KernelMsg` name what they avoid.
* lwIP's sockets and sequential interface, its resolver, IGMP and AutoIP.  IP
  forwarding; urgent data, checksums and the numbers of congestion control; the layout of
  SNMP responses; CHAP rechallenges and the idle timers of PPP; digests.
* Display, character tables, memory tests and the peripheral wizard's templates.
