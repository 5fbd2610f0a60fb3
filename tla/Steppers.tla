------------------------------ MODULE Steppers ------------------------------
(***************************************************************************)
(* The motion system: the stepper driver of the boot loader (steppers.c    *)
(* and motion.c, called from the main loop of main.c) on top of the motion *)
(* core (module CommandPath).                                              *)
(*                                                                         *)
(* The main loop is one thread.  It takes at most one console command,     *)
(* then makes one pass of steppersMainLoop, for ever.  The core's clock    *)
(* ticks between, and during, any two bus accesses of that thread.  A      *)
(* driver routine is the sequence of its bus accesses: a write falls on a  *)
(* clock edge, a read sees the registers as they are at that moment.       *)
(*                                                                         *)
(* The coefficients of a move come from floating-point arithmetic on the   *)
(* target and are left arbitrary.  The console's status and rd only read   *)
(* and are left out; wr, which writes any address, is taken not to be      *)
(* pointed at the core.                                                    *)
(***************************************************************************)
EXTENDS CommandPath, Sequences

CONSTANTS
  Targets,          \* [x, v, dt]: where, how fast, in how many milliseconds
  Coefs,            \* the values of the acceleration and of the jerk of a move
  STEP_FREQ, ACC_FREQ, QUEUE_LEN, STEP_BIT,
  PRE_N, PULSE_N, POST_N

ASSUME DriverAssumption ==
  /\ \A t \in Targets : t.dt \in Int /\ t.v \in Int
  /\ Coefs \subseteq SWord
  /\ STEP_FREQ \in Nat /\ ACC_FREQ \in Nat \ {0} /\ QUEUE_LEN \in Nat \ {0}
  /\ STEP_FREQ \div ACC_FREQ \in Word /\ ACC_FREQ \div 10 \in Word
  /\ {PRE_N, PULSE_N, POST_N, H + STEP_BIT} \subseteq Word

VARIABLES
  state,            \* OFF, IDLE, ACTIVE or STOPPING
  queue,            \* targets waiting in the driver
  cur_v,            \* velocity of current_position
  loc,              \* where the thread is
  prog, pc,         \* the driver routine under way and its next bus access
  tmp,              \* the command register as the routine last read it
  then,             \* state and cur_v once the routine returns
  flight,           \* history: target taken off the queue and not yet loaded
  running           \* history: target whose segment the timer runs

swVars == <<state, queue, cur_v, loc, prog, pc, tmp, then>>
vars == <<hwVars, swVars, flight, running>>
-----------------------------------------------------------------------------
\* The driver's routines, as bus accesses.
WriteOp(r, x) == [do |-> "write", reg |-> r, val |-> x, bit |-> "START"]
ReadCmd == [do |-> "read", reg |-> "CMD", val |-> 0, bit |-> "START"]
OrCmd(b) == [do |-> "or", reg |-> "CMD", val |-> 0, bit |-> b]

MOTION_Start == <<ReadCmd, OrCmd("START")>>
MOTION_SetDT(n) == <<WriteOp("NEXT_DT", n)>>
MOTION_SetSteps(n) == <<WriteOp("NEXT_STEPS", n)>>
MOTION_SetV(n) == <<WriteOp("NEXT_V", Unsigned(n)), ReadCmd, OrCmd("SET_V")>>
MOTION_SetA(n) == <<WriteOp("NEXT_A", Unsigned(n)), ReadCmd, OrCmd("SET_A")>>
MOTION_SetJ(n) == <<WriteOp("NEXT_J", Unsigned(n)), ReadCmd, OrCmd("SET_J")>>

\* A slip that forgets the length of an acceleration step.
InitProgMutant ==
  <<WriteOp("PRE_N", PRE_N), WriteOp("PULSE_N", PULSE_N),
    WriteOp("POST_N", POST_N), WriteOp("STEP_BIT", H + STEP_BIT)>>

InitProg ==
  <<WriteOp("PRE_N", PRE_N), WriteOp("PULSE_N", PULSE_N),
    WriteOp("POST_N", POST_N), WriteOp("STEP_BIT", H + STEP_BIT)>>
  \o MOTION_SetDT(STEP_FREQ \div ACC_FREQ)

\* A slip that starts the move before its jerk is in place.
MoveProgMutant(n, ca, cj) ==
  MOTION_SetSteps(n) \o MOTION_SetA(ca) \o MOTION_Start \o MOTION_SetJ(cj)

MoveProg(n, ca, cj) ==
  MOTION_SetSteps(n) \o MOTION_SetA(ca) \o MOTION_SetJ(cj) \o MOTION_Start

\* A slip that leaves the velocity of the last move in place.
StopProgMutant ==
  MOTION_SetSteps(ACC_FREQ \div 10) \o MOTION_SetA(0) \o MOTION_SetJ(0)
  \o MOTION_Start

StopProg ==
  MOTION_SetSteps(ACC_FREQ \div 10) \o MOTION_SetV(0) \o MOTION_SetA(0)
  \o MOTION_SetJ(0) \o MOTION_Start

\* The acceleration steps of a move of ms milliseconds: a truncated product
\* of doubles, which may fall just short of a whole number.  The conversion
\* of a negative product to uint32_t is undefined.
AccSteps(ms) ==
  LET n == (ms * ACC_FREQ) \div 1000
      exact == (ms * ACC_FREQ) % 1000 = 0
  IN IF ms < 0 THEN Word
     ELSE {n % M} \cup (IF exact /\ n > 0 THEN {(n - 1) % M} ELSE {})

Ops == [do : {"write", "read", "or"}, reg : Regs \cup {"CMD"}, val : Word,
        bit : CmdBits]

States == {"OFF", "IDLE", "ACTIVE", "STOPPING"}
-----------------------------------------------------------------------------
Init ==
  /\ HwInit
  /\ state = "OFF" /\ queue = <<>> /\ cur_v = 0
  /\ loc = "input" /\ prog = <<>> /\ pc = 1 /\ tmp = {}
  /\ then = [state |-> "OFF", v |-> 0]
  /\ flight = <<>> /\ running = <<>>

\* Which target the timer executes, as the clock moves on.
Track ==
  /\ running' = IF load THEN flight ELSE IF stopped' THEN <<>> ELSE running
  /\ flight' = IF load THEN <<>> ELSE flight

Clock(wr) == HwClock(wr) /\ Track

Tick == Clock(NoWrite) /\ UNCHANGED swVars

\* One bus access of the routine under way, and its return.
Access(do) == loc = "run" /\ pc <= Len(prog) /\ prog[pc].do = do /\ pc' = pc + 1

DoWrite ==
  /\ Access("write")
  /\ Clock(Wr(prog[pc].reg, prog[pc].val))
  /\ UNCHANGED <<state, queue, cur_v, loc, prog, tmp, then>>

DoRead ==
  /\ Access("read")
  /\ tmp' = CMD
  /\ UNCHANGED <<hwVars, state, queue, cur_v, loc, prog, then, flight, running>>

DoOr ==
  /\ Access("or")
  /\ Clock(WrCmd(tmp \cup {prog[pc].bit}))
  /\ UNCHANGED <<state, queue, cur_v, loc, prog, tmp, then>>

Return ==
  /\ loc = "run" /\ pc > Len(prog)
  /\ state' = then.state /\ cur_v' = then.v
  /\ loc' = "input"
  /\ UNCHANGED <<hwVars, queue, prog, pc, tmp, then, flight, running>>

Call(routine, nextState, nextV) ==
  /\ prog' = routine /\ pc' = 1 /\ tmp' = {}
  /\ then' = [state |-> nextState, v |-> nextV]
  /\ loc' = "run"
  /\ UNCHANGED <<hwVars, state, cur_v, running>>

unqueue_move ==
  /\ queue # <<>>
  /\ \E n \in AccSteps(Head(queue).dt), ca \in Coefs, cj \in Coefs :
       Call(MoveProg(n, ca, cj), "ACTIVE", Head(queue).v)
  /\ flight' = <<Head(queue)>>
  /\ queue' = Tail(queue)

unqueue_stop == Call(StopProg, "STOPPING", 0) /\ UNCHANGED <<queue, flight>>

\* The main loop takes a console command, or finds none complete.
Go(l) == loc' = l /\ UNCHANGED <<hwVars, prog, pc, tmp, then, running, flight>>

NoInput == loc = "input" /\ Go("poll") /\ UNCHANGED <<state, queue, cur_v>>

do_start(t) ==
  /\ loc = "input" /\ Go("poll")
  /\ queue' = IF Len(queue) >= QUEUE_LEN THEN queue ELSE Append(queue, t)
  /\ UNCHANGED <<state, cur_v>>

do_reset ==
  /\ loc = "input"
  /\ queue' = <<>> /\ state' = "OFF" /\ cur_v' = 0
  /\ HwReset
  /\ flight' = <<>> /\ running' = <<>>
  /\ loc' = "poll"
  /\ UNCHANGED <<prog, pc, tmp, then>>

\* One pass of steppersMainLoop.
PollOff ==
  /\ loc = "poll" /\ state = "OFF"
  /\ IF queue = <<>> THEN Go("input") /\ UNCHANGED <<state, queue, cur_v>>
     ELSE Call(InitProg, "IDLE", 0) /\ UNCHANGED <<queue, flight>>

PollIdle ==
  /\ loc = "poll" /\ state = "IDLE"
  /\ \/ unqueue_move
     \/ queue = <<>> /\ Go("input") /\ UNCHANGED <<state, queue, cur_v>>

\* A slip that hands over the next move without looking at the command.
PollCmdMutant ==
  /\ loc = "poll" /\ state \in {"ACTIVE", "STOPPING"}
  /\ \/ state = "ACTIVE" /\ unqueue_move
     \/ /\ "START" \in CMD /\ (state = "STOPPING" \/ queue = <<>>)
        /\ Go("input") /\ UNCHANGED <<state, queue, cur_v>>
     \/ /\ "START" \notin CMD /\ (state = "STOPPING" \/ queue = <<>>)
        /\ Go("status") /\ UNCHANGED <<state, queue, cur_v>>

PollCmd ==
  /\ loc = "poll" /\ state \in {"ACTIVE", "STOPPING"}
  /\ \/ "START" \in CMD /\ Go("input") /\ UNCHANGED <<state, queue, cur_v>>
     \/ "START" \notin CMD /\ state = "ACTIVE" /\ unqueue_move
     \/ /\ "START" \notin CMD /\ (state = "STOPPING" \/ queue = <<>>)
        /\ Go("status") /\ UNCHANGED <<state, queue, cur_v>>

\* A slip that takes an accepted stop for a finished one.
PollStatusMutant ==
  /\ loc = "status"
  /\ \/ STATUS /\ state = "ACTIVE" /\ unqueue_stop
     \/ /\ state = "STOPPING"
        /\ state' = "IDLE" /\ Go("input") /\ UNCHANGED <<queue, cur_v>>
     \/ /\ ~STATUS /\ state = "ACTIVE"
        /\ Go("input") /\ UNCHANGED <<state, queue, cur_v>>

PollStatus ==
  /\ loc = "status"
  /\ \/ ~STATUS /\ Go("input") /\ UNCHANGED <<state, queue, cur_v>>
     \/ STATUS /\ state = "ACTIVE" /\ unqueue_stop
     \/ /\ STATUS /\ state = "STOPPING"
        /\ state' = "IDLE" /\ Go("input") /\ UNCHANGED <<queue, cur_v>>

Software ==
  \/ DoWrite \/ DoRead \/ DoOr \/ Return
  \/ NoInput \/ (\E t \in Targets : do_start(t)) \/ do_reset
  \/ PollOff \/ PollIdle \/ PollCmd \/ PollStatus

Next == Tick \/ Software

\* The clock never stops and the main loop never blocks.
Spec == Init /\ [][Next]_vars /\ WF_vars(Tick) /\ WF_vars(Software)
-----------------------------------------------------------------------------
(***************************************************************************)
(* Properties.                                                             *)
(***************************************************************************)
TypeOK ==
  /\ HwTypeOK
  /\ state \in States /\ queue \in Seq(Targets) /\ Len(queue) <= QUEUE_LEN
  /\ loc \in {"input", "poll", "status", "run"}
  /\ prog \in Seq(Ops) /\ pc \in 1 .. Len(prog) + 1
  /\ tmp \in SUBSET CmdBits
  /\ cur_v \in Int /\ then.state \in States /\ then.v \in Int
  /\ flight \in Seq(Targets) /\ Len(flight) <= 1
  /\ running \in Seq(Targets) /\ Len(running) <= 1

(* Between two routines, a driver that believes the axis idle (STATE_IDLE) *)
(* or not started (STATE_OFF) is right: no segment runs, none is pending,  *)
(* and v, a and j are 0, so that x stands still.  The velocity the next    *)
(* move is planned from is 0 as well.                                      *)
IdleAtRest ==
  (loc # "run" /\ state \in {"OFF", "IDLE"}) =>
    /\ stopped /\ reg_cmd = {}
    /\ v = 0 /\ a = 0 /\ j = 0
    /\ cur_v = 0

OpsBits(p) == {p[i].bit : i \in {k \in DOMAIN p : p[k].do = "or"}}

(* A command is loaded whole: when the core takes it, every register the   *)
(* routine writes holds the routine's value, and the set bits are those of *)
(* the routine and no others.  The clock that loads can be any clock after *)
(* the START bit is written, in the middle of later bus traffic.           *)
LoadUntorn ==
  load => /\ reg_cmd = OpsBits(prog)
          /\ \A i \in DOMAIN prog :
               prog[i].do = "write" => reg[prog[i].reg] = prog[i].val

(* Whatever is loaded runs at the configured rate and with the configured  *)
(* pulse shape, also after a reset has zeroed the registers.               *)
LoadConfigured ==
  load => /\ reg["NEXT_DT"] = STEP_FREQ \div ACC_FREQ
          /\ reg["PRE_N"] = PRE_N /\ reg["PULSE_N"] = PULSE_N
          /\ reg["POST_N"] = POST_N /\ reg["STEP_BIT"] = H + STEP_BIT

(* The system keeps the promise of MotionQueue: a target waits in the      *)
(* driver's queue or on its way to the core, runs while the timer runs its *)
(* segment, and neither a full queue, the race of the driver with the      *)
(* core's clearing of the command, nor a reset loses, repeats or reorders  *)
(* one.  The move on its way counts as waiting: one more than QUEUE_LEN.   *)
Promise == INSTANCE MotionQueue
             WITH Capacity <- QUEUE_LEN + 1, pending <- flight \o queue

ServesQueue == Promise!QueueSpec

(* An axis whose queue ran dry does not coast for ever: once the timer is  *)
(* stopped with a velocity left, the driver stops the axis or hands it the *)
(* next move.                                                              *)
CoastingEnds == (stopped /\ v # 0) ~> (~stopped \/ v = 0)
=============================================================================
