--------------------------- MODULE SteppersProofs ---------------------------
(***************************************************************************)
(* What the stepper driver and the motion core guarantee together, for     *)
(* every word width, every set of targets and coefficients, and every      *)
(* queue length.  First DriveInv holds from reset on: one lemma per step   *)
(* of a routine and per action of Steppers.  Then what follows: each is    *)
(* right about the other, a command reaches the core whole, the two do     *)
(* what MotionQueue promises, and the core keeps its own promises under    *)
(* this driver.                                                            *)
(***************************************************************************)
EXTENDS CommandPathProofs

(* A register write of a routine.                                          *)
LEMMA WriteKept ==
  ASSUME DriveInv, DoWrite
  PROVE  DriveInv'
<1> DEFINE wr == Wr(prog[pc].reg, prog[pc].val)
<1>0. /\ TypeOK /\ DriverInv /\ Clock(wr) /\ HwClock(wr)
      /\ loc = "run" /\ pc <= Len(prog) /\ prog[pc].do = "write" /\ pc' = pc + 1
      /\ UNCHANGED <<state, queue, cur_v, loc, prog, tmp, then>>
  BY DEF DriveInv, DoWrite, Access, Clock
<1>t. /\ Len(prog) \in Nat /\ pc \in 1 .. Len(prog) /\ pc \in Nat
      /\ pc' \in 1 .. Len(prog) + 1
  BY <1>0, SeqLen DEF TypeOK
<1>r. /\ prog[pc].reg \in Regs
      /\ \A i \in 1 .. pc - 1 : prog[i].do = "write" => prog[i].reg # prog[pc].reg
      /\ Handing =>
           /\ prog[pc].reg \in {"NEXT_STEPS", "NEXT_V", "NEXT_A", "NEXT_J"}
           /\ pc + 1 <= Len(prog) /\ prog[pc + 1].do # "or"
  BY <1>0, RunWrites
<1>w. /\ wr \in BusWrite /\ wr.reg = prog[pc].reg /\ wr.val = prog[pc].val
      /\ wr.reg # "CMD"
  BY <1>0, <1>t, <1>r, DriverWrites, Zenon DEF Wr, Regs
<1> HIDE DEF wr
<1>1. TypeOK'
  BY <1>0, <1>t, <1>w, ClockTyped DEF TypeOK
<1>2. /\ \A r \in Regs : r # prog[pc].reg => reg'[r] = reg[r]
      /\ reg'[prog[pc].reg] = prog[pc].val
  BY <1>0, <1>r, <1>w, RegistersKept
<1>3. Written(prog, pc)
  BY <1>0 DEF DriverInv, Busy
<1>4. Written(prog, pc)'
  <2> SUFFICES ASSUME NEW i \in 1 .. pc, i <= Len(prog), prog[i].do = "write"
               PROVE  reg'[prog[i].reg] = prog[i].val
    BY <1>0, <1>t DEF Written
  <2>1. CASE i = pc
    BY <1>2, <2>1
  <2>2. CASE i # pc
    <3>1. i \in 1 .. pc - 1
      BY <1>t, <2>2
    <3>2. prog[i].reg # prog[pc].reg /\ reg[prog[i].reg] = prog[i].val
      BY <1>r, <1>3, <3>1 DEF Written
    <3>3. prog[i].reg \in Regs
      <4>1. CASE Handing
        <5>1. Commanding(prog) /\ i \in 1 .. Len(prog)
          BY <1>t, <4>1, Kinds DEF Handing
        <5> QED BY <5>1 DEF Commanding, Regs
      <4>2. CASE prog = InitProg
        <5>1. /\ prog[1] = WriteOp("PRE_N", PRE_N) /\ prog[2] = WriteOp("PULSE_N", PULSE_N)
              /\ prog[3] = WriteOp("POST_N", POST_N)
              /\ prog[4] = WriteOp("STEP_BIT", H + STEP_BIT)
              /\ prog[5] = WriteOp("NEXT_DT", STEP_FREQ \div ACC_FREQ)
              /\ Len(prog) = 5
          BY <4>2, InitAccesses
        <5>2. i \in {1, 2, 3, 4, 5}
          BY <1>t, <5>1
        <5> QED BY <5>1, <5>2 DEF WriteOp, Regs
      <4> QED BY <1>0, <4>1, <4>2 DEF DriverInv, Busy
    <3> QED BY <1>2, <3>2, <3>3
  <2> QED BY <2>1, <2>2
<1>5. AtRest => AtRest'
  BY <1>0, <1>w, RestKept
<1>6. Handing => (Configured => Configured')
  BY <1>r, <1>2 DEF Configured, Regs
<1>7. ASSUME Handing
      PROVE  CommandInv' /\ flight' = flight
  <2>0. Commanding(prog) /\ CommandInv
    BY <1>0, <1>7 DEF DriverInv, Busy
  <2>1. /\ "START" \notin BitsBefore(prog, pc)
        /\ BitsBefore(prog, pc + 1) = BitsBefore(prog, pc)
    BY <1>0, <1>t, <2>0, BitsOf
  <2>2. ~load
    BY <1>0, <2>0, <2>1 DEF CommandInv, load
  <2>3. reg_cmd' = reg_cmd /\ flight' = flight
    BY <1>0, <1>w, <2>2, CommandKept
  <2>4. pc' <= Len(prog) /\ prog[pc'].do # "or"
    BY <1>0, <1>7, <1>r
  <2>5. ~(pc' > Len(prog))
    BY <1>t, <2>4
  <2> QED
    BY <1>0, <2>0, <2>1, <2>3, <2>4, <2>5 DEF CommandInv
<1>8. Handing => pc' <= Len(prog) /\ ~(pc' > Len(prog))
  BY <1>0, <1>r, <1>t
<1>9. Busy /\ Busy' /\ Handing' = Handing
  BY <1>0 DEF Busy, Handing
<1>10. ~(state = "IDLE" /\ prog = InitProg) /\ (Handing \/ prog = InitProg)
  BY <1>0, <1>9 DEF DriverInv
<1>11. DriverInv'
  BY <1>0, <1>4, <1>5, <1>6, <1>7, <1>8, <1>9, <1>10, <1>t DEF DriverInv
<1> QED
  BY <1>1, <1>11 DEF DriveInv

(* A read of the command register by a routine.                            *)
LEMMA ReadCmdKept ==
  ASSUME DriveInv, DoRead
  PROVE  DriveInv'
<1>0. /\ TypeOK /\ DriverInv
      /\ loc = "run" /\ pc <= Len(prog) /\ prog[pc].do = "read" /\ pc' = pc + 1
      /\ tmp' = reg_cmd
      /\ UNCHANGED <<hwVars, state, queue, cur_v, loc, prog, then, flight, running>>
  BY DEF DriveInv, DoRead, Access, CMD
<1>h. UNCHANGED <<reg, reg_cmd, stopped, v, a, j>>
  BY <1>0 DEF hwVars, timerVars, profileVars
<1>t. /\ Len(prog) \in Nat /\ pc \in 1 .. Len(prog) /\ pc \in Nat
      /\ pc' \in 1 .. Len(prog) + 1
  BY <1>0, SeqLen DEF TypeOK
<1>1. TypeOK'
  <2>1. HwTypeOK'
    BY <1>0 DEF TypeOK, HwTypeOK, hwVars, timerVars, profileVars, TimerTypeOK,
         ProfileTypeOK
  <2>2. tmp' \in SUBSET CmdBits
    BY <1>0 DEF TypeOK, HwTypeOK
  <2> QED
    BY <1>0, <1>t, <2>1, <2>2 DEF TypeOK
<1>2. prog # InitProg
  <2>1. prog = InitProg => prog[pc].do = "write"
    BY <1>t, InitWrites, Zenon
  <2> QED BY <1>0, <2>1
<1>3. Handing /\ Commanding(prog) /\ CommandInv /\ Written(prog, pc) /\ Busy
  BY <1>0, <1>2 DEF DriverInv, Busy
<1>4. pc # Len(prog)
  BY <1>0, <1>3 DEF Commanding
<1>5. pc' <= Len(prog) /\ ~(pc' > Len(prog))
  BY <1>0, <1>4, <1>t
<1>6. BitsBefore(prog, pc + 1) = BitsBefore(prog, pc)
  BY <1>0, <1>3, <1>t, BitsOf
<1>7. CommandInv'
  BY <1>0, <1>h, <1>3, <1>5, <1>6 DEF CommandInv
<1>8. Written(prog, pc)'
  <2>1. \A i \in 1 .. pc : i \in 1 .. pc - 1 \/ i = pc
    BY <1>t
  <2>2. (pc + 1) - 1 = pc
    BY <1>t
  <2> QED
    BY <1>0, <1>h, <1>3, <2>1, <2>2 DEF Written
<1>9. Busy' /\ Handing'
  BY <1>0, <1>3 DEF Busy, Handing
<1>10. Configured => Configured'
  BY <1>h DEF Configured
<1>11. DriverInv'
  BY <1>0, <1>2, <1>3, <1>5, <1>7, <1>8, <1>9, <1>10 DEF DriverInv
<1> QED
  BY <1>1, <1>11 DEF DriveInv

(* A command write of a routine: it adds one bit to those set so far, since *)
(* no bit can have changed since the read before it.                       *)
LEMMA OrKept ==
  ASSUME DriveInv, DoOr
  PROVE  DriveInv'
<1> DEFINE wr == WrCmd(tmp \cup {prog[pc].bit})
<1>0. /\ TypeOK /\ DriverInv /\ Clock(wr) /\ HwClock(wr)
      /\ loc = "run" /\ pc <= Len(prog) /\ prog[pc].do = "or" /\ pc' = pc + 1
      /\ UNCHANGED <<state, queue, cur_v, loc, prog, tmp, then>>
  BY DEF DriveInv, DoOr, Access, Clock
<1>t. /\ Len(prog) \in Nat /\ pc \in 1 .. Len(prog) /\ pc \in Nat
      /\ pc' \in 1 .. Len(prog) + 1 /\ (pc + 1) - 1 = pc
  BY <1>0, SeqLen DEF TypeOK
<1>w. /\ wr \in BusWrite /\ wr.reg = "CMD" /\ wr.bits = tmp \cup {prog[pc].bit}
      /\ wr.reg \notin Regs
  BY <1>0, <1>t, DriverWrites, Zenon DEF WrCmd, Regs
<1> HIDE DEF wr
<1>1. TypeOK'
  BY <1>0, <1>t, <1>w, ClockTyped DEF TypeOK
<1>2. prog # InitProg
  <2>1. prog = InitProg => prog[pc].do = "write"
    BY <1>t, InitWrites, Zenon
  <2> QED BY <1>0, <2>1
<1>3. Handing /\ Commanding(prog) /\ CommandInv /\ Written(prog, pc) /\ Busy
  BY <1>0, <1>2 DEF DriverInv, Busy
<1>4. /\ "START" \notin BitsBefore(prog, pc)
      /\ BitsBefore(prog, pc + 1) = BitsBefore(prog, pc) \cup {prog[pc].bit}
  BY <1>0, <1>3, <1>t, BitsOf
<1>5. ~load
  BY <1>0, <1>3, <1>4 DEF CommandInv, load
<1>6. reg_cmd' = tmp \cup {prog[pc].bit} /\ flight' = flight
  BY <1>0, <1>w, <1>5, CommandKept
<1>7. reg' = reg
  BY <1>0, <1>w, RegistersKept
<1>8. reg_cmd' = BitsBefore(prog, pc + 1)
  BY <1>0, <1>3, <1>4, <1>6 DEF CommandInv
<1>9. pc + 1 <= Len(prog) => prog[pc + 1].do # "or"
  <2>1. pc + 1 <= Len(prog) => pc + 1 \in 1 .. Len(prog)
    BY <1>t
  <2> QED
    BY <1>0, <1>3, <1>t, <2>1 DEF Commanding
<1>10. CommandInv'
  BY <1>0, <1>8, <1>9 DEF CommandInv
<1>11. Written(prog, pc)'
  <2>1. \A i \in 1 .. pc : i \in 1 .. pc - 1 \/ i = pc
    BY <1>t
  <2> QED
    BY <1>0, <1>7, <1>3, <1>t, <2>1 DEF Written
<1>12. Busy' /\ Handing'
  BY <1>0, <1>3 DEF Busy, Handing
<1>13. Configured => Configured'
  BY <1>7 DEF Configured
<1>14. reg_cmd' # {}
  BY <1>6
<1>15. DriverInv'
  BY <1>0, <1>2, <1>3, <1>6, <1>10, <1>11, <1>12, <1>13, <1>14 DEF DriverInv
<1> QED
  BY <1>1, <1>15 DEF DriveInv

(* The return of a routine.                                                *)
LEMMA ReturnKept ==
  ASSUME DriveInv, Return
  PROVE  DriveInv'
<1>0. /\ TypeOK /\ DriverInv
      /\ loc = "run" /\ pc > Len(prog) /\ loc' = "input"
      /\ state' = then.state /\ cur_v' = then.v
      /\ UNCHANGED <<hwVars, queue, prog, pc, tmp, then, flight, running>>
  BY DEF DriveInv, Return
<1>h. UNCHANGED <<reg, reg_cmd, stopped, v, a, j>>
  BY <1>0 DEF hwVars, timerVars, profileVars
<1>t. Len(prog) \in Nat /\ pc = Len(prog) + 1 /\ pc \in Nat
  <2>1. Len(prog) \in Nat /\ pc \in 1 .. Len(prog) + 1
    BY <1>0, SeqLen DEF TypeOK
  <2> QED BY <1>0, <2>1
<1>1. TypeOK'
  <2>1. HwTypeOK'
    BY <1>0 DEF TypeOK, HwTypeOK, hwVars, timerVars, profileVars, TimerTypeOK,
         ProfileTypeOK
  <2> QED
    BY <1>0, <2>1 DEF TypeOK
<1>2. Busy
  BY <1>0 DEF Busy
<1>3. /\ Configured' = Configured /\ AtRest' = AtRest /\ Standing' = Standing
      /\ Written(prog, pc)' = Written(prog, pc) /\ CommandInv = CommandInv'
      /\ Handing' = Handing
  BY <1>0, <1>h DEF Configured, AtRest, Standing, Written, CommandInv, Handing,
       BitsBefore
<1>4. CASE prog = InitProg
  <2>1. then = [state |-> "IDLE", v |-> 0] /\ AtRest /\ Written(prog, pc)
    BY <1>0, <1>2, <1>4 DEF DriverInv
  <2>2. Configured
    BY <1>4, <1>t, <2>1, InitWrites
  <2>3. state' = "IDLE" /\ cur_v' = 0 /\ ~Busy'
    BY <1>0, <2>1 DEF Busy
  <2>4. DriverInv'
    BY <1>0, <1>3, <2>1, <2>2, <2>3 DEF DriverInv
  <2> QED BY <1>1, <2>4 DEF DriveInv
<1>5. CASE prog = StopProg
  <2>1. then = [state |-> "STOPPING", v |-> 0]
    BY <1>0, <1>5 DEF DriverInv
  <2>2. state' = "STOPPING" /\ cur_v' = 0 /\ Busy' /\ prog # InitProg /\ Handing
    BY <1>0, <1>5, <2>1, Kinds DEF Busy, Handing
  <2>3. DriverInv'
    BY <1>0, <1>2, <1>3, <1>5, <1>t, <1>h, <2>2 DEF DriverInv
  <2> QED BY <1>1, <2>3 DEF DriveInv
<1>6. CASE prog \in Moves
  <2>1. then.state = "ACTIVE"
    BY <1>0, <1>6 DEF DriverInv
  <2>2. state' = "ACTIVE" /\ Busy' /\ prog # InitProg /\ Handing
    BY <1>0, <1>6, <2>1, Kinds DEF Busy, Handing
  <2>3. DriverInv'
    BY <1>0, <1>2, <1>3, <1>6, <1>t, <1>h, <2>2 DEF DriverInv
  <2> QED BY <1>1, <2>3 DEF DriveInv
<1> QED
  BY <1>0, <1>2, <1>4, <1>5, <1>6 DEF DriverInv, Handing

(* The length of a move is a word, whichever way the product is truncated. *)
LEMMA StepsAreWords ==
  ASSUME NEW ms \in Int
  PROVE  AccSteps(ms) \subseteq Word
<1>1. M \in Nat \ {0} /\ ACC_FREQ \in Int
  BY HAssumption, DriverAssumption DEF M
<1> DEFINE n == (ms * ACC_FREQ) \div 1000
<1>2. n \in Int /\ n - 1 \in Int
  BY <1>1, DivMod
<1> HIDE DEF n
<1>3. n % M \in Word /\ (n - 1) % M \in Word
  BY <1>1, <1>2, DivMod DEF Word
<1> QED
  BY <1>3 DEF AccSteps, n

(* A call of a routine keeps the types.                                    *)
LEMMA CallTyped ==
  ASSUME TypeOK, NEW r \in Seq(Ops), NEW s \in States, NEW w \in Int,
         Call(r, s, w),
         queue' \in Seq(Targets), Len(queue') <= QUEUE_LEN,
         flight' \in Seq(Targets), Len(flight') <= 1
  PROVE  TypeOK'
<1>1. HwTypeOK'
  BY DEF Call, TypeOK, HwTypeOK, hwVars, timerVars, profileVars, TimerTypeOK,
         ProfileTypeOK
<1>2. Len(r) \in Nat
  BY SeqLen
<1>3. prog' \in Seq(Ops) /\ pc' \in 1 .. Len(prog') + 1
  BY <1>2 DEF Call
<1> QED
  BY <1>1, <1>3 DEF TypeOK, Call

(* A call of a routine that hands over a command, when the core holds no   *)
(* command and is configured.                                              *)
LEMMA HandKept ==
  ASSUME TypeOK, DriverInv, NEW r, NEW s, NEW w, Call(r, s, w),
         \/ r \in Moves /\ s = "ACTIVE"
         \/ r = StopProg /\ s = "STOPPING" /\ w = 0 /\ flight' = <<>>,
         reg_cmd = {}, Configured, state # "OFF", loc # "run"
  PROVE  DriverInv'
<1>1. /\ prog' = r /\ pc' = 1 /\ tmp' = {} /\ loc' = "run"
      /\ then' = [state |-> s, v |-> w] /\ then'.state = s
      /\ UNCHANGED <<state, cur_v, reg, reg_cmd>>
  BY DEF Call, hwVars
<1>2. Commanding(r) /\ r # InitProg /\ (r \in Moves => r # StopProg)
  BY Kinds
<1>3. Len(r) \in Nat /\ Len(r) > 0 /\ 1 \in 1 .. Len(r)
  BY <1>2, SeqLen DEF Commanding
<1>4. BitsBefore(r, 1) = {}
  BY <1>2, <1>3, BitsOf
<1>5. Written(prog, pc)'
  <2>1. 1 .. 1 - 1 = {}
    OBVIOUS
  <2> QED BY <1>1, <2>1 DEF Written
<1>6. CommandInv'
  BY <1>1, <1>3, <1>4 DEF CommandInv
<1>7. Busy' /\ Handing' /\ Configured'
  BY <1>1 DEF Busy, Handing, Configured
<1>8. Commanding(prog)' /\ ~(pc' > Len(prog')) /\ pc' <= Len(prog')
  BY <1>1, <1>2, <1>3 DEF Commanding
<1> QED
  BY <1>1, <1>2, <1>5, <1>6, <1>7, <1>8 DEF DriverInv

(* A driver that sees no START between two routines sees no command.       *)
LEMMA CommandTaken ==
  ASSUME TypeOK, DriverInv, loc # "run", state \in {"ACTIVE", "STOPPING"},
         "START" \notin reg_cmd
  PROVE  reg_cmd = {} /\ flight = <<>> /\ Configured
<1>1. /\ Busy /\ Handing /\ Commanding(prog) /\ CommandInv /\ Configured
      /\ pc = Len(prog) + 1
  BY DEF DriverInv, Busy, Handing
<1>2. Len(prog) \in Nat /\ pc > Len(prog) /\ ~(pc <= Len(prog))
  BY <1>1, SeqLen DEF TypeOK
<1>3. "START" \in BitsBefore(prog, pc)
  BY <1>1, BitsAll
<1>4. reg_cmd = {}
  BY <1>2, <1>1, <1>3 DEF CommandInv
<1> QED
  BY <1>1, <1>2, <1>4 DEF DriverInv

(* The hand-over of the next move.                                         *)
LEMMA MoveKept ==
  ASSUME TypeOK, DriverInv, unqueue_move,
         reg_cmd = {}, Configured, state # "OFF", loc # "run"
  PROVE  DriveInv'
<1>1. /\ queue # <<>> /\ flight' = <<Head(queue)>> /\ queue' = Tail(queue)
      /\ queue \in Seq(Targets) /\ Len(queue) <= QUEUE_LEN
  BY SMTT(20) DEF unqueue_move, TypeOK
<1>2. PICK n \in AccSteps(Head(queue).dt), ca \in Coefs, cj \in Coefs :
         Call(MoveProg(n, ca, cj), "ACTIVE", Head(queue).v)
  BY DEF unqueue_move
<1>3. Head(queue) \in Targets /\ Tail(queue) \in Seq(Targets)
      /\ Len(Tail(queue)) = Len(queue) - 1
  BY <1>1, HeadTail
<1>4. Head(queue).dt \in Int /\ Head(queue).v \in Int /\ QUEUE_LEN \in Int
  BY <1>3, DriverAssumption
<1>5. n \in Word
  BY <1>4, StepsAreWords
<1>6. MoveProg(n, ca, cj) \in Moves
  BY <1>5 DEF Moves
<1>7. MoveProg(n, ca, cj) \in Seq(Ops)
  BY <1>6, MoveCommands DEF Commanding
<1>8. flight' \in Seq(Targets) /\ Len(flight') <= 1
  BY <1>1, <1>3
<1>9. queue' \in Seq(Targets) /\ Len(queue') <= QUEUE_LEN
  <2>1. Len(queue) \in Nat
    BY <1>1, SeqLen
  <2> QED BY <1>1, <1>3, <1>4, <2>1
<1>10. TypeOK'
  BY <1>2, <1>4, <1>7, <1>8, <1>9, CallTyped DEF States
<1>11. DriverInv'
  BY <1>2, <1>6, HandKept
<1> QED
  BY <1>10, <1>11 DEF DriveInv

(* A step of the main loop that neither calls a routine nor changes the    *)
(* state of the driver.                                                    *)
LEMMA GoKept ==
  ASSUME DriveInv, loc # "run", NEW l \in {"input", "poll", "status"}, Go(l),
         UNCHANGED <<state, cur_v>>,
         queue' \in Seq(Targets), Len(queue') <= QUEUE_LEN,
         l = "status" => state \in {"ACTIVE", "STOPPING"} /\ reg_cmd = {}
  PROVE  DriveInv'
<1>0. /\ TypeOK /\ DriverInv /\ loc' = l
      /\ UNCHANGED <<hwVars, prog, pc, tmp, then, running, flight>>
  BY DEF DriveInv, Go
<1>h. UNCHANGED <<reg, reg_cmd, stopped, v, a, j>>
  BY <1>0 DEF hwVars, timerVars, profileVars
<1>1. TypeOK'
  <2>1. HwTypeOK'
    BY <1>0, SMTT(20) DEF TypeOK, HwTypeOK, hwVars, timerVars, profileVars, TimerTypeOK,
         ProfileTypeOK
  <2> QED
    BY <1>0, <2>1 DEF TypeOK
<1>2. /\ Configured' = Configured /\ AtRest' = AtRest /\ Standing' = Standing
      /\ Written(prog, pc)' = Written(prog, pc) /\ CommandInv = CommandInv'
      /\ Handing' = Handing /\ Busy' = Busy
  BY <1>0, <1>h, SMTT(20) DEF Configured, AtRest, Standing, Written, CommandInv, Handing,
       BitsBefore, Busy
<1>3. DriverInv'
  BY <1>0, <1>h, <1>2 DEF DriverInv
<1> QED
  BY <1>1, <1>3 DEF DriveInv

(* Console input: nothing, a target, or a reset.                           *)
LEMMA InputKept ==
  ASSUME DriveInv, NoInput \/ (\E t \in Targets : do_start(t)) \/ do_reset
  PROVE  DriveInv'
<1>0. /\ TypeOK /\ DriverInv /\ queue \in Seq(Targets) /\ Len(queue) <= QUEUE_LEN
      /\ Len(queue) \in Nat /\ QUEUE_LEN \in Nat
  BY SeqLen, DriverAssumption, Zenon DEF DriveInv, TypeOK
<1>1. CASE NoInput
  BY <1>0, <1>1, GoKept DEF NoInput
<1>2. ASSUME NEW t \in Targets, do_start(t)
      PROVE  DriveInv'
  <2>1. Append(queue, t) \in Seq(Targets) /\ Len(Append(queue, t)) = Len(queue) + 1
    BY <1>0, AppendElements
  <2>2. /\ loc = "input" /\ Go("poll") /\ UNCHANGED <<state, cur_v>>
        /\ queue' = IF Len(queue) >= QUEUE_LEN THEN queue ELSE Append(queue, t)
    BY <1>2 DEF do_start
  <2>3. queue' \in Seq(Targets) /\ Len(queue') <= QUEUE_LEN
    BY <1>0, <2>1, <2>2
  <2> QED
    BY <2>2, <2>3, GoKept, SMTT(30)
<1>3. CASE do_reset
  <2>0. /\ queue' = <<>> /\ state' = "OFF" /\ cur_v' = 0 /\ HwReset
        /\ flight' = <<>> /\ running' = <<>> /\ loc' = "poll"
        /\ UNCHANGED <<prog, pc, tmp, then>>
    BY <1>3 DEF do_reset
  <2>1. HwTypeOK'
    BY <2>0, ResetType, SMTT(30)
  <2>2. TypeOK'
    BY <1>0, <2>0, <2>1 DEF TypeOK, States
  <2>3. stopped' /\ reg_cmd' = {} /\ v' = 0 /\ a' = 0 /\ j' = 0
    BY <2>0 DEF HwReset, TimerReset, ProfileReset
  <2>4. AtRest' /\ ~Busy'
    BY <2>0, <2>3 DEF AtRest, Standing, Busy
  <2>5. DriverInv'
    BY <2>0, <2>4 DEF DriverInv
  <2> QED
    BY <2>2, <2>5 DEF DriveInv
<1> QED
  BY <1>1, <1>2, <1>3, SMTT(20)

(* One pass of steppersMainLoop.                                           *)
LEMMA PollKept ==
  ASSUME DriveInv, PollOff \/ PollIdle \/ PollCmd \/ PollStatus
  PROVE  DriveInv'
<1>0. /\ TypeOK /\ DriverInv /\ queue \in Seq(Targets) /\ Len(queue) <= QUEUE_LEN
      /\ flight \in Seq(Targets) /\ Len(flight) <= 1
  BY DEF DriveInv, TypeOK
<1>1. CASE PollOff
  <2>1. CASE queue = <<>>
    BY <1>0, <1>1, <2>1, GoKept DEF PollOff
  <2>2. CASE queue # <<>>
    <3>1. /\ loc = "poll" /\ state = "OFF" /\ Call(InitProg, "IDLE", 0)
          /\ UNCHANGED <<queue, flight>>
      BY <1>1, <2>2 DEF PollOff
    <3>2. TypeOK'
      BY <1>0, <3>1, CallTyped, InitWrites DEF States
    <3>3. ~Busy /\ AtRest /\ cur_v = 0
      BY <1>0, <3>1 DEF DriverInv, Busy
    <3>4. /\ prog' = InitProg /\ pc' = 1 /\ loc' = "run"
          /\ then' = [state |-> "IDLE", v |-> 0] /\ UNCHANGED <<state, cur_v>>
          /\ UNCHANGED <<reg, reg_cmd, stopped, v, a, j>>
      BY <3>1 DEF Call, hwVars, timerVars, profileVars
    <3>5. AtRest' /\ Busy' /\ state' = "OFF"
      BY <3>1, <3>3, <3>4, SMTT(20) DEF AtRest, Standing, Busy
    <3>6. Written(prog, pc)'
      <4>1. 1 .. 1 - 1 = {}
        OBVIOUS
      <4> QED BY <3>4, <4>1 DEF Written
    <3>7. ~Handing' /\ prog' # StopProg /\ prog' \notin Moves
      BY <3>4, Kinds, SMTT(20) DEF Handing
    <3>8. DriverInv'
      BY <3>4, <3>5, <3>6, <3>7 DEF DriverInv
    <3> QED BY <3>2, <3>8 DEF DriveInv
  <2> QED BY <2>1, <2>2
<1>2. CASE PollIdle
  <2>1. loc = "poll" /\ state = "IDLE" /\ reg_cmd = {} /\ Configured
    BY <1>0, <1>2 DEF PollIdle, DriverInv, Busy, AtRest
  <2>2. CASE unqueue_move
    BY <1>0, <2>1, <2>2, MoveKept
  <2>3. CASE Go("input") /\ UNCHANGED <<state, queue, cur_v>>
    BY <1>0, <2>1, <2>3, GoKept
  <2> QED BY <1>2, <2>2, <2>3 DEF PollIdle
<1>3. CASE PollCmd
  <2>1. loc = "poll" /\ state \in {"ACTIVE", "STOPPING"}
    BY <1>3 DEF PollCmd
  <2>2. CASE Go("input") /\ UNCHANGED <<state, queue, cur_v>>
    BY <1>0, <2>1, <2>2, GoKept
  <2>3. CASE "START" \notin CMD
    <3>1. reg_cmd = {} /\ Configured
      BY <1>0, <2>1, <2>3, CommandTaken DEF CMD
    <3>2. CASE unqueue_move
      BY <1>0, <2>1, <3>1, <3>2, MoveKept
    <3>3. CASE Go("status") /\ UNCHANGED <<state, queue, cur_v>>
      BY <1>0, <2>1, <3>1, <3>3, GoKept
    <3> QED BY <1>3, <2>2, <2>3, <3>2, <3>3 DEF PollCmd
  <2> QED BY <1>3, <2>2, <2>3 DEF PollCmd
<1>4. CASE PollStatus
  <2>1. /\ loc = "status" /\ state \in {"ACTIVE", "STOPPING"} /\ reg_cmd = {}
        /\ "START" \notin reg_cmd
    BY <1>0, <1>4 DEF PollStatus, DriverInv
  <2>2. flight = <<>> /\ Configured
    BY <1>0, <2>1, CommandTaken
  <2>3. CASE Go("input") /\ UNCHANGED <<state, queue, cur_v>>
    BY <1>0, <2>1, <2>3, GoKept
  <2>4. CASE unqueue_stop
    <3>1. Call(StopProg, "STOPPING", 0) /\ UNCHANGED <<queue, flight>>
      BY <2>4, SMTT(20) DEF unqueue_stop
    <3>2. StopProg \in Seq(Ops)
      BY Kinds DEF Commanding
    <3>3. TypeOK'
      BY <1>0, <3>1, <3>2, CallTyped DEF States
    <3>4. DriverInv'
      BY <1>0, <2>1, <2>2, <3>1, HandKept, SMTT(20)
    <3> QED BY <3>3, <3>4 DEF DriveInv
  <2>5. CASE /\ STATUS /\ state = "STOPPING"
             /\ state' = "IDLE" /\ Go("input") /\ UNCHANGED <<queue, cur_v>>
    <3>1. /\ stopped /\ prog = StopProg /\ cur_v = 0 /\ pc = Len(prog) + 1
          /\ Busy /\ Handing
      BY <1>0, <2>1, <2>5 DEF DriverInv, STATUS, Busy, Handing
    <3>2. pc > Len(prog)
      BY <1>0, <3>1, SeqLen DEF TypeOK
    <3>3. AtRest
      BY <1>0, <2>1, <2>2, <3>1, <3>2 DEF DriverInv, AtRest
    <3>4. /\ loc' = "input" /\ state' = "IDLE" /\ cur_v' = 0
          /\ UNCHANGED <<hwVars, prog, pc, tmp, then, running, flight, queue>>
      BY <2>5, <3>1 DEF Go
    <3>5. UNCHANGED <<reg, reg_cmd, stopped, v, a, j>>
      BY <3>4 DEF hwVars, timerVars, profileVars
    <3>6. AtRest' /\ Configured' /\ ~Busy'
      BY <2>2, <3>3, <3>4, <3>5, SMTT(20) DEF AtRest, Standing, Configured, Busy
    <3>7. HwTypeOK'
      BY <1>0, <3>4 DEF TypeOK, HwTypeOK, hwVars, timerVars, profileVars,
           TimerTypeOK, ProfileTypeOK
    <3>8. TypeOK'
      BY <1>0, <3>4, <3>7 DEF TypeOK, States
    <3>9. DriverInv'
      BY <3>4, <3>6 DEF DriverInv
    <3> QED BY <3>8, <3>9 DEF DriveInv
  <2> QED BY <1>4, <2>3, <2>4, <2>5 DEF PollStatus
<1> QED
  BY <1>1, <1>2, <1>3, <1>4

(* The driver and the core keep DriveInv, together, at every step.         *)
LEMMA DriveInductive == DriveInv /\ [Next]_vars => DriveInv'
<1> SUFFICES ASSUME DriveInv, [Next]_vars
             PROVE  DriveInv'
  OBVIOUS
<1>1. CASE UNCHANGED vars
  <2>1. /\ UNCHANGED <<state, queue, cur_v, loc, prog, pc, tmp, then, flight, running>>
        /\ UNCHANGED hwVars
    BY <1>1 DEF vars, swVars
  <2>2. UNCHANGED <<reg, reg_cmd, stopped, v, a, j>>
    BY <2>1 DEF hwVars, timerVars, profileVars
  <2>3. HwTypeOK'
    BY <2>1 DEF DriveInv, TypeOK, HwTypeOK, hwVars, timerVars, profileVars,
         TimerTypeOK, ProfileTypeOK
  <2>4. TypeOK'
    BY <2>1, <2>3, SMTT(20) DEF DriveInv, TypeOK
  <2>5. Configured' = Configured /\ AtRest' = AtRest /\ Standing' = Standing
    BY <2>1, <2>2 DEF Configured, AtRest, Standing
  <2>6. Handing' = Handing /\ Busy' = Busy
    BY <2>1 DEF Handing, Busy
  <2>7. Written(prog, pc)' = Written(prog, pc)
    BY <2>1, <2>2 DEF Written
  <2>8. CommandInv' = CommandInv
    BY <2>1, <2>2, SMTT(30) DEF CommandInv, BitsBefore
  <2>9. DriverInv'
    BY <2>1, <2>2, <2>5, <2>6, <2>7, <2>8 DEF DriveInv, DriverInv
  <2> QED BY <2>4, <2>9 DEF DriveInv
<1>2. CASE Next
  BY <1>2, TickKept, WriteKept, ReadCmdKept, OrKept, ReturnKept, InputKept, PollKept
     DEF Next, Software
<1> QED
  BY <1>1, <1>2

(* Reset leaves the core at rest under a driver that is off.               *)
LEMMA DriveStart == Init => DriveInv
<1> SUFFICES ASSUME Init PROVE DriveInv
  OBVIOUS
<1>1. HwTypeOK
  BY ResetType DEF Init
<1>2. QUEUE_LEN \in Nat
  BY DriverAssumption
<1>3. TypeOK
  BY <1>1, <1>2 DEF Init, TypeOK, States
<1>4. AtRest /\ ~Busy
  BY DEF Init, HwInit, TimerInit, ProfileInit, AtRest, Standing, Busy
<1>5. DriverInv
  BY <1>4 DEF Init, DriverInv
<1> QED
  BY <1>3, <1>5 DEF DriveInv

-----------------------------------------------------------------------------
(* The states of the driver and of the core stay in their types: a full    *)
(* queue refuses a target, and at most one move is on its way or running.  *)
THEOREM TypeCorrect == Spec => []TypeOK
<1>1. DriveInv => TypeOK
  BY DEF DriveInv
<1> QED
  BY <1>1, DriveStart, DriveInductive, PTL DEF Spec

(* steppersMainLoop is never wrong about an axis it believes idle or off.  *)
THEOREM IdleIsRest == Spec => []IdleAtRest
<1>1. DriveInv => IdleAtRest
  <2> SUFFICES ASSUME DriveInv, loc # "run", state \in {"OFF", "IDLE"}
               PROVE  AtRest /\ cur_v = 0
    BY DEF IdleAtRest, AtRest, Standing
  <2> QED
    BY DEF DriveInv, DriverInv, Busy
<1> QED
  BY <1>1, DriveStart, DriveInductive, PTL DEF Spec

(* When a command is loaded, the routine that wrote it is at its end.      *)
LEMMA LoadAtEnd ==
  ASSUME DriveInv, load
  PROVE  /\ Configured /\ Written(prog, Len(prog) + 1)
         /\ reg_cmd = OpsBits(prog) /\ Len(prog) \in Nat
         /\ DOMAIN prog = 1 .. Len(prog)
<1>0. TypeOK /\ DriverInv /\ "START" \in reg_cmd
  BY DEF DriveInv, load
<1>1. Busy /\ Handing
  BY <1>0 DEF DriverInv, AtRest
<1>2. Commanding(prog) /\ Configured /\ CommandInv /\ Written(prog, pc)
  BY <1>0, <1>1 DEF DriverInv
<1>3. Len(prog) \in Nat /\ pc \in 1 .. Len(prog) + 1
      /\ DOMAIN prog = 1 .. Len(prog)
  BY <1>0, SeqLen DEF TypeOK
<1>4. pc = Len(prog) + 1
  <2>1. CASE pc <= Len(prog)
    BY <1>0, <1>2, <1>3, <2>1, BitsOf DEF CommandInv
  <2> QED BY <1>3, <2>1
<1>5. reg_cmd = BitsBefore(prog, pc)
  <2>1. pc > Len(prog)
    BY <1>3, <1>4
  <2> QED BY <1>0, <1>2, <2>1 DEF CommandInv
<1> QED
  BY <1>2, <1>3, <1>4, <1>5, BitsAll

(* The core never loads a half-written command: motion.c writes the        *)
(* registers first and START last, and waits for the core to clear it.     *)
THEOREM CommandsUntorn == Spec => []LoadUntorn
<1>1. DriveInv => LoadUntorn
  <2> SUFFICES ASSUME DriveInv, load
               PROVE  /\ reg_cmd = OpsBits(prog)
                      /\ \A i \in DOMAIN prog :
                           prog[i].do = "write" => reg[prog[i].reg] = prog[i].val
    BY DEF LoadUntorn
  <2>1. /\ Written(prog, Len(prog) + 1) /\ reg_cmd = OpsBits(prog)
        /\ Len(prog) \in Nat /\ DOMAIN prog = 1 .. Len(prog)
    BY LoadAtEnd
  <2>2. \A i \in 1 .. Len(prog) : i \in 1 .. (Len(prog) + 1) - 1 /\ i <= Len(prog)
    BY <2>1
  <2> QED
    BY <2>1, <2>2 DEF Written
<1> QED
  BY <1>1, DriveStart, DriveInductive, PTL DEF Spec

(* No segment starts before steppers_init has configured the core, also    *)
(* after a reset.                                                          *)
THEOREM CommandsConfigured == Spec => []LoadConfigured
<1>1. DriveInv => LoadConfigured
  BY LoadAtEnd DEF LoadConfigured, Configured
<1> QED
  BY <1>1, DriveStart, DriveInductive, PTL DEF Spec
-----------------------------------------------------------------------------
(* A clock begins the move on its way, ends the running one, or neither.   *)
LEMMA ClockServes ==
  ASSUME TypeOK, NEW wr, Clock(wr), UNCHANGED queue
  PROVE  [Promise!QueueNext]_(Promise!queueVars)
<1>0. /\ queue \in Seq(Targets) /\ flight \in Seq(Targets) /\ Len(flight) <= 1
      /\ Len(flight) \in Nat /\ <<>> \in Seq(Targets)
  BY SeqLen DEF TypeOK
<1>1. <<>> \o queue = queue
  BY <1>0, ConcatEmpty
<1>2. CASE load /\ flight # <<>>
  <2>1. running' = flight /\ flight' = <<>>
    BY <1>2 DEF Clock, Track
  <2>2. Len(flight) = 1
    <3>1. \A s \in Seq(Targets) : s # <<>> => Len(s) \in Nat \ {0}
      BY SeqNonEmpty
    <3>2. Len(flight) \in Nat \ {0}
      BY <1>0, <1>2, <3>1
    <3>3. \A n \in Nat \ {0} : n <= 1 => n = 1
      OBVIOUS
    <3> QED BY <1>0, <3>2, <3>3, Zenon
  <2> DEFINE w == flight \o queue
  <2>3. /\ w \in Seq(Targets) /\ Len(w) = 1 + Len(queue)
        /\ w[1] = flight[1]
        /\ \A i \in 1 .. Len(queue) : w[1 + i] = queue[i]
    <3>1. /\ w \in Seq(Targets) /\ Len(w) = Len(flight) + Len(queue)
          /\ \A i \in 1 .. Len(flight) : w[i] = flight[i]
          /\ \A i \in 1 .. Len(queue) : w[Len(flight) + i] = queue[i]
      BY <1>0, Extended
    <3> QED BY <2>2, <3>1
  <2> HIDE DEF w
  <2>4. Len(queue) \in Nat
    BY <1>0, SeqLen
  <2>5. w # <<>> /\ Head(w) = flight[1]
    BY <2>3, <2>4
  <2>6. Tail(w) = queue
    <3>1. /\ Tail(w) \in Seq(Targets) /\ Len(Tail(w)) = Len(w) - 1
          /\ \A i \in 1 .. Len(Tail(w)) : Tail(w)[i] = w[i + 1]
      BY <2>3, <2>5, HeadTail
    <3>2. Len(Tail(w)) = Len(queue)
      BY <2>3, <2>4, <3>1
    <3>3. \A i \in 1 .. Len(queue) : Tail(w)[i] = queue[i]
      <4> TAKE i \in 1 .. Len(queue)
      <4>1. i + 1 = 1 + i
        BY <2>4
      <4> QED BY <2>3, <3>1, <3>2, <4>1
    <3> QED
      BY <1>0, <3>1, <3>2, <3>3, SameSeq, SMTT(20)
  <2>7. flight = <<Head(w)>>
    BY <1>0, <2>2, <2>5
  <2>8. Promise!Begin
    BY <1>1, <2>1, <2>5, <2>6, <2>7 DEF Promise!Begin, w
  <2> QED BY <2>8 DEF Promise!QueueNext
<1>3. CASE load /\ flight = <<>>
  <2>1. running' = <<>> /\ flight' = flight
    BY <1>3 DEF Clock, Track
  <2> QED
    BY <2>1 DEF Promise!QueueNext, Promise!Finish, Promise!queueVars
<1>4. CASE ~load
  <2>1. running' \in {running, <<>>} /\ flight' = flight
    BY <1>4 DEF Clock, Track
  <2> QED
    BY <2>1 DEF Promise!QueueNext, Promise!Finish, Promise!queueVars
<1> QED
  BY <1>2, <1>3, <1>4

(* Taking a move off the driver's queue leaves it first in line.           *)
LEMMA MoveServes ==
  ASSUME TypeOK, unqueue_move, flight = <<>>
  PROVE  UNCHANGED Promise!queueVars
<1>1. /\ queue # <<>> /\ flight' = <<Head(queue)>> /\ queue' = Tail(queue)
      /\ queue \in Seq(Targets) /\ running' = running
  BY DEF unqueue_move, TypeOK, Call
<1>2. <<>> \o queue = queue
  BY <1>1, ConcatEmpty
<1>3. /\ Head(queue) \in Targets /\ Tail(queue) \in Seq(Targets)
      /\ Len(Tail(queue)) = Len(queue) - 1
      /\ \A i \in 1 .. Len(Tail(queue)) : Tail(queue)[i] = queue[i + 1]
  BY <1>1, HeadTail
<1> DEFINE h == <<Head(queue)>>
           t == Tail(queue)
           w == h \o t
<1>4. h \in Seq(Targets) /\ t \in Seq(Targets)
  BY <1>3
<1>5. Len(h) = 1 /\ h[1] = Head(queue) /\ Head(queue) = queue[1]
  OBVIOUS
<1> HIDE DEF h, t, w
<1>6. w = h \o t
  BY DEF w
<1>7. /\ w \in Seq(Targets) /\ Len(w) = Len(h) + Len(t)
      /\ \A i \in 1 .. Len(h) : w[i] = h[i]
      /\ \A i \in 1 .. Len(t) : w[Len(h) + i] = t[i]
  BY <1>4, <1>6, Extended
<1>8. Len(queue) \in Nat /\ Len(queue) > 0
  BY <1>1, SeqLen, SeqNonEmpty
<1>9. Len(w) = Len(queue)
  BY <1>3, <1>5, <1>7, <1>8 DEF t
<1>10. ASSUME NEW i \in 1 .. Len(queue) PROVE w[i] = queue[i]
  <2>1. CASE i = 1
    BY <1>5, <1>7, <2>1
  <2>2. CASE i # 1
    <3>1. /\ i - 1 \in 1 .. Len(t) /\ 1 + (i - 1) = i /\ (i - 1) + 1 = i
      BY <1>3, <1>8, <2>2 DEF t
    <3> QED BY <1>3, <1>5, <1>7, <3>1 DEF t
  <2> QED BY <2>1, <2>2
<1>11. w = queue
  BY <1>1, <1>7, <1>9, <1>10, SameSeq
<1> QED
  BY <1>1, <1>2, <1>11, SMTT(30) DEF Promise!queueVars, w, h, t

(* A submitted target is the last in line.                                 *)
LEMMA StartServes ==
  ASSUME TypeOK, NEW t \in Targets, do_start(t)
  PROVE  [Promise!QueueNext]_(Promise!queueVars)
<1>0. /\ queue \in Seq(Targets) /\ flight \in Seq(Targets) /\ Len(flight) <= 1
      /\ Len(flight) \in Nat /\ Len(queue) \in Nat /\ QUEUE_LEN \in Nat
      /\ UNCHANGED <<flight, running>>
      /\ queue' = IF Len(queue) >= QUEUE_LEN THEN queue ELSE Append(queue, t)
  BY SeqLen, DriverAssumption DEF TypeOK, do_start, Go
<1>1. CASE Len(queue) >= QUEUE_LEN
  BY <1>0, <1>1 DEF Promise!queueVars
<1>2. CASE ~(Len(queue) >= QUEUE_LEN)
  <2>1. /\ flight \o queue \in Seq(Targets)
        /\ Len(flight \o queue) = Len(flight) + Len(queue)
    BY <1>0, ConcatElements
  <2>2. Len(flight \o queue) < QUEUE_LEN + 1
    BY <1>0, <1>2, <2>1
  <2>3. <<t>> \in Seq(Targets)
    OBVIOUS
  <2>4. Append(queue, t) = queue \o <<t>>
    BY <1>0, AppendConcat
  <2>5. Append(flight \o queue, t) = (flight \o queue) \o <<t>>
    BY <2>1, AppendConcat
  <2>6. (flight \o queue) \o <<t>> = flight \o (queue \o <<t>>)
    BY <1>0, <2>3, ConcatAssoc
  <2>7. (flight \o queue)' = Append(flight \o queue, t)
    BY <1>0, <1>2, <2>4, <2>5, <2>6
  <2>8. Promise!Submit(t)
    BY <1>0, <2>2, <2>7, SMTT(20) DEF Promise!Submit
  <2> QED BY <2>8 DEF Promise!QueueNext
<1> QED
  BY <1>1, <1>2, SMTT(30)

(* Every step of the driver and the core is a step of MotionQueue, or none *)
(* of its user's business.                                                 *)
LEMMA StepServes ==
  DriveInv /\ [Next]_vars => [Promise!QueueNext]_(Promise!queueVars)
<1> SUFFICES ASSUME DriveInv, [Next]_vars
             PROVE  [Promise!QueueNext]_(Promise!queueVars)
  OBVIOUS
<1>0. TypeOK /\ DriverInv
  BY DEF DriveInv
<1>1. ASSUME UNCHANGED <<queue, flight, running>>
      PROVE  UNCHANGED Promise!queueVars
  BY <1>1 DEF Promise!queueVars
<1>2. CASE Tick \/ DoWrite \/ DoOr
  BY <1>0, <1>2, ClockServes, SMTT(30) DEF Tick, DoWrite, DoOr, swVars
<1>3. CASE DoRead \/ Return \/ NoInput \/ PollOff \/ UNCHANGED vars
  BY <1>1, <1>3 DEF DoRead, Return, NoInput, PollOff, Go, Call, vars, swVars
<1>4. ASSUME NEW t \in Targets, do_start(t)
      PROVE  [Promise!QueueNext]_(Promise!queueVars)
  BY <1>0, <1>4, StartServes
<1>5. CASE do_reset
  <2>1. <<>> \o <<>> = <<>>
    <3>1. <<>> \in Seq(Targets)
      OBVIOUS
    <3> QED BY <3>1, ConcatEmpty
  <2>2. Promise!Flush
    BY <1>5, <2>1 DEF do_reset, Promise!Flush
  <2> QED BY <2>2 DEF Promise!QueueNext
<1>6. CASE PollIdle
  <2>1. flight = <<>>
    BY <1>0, <1>6 DEF PollIdle, DriverInv, Busy, AtRest
  <2>2. CASE unqueue_move
    BY <1>0, <2>1, <2>2, MoveServes
  <2>3. CASE ~unqueue_move
    BY <1>1, <1>6, <2>3 DEF PollIdle, Go
  <2> QED BY <2>2, <2>3, SMTT(30)
<1>7. CASE PollCmd
  <2>1. CASE "START" \notin CMD /\ unqueue_move
    <3>1. flight = <<>>
      BY <1>0, <1>7, <2>1, CommandTaken DEF PollCmd, CMD
    <3> QED BY <1>0, <2>1, <3>1, MoveServes
  <2>2. CASE ~("START" \notin CMD /\ unqueue_move)
    BY <1>1, <1>7, <2>2, SMTT(30) DEF PollCmd, Go
  <2> QED BY <2>1, <2>2
<1>8. CASE PollStatus
  BY <1>1, <1>8 DEF PollStatus, Go, unqueue_stop, Call
<1> QED
  BY <1>2, <1>3, <1>4, <1>5, <1>6, <1>7, <1>8 DEF Next, Software

(* No target is lost, repeated or reordered on the way from do_start to    *)
(* the core, and never more than one runs: the safety half of ServesQueue. *)
THEOREM QueueServed ==
  Spec => Promise!QueueInit /\ [][Promise!QueueNext]_(Promise!queueVars)
<1>1. Init => Promise!QueueInit
  <2>1. <<>> \o <<>> = <<>>
    <3>1. <<>> \in Seq(Targets)
      OBVIOUS
    <3> QED BY <3>1, ConcatEmpty
  <2> QED BY <2>1 DEF Init, Promise!QueueInit
<1> QED
  BY <1>1, DriveStart, DriveInductive, StepServes, PTL DEF Spec
-----------------------------------------------------------------------------
(* The driver's bus accesses are among those the core's theorems allow.    *)
LEMMA StepOfCore ==
  ASSUME DriveInv, [Next]_vars
  PROVE  HwReset \/ (\E wr \in BusWrite : HwClock(wr)) \/ UNCHANGED hwVars
<1>0. TypeOK /\ DriverInv
  BY DEF DriveInv
<1>1. CASE Tick
  BY <1>1, WritesType DEF Tick, Clock
<1>2. CASE DoWrite
  <2>1. /\ loc = "run" /\ pc <= Len(prog) /\ prog[pc].do = "write"
        /\ HwClock(Wr(prog[pc].reg, prog[pc].val))
    BY <1>2 DEF DoWrite, Access, Clock
  <2>2. pc \in 1 .. Len(prog)
    BY <1>0, <2>1, SeqLen DEF TypeOK
  <2> QED
    BY <1>0, <2>1, <2>2, RunWrites, DriverWrites, Zenon
<1>3. CASE DoOr
  <2>1. /\ loc = "run" /\ pc <= Len(prog)
        /\ HwClock(WrCmd(tmp \cup {prog[pc].bit}))
    BY <1>3 DEF DoOr, Access, Clock
  <2>2. pc \in 1 .. Len(prog)
    BY <1>0, <2>1, SeqLen DEF TypeOK
  <2> QED
    BY <1>0, <2>1, <2>2, DriverWrites, Zenon
<1>4. CASE do_reset
  BY <1>4 DEF do_reset
<1>5. CASE DoRead \/ Return \/ NoInput \/ (\E t \in Targets : do_start(t))
  BY <1>5 DEF DoRead, Return, NoInput, do_start, Go
<1>6. CASE PollOff \/ PollIdle \/ PollCmd \/ PollStatus
  BY <1>6, Zenon DEF PollOff, PollIdle, PollCmd, PollStatus, unqueue_move, unqueue_stop,
       Call, Go
<1>7. CASE UNCHANGED vars
  BY <1>7 DEF vars
<1> QED
  BY <1>1, <1>2, <1>3, <1>4, <1>5, <1>6, <1>7 DEF Next, Software

(* What acc_step_gen and acc_profile_gen do holds under this driver: each  *)
(* segment it hands over lasts as long as its registers say, gets its      *)
(* increments, and moves the velocity along the planned polynomial.        *)
THEOREM CoreUnderDriver ==
  Spec => [](SegmentLength /\ IncrementCount /\ Trajectory)
<1> DEFINE Inv == DriveInv /\ TimerInv /\ Trajectory
<1>1. Init => Inv
  BY DriveStart, ResetTimerInv, ResetTrajectory DEF Init
<1>2. Inv /\ [Next]_vars => Inv'
  <2> SUFFICES ASSUME DriveInv, TimerInv, Trajectory, [Next]_vars
               PROVE  DriveInv' /\ TimerInv' /\ Trajectory'
    BY SMTT(30)
  <2>0. DriveInv' /\ HwTypeOK
    BY DriveInductive DEF DriveInv, TypeOK
  <2>1. CASE HwReset
    BY <2>0, <2>1, ResetTimerInv, ResetTrajectory
  <2>2. ASSUME NEW wr \in BusWrite, HwClock(wr)
        PROVE  TimerInv' /\ Trajectory'
    BY <2>0, <2>2, ClockTimerInv, ClockTrajectory
  <2>3. CASE UNCHANGED hwVars
    <3>1. TimerInv'
      BY <2>3 DEF hwVars, timerVars, profileVars, TimerInv, SegmentClocks, Span
    <3>2. Trajectory'
      BY <2>3 DEF hwVars, timerVars, profileVars, Trajectory, Wrap
    <3> QED BY <2>0, <3>1, <3>2
  <2> QED
    BY <2>0, <2>1, <2>2, <2>3, StepOfCore
<1>3. Inv => SegmentLength /\ IncrementCount /\ Trajectory
  BY TimerInvSuffices DEF DriveInv, TypeOK
<1> QED
  BY <1>1, <1>2, <1>3, PTL DEF Spec
=============================================================================
