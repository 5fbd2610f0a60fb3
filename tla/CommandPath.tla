----------------------------- MODULE CommandPath -----------------------------
(***************************************************************************)
(* The command path of the motion core (user_logic.v): the registers the   *)
(* bus writes, the segment timer (acc_step_gen.v) and the velocity half of *)
(* the profile generator (acc_profile_gen.v), stepped by one clock.        *)
(*                                                                         *)
(* A segment is steps_limit acceleration steps of dt_limit clocks each.    *)
(* The timer counts clocks in dt and acceleration steps in steps, strobes  *)
(* step_stb on the last clock of every acceleration step, and done on the  *)
(* last clock of the segment.  A load on that very clock chains the next   *)
(* segment without a gap; otherwise the timer falls into stopped.  On      *)
(* every acceleration step the velocity v grows by the acceleration a, and *)
(* a by the jerk j; a load overwrites those it has a set bit for.          *)
(*                                                                         *)
(* A command is loaded on the first clock on which its START bit is up and *)
(* the timer is done or stopped.  That clock also clears the command       *)
(* register, unless the bus writes it on the same clock.                   *)
(*                                                                         *)
(* HwSpec closes the core with a bus that may write any register at any    *)
(* clock and reset it at any time.  The position half hangs off v and is   *)
(* read by nothing here; it is in module StepPath.                         *)
(***************************************************************************)
EXTENDS Words

VARIABLES
  dt,               \* clocks counted in the current acceleration step
  steps,            \* acceleration steps counted in the current segment
  stopped,          \* no segment is running
  dt_limit,         \* clocks per acceleration step, latched by load
  steps_limit       \* acceleration steps per segment, latched by load

timerVars == <<dt, steps, stopped, dt_limit, steps_limit>>

TimerTypeOK ==
  /\ dt \in Word
  /\ steps \in Word
  /\ stopped \in BOOLEAN
  /\ dt_limit \in Word
  /\ steps_limit \in Word

\* The registers as reset leaves them.
TimerInit ==
  /\ dt = 0
  /\ steps = 0
  /\ stopped = TRUE
  /\ dt_limit = 0
  /\ steps_limit = 0

\* A slip that compares with the limit itself and counts one too many.
LastOfMutant(limit) == limit

\* "limit - 1" in unsigned arithmetic: for a limit of 0 it is the last word.
LastOf(limit) == (limit - 1) % M

\* The combinational strobes, as they are with reset low.
step_stb == ~stopped /\ dt >= LastOf(dt_limit)

done == step_stb /\ steps >= LastOf(steps_limit)

\* One clock edge of the counters and of the latched limits.
TimerReset ==
  /\ dt' = 0 /\ steps' = 0 /\ stopped' = TRUE
  /\ dt_limit' = 0 /\ steps_limit' = 0

TimerLoad(dt_val, steps_val) ==
  /\ dt' = 0 /\ steps' = 0 /\ stopped' = FALSE
  /\ dt_limit' = dt_val /\ steps_limit' = steps_val

TimerHold ==
  /\ stopped
  /\ dt' = 0 /\ steps' = 0
  /\ UNCHANGED <<stopped, dt_limit, steps_limit>>

TimerCount ==
  /\ ~stopped
  /\ dt' = IF step_stb THEN 0 ELSE (dt + 1) % M
  /\ steps' = IF step_stb THEN (steps + 1) % M ELSE steps
  /\ stopped' = done
  /\ UNCHANGED <<dt_limit, steps_limit>>
-----------------------------------------------------------------------------
VARIABLES v, a, j   \* velocity, acceleration, jerk

profileVars == <<v, a, j>>

ProfileTypeOK == v \in SWord /\ a \in SWord /\ j \in SWord

ProfileInit == v = 0 /\ a = 0 /\ j = 0

ProfileReset == v' = 0 /\ a' = 0 /\ j' = 0

ProfileLoad(set_v, v_val, set_a, a_val, set_j, j_val) ==
  /\ v' = IF set_v THEN v_val ELSE v
  /\ a' = IF set_a THEN a_val ELSE a
  /\ j' = IF set_j THEN j_val ELSE j

\* A slip that feeds the already updated acceleration into the velocity.
ProfileStepMutant ==
  /\ a' = Wrap(a + j)
  /\ v' = Wrap(v + a')
  /\ j' = j

\* A slip that does not cut the sum to the width of the register.
ProfileNoWrapMutant ==
  /\ v' = v + a
  /\ a' = a + j
  /\ j' = j

ProfileStep ==
  /\ v' = Wrap(v + a)
  /\ a' = Wrap(a + j)
  /\ j' = j
-----------------------------------------------------------------------------
CONSTANT BusWrites  \* the register writes the bus of HwSpec may make

VARIABLES
  reg,              \* the registers other than the command register
  reg_cmd,          \* the bits of the command register that are set
  elapsed,          \* history: clocks since the segment was loaded
  applied,          \* history: increments of v in this segment
  start             \* history: v, a and j as the load left them

hwVars == <<timerVars, profileVars, reg, reg_cmd, elapsed, applied, start>>

Regs == {"NEXT_XL", "NEXT_XH", "NEXT_V", "NEXT_A", "NEXT_J", "NEXT_DT",
         "NEXT_STEPS", "PRE_N", "PULSE_N", "POST_N", "STEP_BIT",
         "STOP_DELAY", "PROBE_DELAY"}

CmdBits == {"START", "SET_X", "SET_V", "SET_A", "SET_J"}

\* What the bus presents on a clock: a register write, a command, or nothing.
Wr(r, x) == [reg |-> r, val |-> x, bits |-> {}]

WrCmd(b) == [reg |-> "CMD", val |-> 0, bits |-> b]

NoWrite == [reg |-> "none", val |-> 0, bits |-> {}]

BusWrite == [reg : Regs \cup {"CMD", "MISSED_STEPS", "none"}, val : Word,
             bits : SUBSET CmdBits]

ASSUME BusAssumption == BusWrites \subseteq BusWrite

HwTypeOK ==
  /\ TimerTypeOK
  /\ ProfileTypeOK
  /\ reg \in [Regs -> Word]
  /\ reg_cmd \in SUBSET CmdBits
  /\ elapsed \in Nat
  /\ applied \in Nat
  /\ start \in [v : SWord, a : SWord, j : SWord]

HwInit ==
  /\ TimerInit
  /\ ProfileInit
  /\ reg = [r \in Regs |-> 0]
  /\ reg_cmd = {}
  /\ elapsed = 0
  /\ applied = 0
  /\ start = [v |-> 0, a |-> 0, j |-> 0]

\* A slip that lets a new command cut the running segment short.
loadMutant == "START" \in reg_cmd

load == "START" \in reg_cmd /\ (done \/ stopped)

RegWrite(wr) ==
  reg' = IF wr.reg \in Regs THEN [reg EXCEPT ![wr.reg] = wr.val] ELSE reg

CmdWrite(wr) ==
  reg_cmd' = IF wr.reg = "CMD" THEN wr.bits
             ELSE IF load THEN {} ELSE reg_cmd

HwReset ==
  /\ TimerReset
  /\ ProfileReset
  /\ reg' = [r \in Regs |-> 0]
  /\ reg_cmd' = {}
  /\ elapsed' = 0
  /\ applied' = 0
  /\ start' = [v |-> 0, a |-> 0, j |-> 0]

\* The three things a clock can do to the timer and the profile.
SegmentLoad ==
  /\ load
  /\ TimerLoad(reg["NEXT_DT"], reg["NEXT_STEPS"])
  /\ ProfileLoad("SET_V" \in reg_cmd, Signed(reg["NEXT_V"]),
                 "SET_A" \in reg_cmd, Signed(reg["NEXT_A"]),
                 "SET_J" \in reg_cmd, Signed(reg["NEXT_J"]))
  /\ elapsed' = 0
  /\ applied' = 0
  /\ start' = [v |-> v', a |-> a', j |-> j']

SegmentRun ==
  /\ ~load
  /\ TimerCount
  /\ IF step_stb THEN ProfileStep ELSE UNCHANGED profileVars
  /\ elapsed' = elapsed + 1
  /\ applied' = IF step_stb THEN applied + 1 ELSE applied
  /\ UNCHANGED start

SegmentRest ==
  /\ ~load
  /\ TimerHold
  /\ UNCHANGED <<profileVars, elapsed, applied, start>>

HwClock(wr) ==
  /\ RegWrite(wr)
  /\ CmdWrite(wr)
  /\ SegmentLoad \/ SegmentRun \/ SegmentRest

\* What a read of the command and of the status register returns: the
\* registers as they are, the second without a flop of its own.
CMD == reg_cmd

STATUS == stopped

HwNext == HwReset \/ \E wr \in BusWrites \cup {NoWrite} : HwClock(wr)

HwSpec == HwInit /\ [][HwNext]_hwVars
-----------------------------------------------------------------------------
(***************************************************************************)
(* Properties.                                                             *)
(***************************************************************************)

\* How many counts a limit stands for: a limit of 0 is a full turn.
Span(limit) == IF limit = 0 THEN M ELSE limit

SegmentClocks == Span(dt_limit) * Span(steps_limit)

(* A segment lasts exactly Span(dt_limit) * Span(steps_limit) clocks,      *)
(* whatever the bus writes meanwhile: done is up on the last of them and   *)
(* on no other, and the timer stops only when all have passed.             *)
SegmentLength ==
  /\ ~stopped => elapsed < SegmentClocks
  /\ done <=> (~stopped /\ elapsed = SegmentClocks - 1)
  /\ stopped => elapsed \in {0, SegmentClocks}

(* While a segment runs and after it, v, a and j are the quadratic,        *)
(* linear and constant functions of the number of increments applied since *)
(* the load, as acc_profile_gen computes them by repeated addition.        *)
Trajectory ==
  /\ j = start.j
  /\ a = Wrap(start.a + applied * start.j)
  /\ v = Wrap(start.v + applied * start.a
                      + ((applied * (applied - 1)) \div 2) * start.j)

(* A segment that runs out applies one increment of v per acceleration     *)
(* step.  On its last clock one is still due; the load of a chained        *)
(* segment happens on that clock and takes precedence, so a segment that   *)
(* is followed without a gap applies one increment less.                   *)
IncrementCount ==
  /\ stopped => applied \in {0, Span(steps_limit)}
  /\ done => applied = Span(steps_limit) - 1

(* A running segment is neither cut short nor retimed by anything but a    *)
(* reset: until its last clock a new command waits, and what the bus does  *)
(* to NEXT_DT and NEXT_STEPS does not reach it.                            *)
RunsToTheEnd ==
  [][(~stopped /\ elapsed < SegmentClocks - 1 /\ ~HwReset)
       => /\ elapsed' = elapsed + 1
          /\ UNCHANGED <<dt_limit, steps_limit>>]_hwVars
=============================================================================
