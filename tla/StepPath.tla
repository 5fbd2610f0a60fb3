------------------------------ MODULE StepPath ------------------------------
(***************************************************************************)
(* The step path of the motion core: the position half of the profile      *)
(* generator (acc_profile_gen.v), the pulse shaper and the counter of      *)
(* missed steps (user_logic.v), stepped by one clock.                      *)
(*                                                                         *)
(* The position x moves by v on every clock, also while no segment runs.   *)
(* A step is strobed when bit step_bit of x toggles.  What the velocity is *)
(* on a clock, and whether a load sets the position, comes from the        *)
(* command path; here both are arbitrary inputs.  The driver writes the    *)
(* shaper's three points and step_bit while the axis rests, so they never  *)
(* change.                                                                 *)
(*                                                                         *)
(* The pulse shaper (motor_step_gen.v): a step strobe that finds it idle   *)
(* latches the direction and starts the count.  The step line is low until *)
(* the count reaches pre_n, high until it reaches pulse_n and low again    *)
(* until it reaches post_n: the three are points on one scale, not         *)
(* lengths.  A strobe that finds it busy is dropped and reported on        *)
(* missed.                                                                 *)
(***************************************************************************)
EXTENDS Words

CONSTANTS
  XHalf,            \* half the number of values of x: 2^63 in the code
  Weight,           \* 2^step_bit: the value of the bit whose toggle is a step
  Velocities,       \* the values v takes
  XValues,          \* the values a load may set x to
  Timings           \* the settings of pre_n, pulse_n and post_n

XWord == (-XHalf) .. (XHalf - 1)

\* The number of step positions on the circle of x.
Turn == (2 * XHalf) \div Weight

ASSUME StepAssumption ==
  /\ XHalf \in Nat \ {0} /\ Weight \in Nat \ {0}
  /\ (2 * XHalf) % (2 * Weight) = 0
  /\ Velocities \subseteq SWord /\ Velocities \subseteq (-Weight) .. Weight
  /\ XValues \subseteq XWord
  /\ Timings \subseteq [pre_n : Word, pulse_n : Word, post_n : Word]
  /\ \A t \in Timings : t.pre_n < t.pulse_n /\ t.pulse_n > 1

VARIABLES cnt, S_Step, S_Dir, missed

motorVars == <<cnt, S_Step, S_Dir, missed>>

MotorTypeOK ==
  /\ cnt \in Word
  /\ S_Step \in BOOLEAN
  /\ S_Dir \in BOOLEAN
  /\ missed \in BOOLEAN

MotorInit == cnt = 0 /\ S_Step = FALSE /\ S_Dir = FALSE /\ missed = FALSE

MotorReset == cnt' = 0 /\ S_Step' = FALSE /\ S_Dir' = FALSE /\ missed' = FALSE

MotorIdle(step_stb, step_dir) ==
  /\ cnt = 0
  /\ cnt' = IF step_stb THEN 1 ELSE 0
  /\ S_Dir' = IF step_stb THEN step_dir ELSE S_Dir
  /\ S_Step' = FALSE
  /\ missed' = FALSE

\* A slip that lets a strobe turn the direction line of a running pulse.
MotorBusyMutant(pre_n, pulse_n, post_n, step_stb, step_dir) ==
  /\ cnt # 0
  /\ cnt' = IF cnt < pre_n \/ cnt < pulse_n \/ cnt < post_n
              THEN (cnt + 1) % M ELSE 0
  /\ S_Step' = (~(cnt < pre_n) /\ cnt < pulse_n)
  /\ missed' = step_stb
  /\ S_Dir' = IF step_stb THEN step_dir ELSE S_Dir

\* A slip that takes the three points for lengths and goes idle too early.
MotorShortMutant(pre_n, pulse_n, post_n, step_stb, step_dir) ==
  /\ cnt # 0
  /\ cnt' = IF cnt < pre_n \/ cnt < pulse_n - 1 THEN (cnt + 1) % M ELSE 0
  /\ S_Step' = (~(cnt < pre_n) /\ cnt < pulse_n - 1)
  /\ missed' = step_stb
  /\ UNCHANGED S_Dir

\* A slip that forgets to report a strobe dropped while the line is high.
MotorDropMutant(pre_n, pulse_n, post_n, step_stb, step_dir) ==
  /\ cnt # 0
  /\ cnt' = IF cnt < pre_n \/ cnt < pulse_n \/ cnt < post_n
              THEN (cnt + 1) % M ELSE 0
  /\ S_Step' = (~(cnt < pre_n) /\ cnt < pulse_n)
  /\ missed' = (step_stb /\ ~S_Step')
  /\ UNCHANGED S_Dir

MotorBusy(pre_n, pulse_n, post_n, step_stb, step_dir) ==
  /\ cnt # 0
  /\ cnt' = IF cnt < pre_n \/ cnt < pulse_n \/ cnt < post_n
              THEN (cnt + 1) % M ELSE 0
  /\ S_Step' = (~(cnt < pre_n) /\ cnt < pulse_n)
  /\ missed' = step_stb
  /\ UNCHANGED S_Dir
-----------------------------------------------------------------------------
VARIABLES
  timing,           \* the setting of the shaper
  x, step, dir,     \* position, step strobe and its direction
  stat_missed_steps,
  base,             \* history: step position where counting started
  tally,            \* history: signed count of strobes, on the circle
  shaft,            \* history: signed count of pulses, on the circle
  lost,             \* history: signed count of dropped strobes, on the circle
  rejected,         \* history: strobes dropped since the counter was cleared
  sinceDir,         \* history: clocks S_Dir has been stable, up to M
  sincePulse,       \* history: clocks S_Step has been low, up to M
  high              \* history: clocks S_Step has been high

stepVars == <<motorVars, timing, x, step, dir, stat_missed_steps>>
histVars == <<base, tally, shaft, lost, rejected, sinceDir, sincePulse, high>>
pathVars == <<stepVars, histVars>>

XWrap(n) == ((n + XHalf) % (2 * XHalf)) - XHalf

StepBit(n) == (n \div Weight) % 2

Position(n) == (n \div Weight) % Turn

Sign(d) == IF d THEN 1 ELSE -1

StepTypeOK ==
  /\ MotorTypeOK
  /\ x \in XWord /\ step \in BOOLEAN /\ dir \in BOOLEAN
  /\ stat_missed_steps \in Word
  /\ {base, tally, shaft, lost} \subseteq 0 .. Turn - 1
  /\ rejected \in Word /\ {sinceDir, sincePulse, high} \subseteq 0 .. M

HistInit ==
  /\ base = 0 /\ tally = 0 /\ shaft = 0 /\ lost = 0 /\ rejected = 0
  /\ sinceDir = M /\ sincePulse = M /\ high = 0

StepInit ==
  /\ MotorInit /\ timing \in Timings
  /\ x = 0 /\ step = FALSE /\ dir = FALSE /\ stat_missed_steps = 0
  /\ HistInit

StepReset ==
  /\ MotorReset
  /\ x' = 0 /\ step' = FALSE /\ dir' = FALSE /\ stat_missed_steps' = 0
  /\ base' = 0 /\ tally' = 0 /\ shaft' = 0 /\ lost' = 0 /\ rejected' = 0
  /\ sinceDir' = M /\ sincePulse' = M /\ high' = 0

\* A load that sets the position: no step is strobed for the jump.
SetPosition(x_val) == x' = x_val /\ step' = FALSE /\ dir' = FALSE

\* A slip that takes the slowest forward motion for backward motion.
MoveMutant(vel) ==
  /\ x' = XWrap(x + vel)
  /\ step' = (StepBit(x) # StepBit(x'))
  /\ dir' = IF step' THEN vel > 1 ELSE dir

Move(vel) ==
  /\ x' = XWrap(x + vel)
  /\ step' = (StepBit(x) # StepBit(x'))
  /\ dir' = IF step' THEN vel > 0 ELSE dir

CountMissed(clear) ==
  stat_missed_steps' = IF clear THEN 0
                       ELSE IF missed THEN (stat_missed_steps + 1) % M
                       ELSE stat_missed_steps

Shape == \/ MotorIdle(step, dir)
         \/ MotorBusy(timing.pre_n, timing.pulse_n, timing.post_n, step, dir)

\* A strobe that the shaper finds itself too busy to take.
Dropped == step /\ cnt # 0

Capped(n) == IF n < M THEN n ELSE M

History(clear) ==
  /\ tally' = IF step' THEN (tally + Sign(dir')) % Turn ELSE tally
  /\ shaft' = IF ~S_Step /\ S_Step' THEN (shaft + Sign(S_Dir')) % Turn
              ELSE shaft
  /\ lost' = IF Dropped THEN (lost + Sign(dir)) % Turn ELSE lost
  /\ rejected' = ((IF clear THEN 0 ELSE rejected)
                   + (IF Dropped THEN 1 ELSE 0)) % M
  /\ sinceDir' = IF S_Dir' # S_Dir THEN 0 ELSE Capped(sinceDir + 1)
  /\ sincePulse' = IF S_Step' THEN 0 ELSE Capped(sincePulse + 1)
  /\ high' = IF S_Step' THEN high + 1 ELSE 0

StepClock(vel, clear) ==
  /\ Move(vel)
  /\ Shape
  /\ CountMissed(clear)
  /\ History(clear)
  /\ UNCHANGED base

StepLoad(x_val, clear) ==
  /\ SetPosition(x_val)
  /\ Shape
  /\ CountMissed(clear)
  /\ History(clear)
  /\ base' = (Position(x_val) - tally) % Turn

StepNext ==
  /\ UNCHANGED timing
  /\ \/ StepReset
     \/ \E clear \in BOOLEAN :
          \/ \E vel \in Velocities : StepClock(vel, clear)
          \/ \E x_val \in XValues : StepLoad(x_val, clear)

StepSpec == StepInit /\ [][StepNext]_pathVars
-----------------------------------------------------------------------------
(***************************************************************************)
(* Properties.                                                             *)
(***************************************************************************)

Rise == IF timing.pre_n > 1 THEN timing.pre_n ELSE 1        \* the count that starts the pulse

(* The strobes of acc_profile_gen are exactly the motion of x: added up    *)
(* with their direction they give the step position of x, through every    *)
(* change of velocity and direction and across the wrap of x.              *)
StrobesFollowPosition == (base + tally) % Turn = Position(x)

\* A strobe not yet seen by the shaper, and a pulse not yet begun.
InFlight == (IF step THEN Sign(dir) ELSE 0)
            + (IF cnt > 0 /\ cnt <= Rise /\ ~S_Step THEN Sign(S_Dir) ELSE 0)

(* Every strobe becomes exactly one pulse of the motor in the strobe's own *)
(* direction, or is dropped: motor_step_gen neither invents, repeats nor   *)
(* turns around a step.                                                    *)
ShaftFollowsStrobes == tally = (shaft + lost + InFlight) % Turn

(* stat_missed_steps counts the dropped strobes since it was last cleared; *)
(* a miss reported on the very clock of the clear belongs to the past.     *)
MissedStepsCounted ==
  rejected = (stat_missed_steps + (IF missed THEN 1 ELSE 0)) % M

(* The timing the motor is promised, except across a reset: its direction  *)
(* line is stable for the pre_n count before the step line rises and all   *)
(* the while it is high; a pulse is high for pulse_n - pre_n clocks; and   *)
(* the direction turns only when the step line has been low for post_n -   *)
(* pulse_n clocks or, where post_n is not beyond pulse_n as in the         *)
(* driver's setting, one clock.                                            *)
HoldTime == IF timing.post_n > timing.pulse_n THEN timing.post_n - timing.pulse_n + 1 ELSE 1
DirSetup == S_Step' => sinceDir' >= Rise
DirHold == S_Dir' # S_Dir => ~S_Step /\ ~S_Step' /\ sincePulse >= HoldTime
PulseWidth == S_Step /\ ~S_Step' => high = timing.pulse_n - Rise
PulseTiming == [][StepReset \/ (DirSetup /\ DirHold /\ PulseWidth)]_pathVars
==============================================================================
