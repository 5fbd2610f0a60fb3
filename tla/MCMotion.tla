------------------------------ MODULE MCMotion ------------------------------
(***************************************************************************)
(* The two halves of the motion core, one to a behaviour: the command path *)
(* (part "command") with 3-bit words under an arbitrary bus, and the step  *)
(* path (part "step") with a position of three bits and steps on its bit   *)
(* 1, for a setting with a low phase of its own and for the proportions of *)
(* the driver's (100, 300, 100).                                           *)
(***************************************************************************)
EXTENDS CommandPath, StepPath

VARIABLE part

\* NEXT_DT, NEXT_STEPS (0: a full turn) and NEXT_V are 0 from the reset on.
MCBusWrites ==
  {Wr("NEXT_DT", 2), Wr("NEXT_STEPS", 3), Wr("NEXT_A", 1), Wr("NEXT_J", 7),
   WrCmd({}), WrCmd({"START"}), WrCmd({"START", "SET_V", "SET_A"}), WrCmd({"START", "SET_J"})}
MCVelocities == {-2, 0, 1}
MCXValues == {-3, 2}
MCTimings == {[pre_n |-> 2, pulse_n |-> 4, post_n |-> 5],
              [pre_n |-> 1, pulse_n |-> 3, post_n |-> 1]}

vars == <<part, hwVars, pathVars>>

Init == part \in {"command", "step"} /\ HwInit /\ StepInit

Next ==
  /\ UNCHANGED part
  /\ \/ part = "command" /\ HwNext /\ UNCHANGED pathVars
     \/ part = "step" /\ StepNext /\ UNCHANGED hwVars

Spec == Init /\ [][Next]_vars
=============================================================================
