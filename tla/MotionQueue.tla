----------------------------- MODULE MotionQueue -----------------------------
(***************************************************************************)
(* What the motion system promises its user: the accepted targets run one  *)
(* at a time, in the order of their submission, each exactly once, and a   *)
(* reset forgets all of them.                                              *)
(***************************************************************************)
EXTENDS Naturals, Sequences

CONSTANTS Targets,  \* the moves a user may ask for
          Capacity  \* how many may wait

VARIABLES pending,  \* accepted targets that have not begun, oldest first
          running   \* the target being executed, as a sequence of at most one

queueVars == <<pending, running>>

QueueInit == pending = <<>> /\ running = <<>>

Submit(t) ==
  /\ Len(pending) < Capacity
  /\ pending' = Append(pending, t)
  /\ UNCHANGED running

\* The oldest target begins, directly after the one before it or from rest.
Begin ==
  /\ pending # <<>>
  /\ running' = <<Head(pending)>>
  /\ pending' = Tail(pending)

Finish ==
  /\ running # <<>>
  /\ running' = <<>>
  /\ UNCHANGED pending

Flush == pending' = <<>> /\ running' = <<>>

QueueNext == (\E t \in Targets : Submit(t)) \/ Begin \/ Finish \/ Flush

QueueSpec == QueueInit /\ [][QueueNext]_queueVars
                       /\ WF_queueVars(Begin \/ Finish)
=============================================================================
