------------------------------- MODULE MCLoader ------------------------------
(***************************************************************************)
(* What the boot loader talks to, one to a behaviour.  The motion core,    *)
(* through the stepper driver ("motion"): 2-bit words, a queue of two and  *)
(* two targets, one of one acceleration step (or none, if rounding is      *)
(* unlucky) and one too short for any.  Two consoles with two keys, one of *)
(* them the blank, and two commands, the second a prefix of the first: one *)
(* for lines of two characters and two lines of history ("deep"), one for  *)
(* lines of three and one line of history ("long").  And the card driver   *)
(* ("card") reading blocks on both sides of its address split.             *)
(***************************************************************************)
EXTENDS Steppers, Cmdline, Mmc

VARIABLES part, y1, y2, y3, y4, y5, y6, y7, y8, y9, y10, y11, y12

longVars == <<y1, y2, y3, y4, y5, y6, y7, y8, y9, y10, y11, y12>>

MCBusWrites == {}
MCTargets == {[x |-> 1, v |-> 1, dt |-> 100], [x |-> 2, v |-> 0, dt |-> 49]}
MCCoefs == {0, 1}
MCTyped == {" ", "["}
MCCommands == <<<<"[", "[">>, <<"[">>>>
MCBlocks == 0 .. 2

Long == INSTANCE Cmdline WITH
  CMDLINE_BUFFERSIZE <- 5, CMDLINE_HISTORYSIZE <- 1,
  buffer <- y1, length <- y2, editPos <- y3, vt100 <- y4, history <- y5, idx <- y6, cnt <- y7,
  copy <- y8, exec <- y9, console <- y10, term <- y11, entered <- y12

ASSUME CmdlineAssumption /\ Long!CmdlineAssumption /\ MmcAssumption

MCInit == Init /\ LineInit /\ Long!LineInit /\ MmcInit /\ part \in {"motion", "deep", "long", "card"}
MCNext == /\ UNCHANGED part
          /\ \/ part = "motion" /\ Next /\ UNCHANGED <<consoleVars, longVars, mmcVars>>
             \/ part = "deep" /\ LineNext /\ UNCHANGED <<vars, longVars, mmcVars>>
             \/ part = "long" /\ Long!LineNext /\ UNCHANGED <<vars, consoleVars, mmcVars>>
             \/ part = "card" /\ MmcNext /\ UNCHANGED <<vars, consoleVars, longVars>>

\* The clock never stops, the main loop never blocks, and the card answers or is given up.
MCSpec == /\ MCInit /\ [][MCNext]_<<part, vars, consoleVars, longVars, mmcVars>>
          /\ WF_vars(part = "motion" /\ Tick) /\ WF_vars(part = "motion" /\ Software)
          /\ WF_consoleVars(part = "deep" /\ (NoCharacter \/ MainLoop))
          /\ MmcFairness

(* A command that is due finds the line it was entered with, and           *)
(* cmdlineGetArgStr the words of it.                                       *)
ArgumentsOfLine == IF part = "long" THEN Long!ArgumentsIntact /\ Long!ArgumentsFound
                   ELSE ArgumentsIntact /\ ArgumentsFound
=============================================================================
