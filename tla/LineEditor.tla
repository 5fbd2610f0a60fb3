----------------------------- MODULE LineEditor -----------------------------
(***************************************************************************)
(* What a command line promises its user: a line of text with a cursor in  *)
(* it, a memory of earlier lines, and every line entered executed at most  *)
(* once, as it was entered, before the next character is looked at.        *)
(***************************************************************************)
EXTENDS Naturals, Sequences

CONSTANTS Chars,    \* the characters that can be typed
          MaxLen    \* the longest line

VARIABLES left, right,  \* the text before and after the cursor
          memory,       \* remembered lines, newest first
          entered       \* the line waiting for execution, if any: at most one

editorVars == <<left, right, memory, entered>>

EditorInit == left = <<>> /\ right = <<>> /\ memory = <<>> /\ entered = <<>>

\* Editing is over while a line waits for execution.
Editing == entered = <<>> /\ UNCHANGED <<memory, entered>>

Type(c) ==
  /\ Editing
  /\ Len(left) + Len(right) < MaxLen
  /\ left' = Append(left, c)
  /\ UNCHANGED right

Erase ==
  /\ Editing
  /\ left # <<>>
  /\ left' = SubSeq(left, 1, Len(left) - 1)
  /\ UNCHANGED right

MoveLeft ==
  /\ Editing
  /\ left # <<>>
  /\ left' = SubSeq(left, 1, Len(left) - 1)
  /\ right' = <<left[Len(left)]>> \o right

MoveRight ==
  /\ Editing
  /\ right # <<>>
  /\ left' = Append(left, Head(right))
  /\ right' = Tail(right)

\* The line becomes a remembered one, or empty if there is none.
Recall ==
  /\ Editing
  /\ left' \in {memory[i] : i \in 1 .. Len(memory)}
               \cup (IF memory = <<>> THEN {<<>>} ELSE {})
  /\ right' = <<>>

\* A line that is not empty is remembered as the newest; what else is
\* remembered was so before.
Enter ==
  /\ entered = <<>>
  /\ LET line == left \o right
     IN /\ IF line = <<>> THEN UNCHANGED memory
           ELSE /\ memory' # <<>>
                /\ memory'[1] = line
                /\ \A i \in 2 .. Len(memory') :
                     \E k \in 1 .. Len(memory) : memory'[i] = memory[k]
        /\ entered' \in {<<>>, <<line>>}
  /\ left' = <<>> /\ right' = <<>>

Execute ==
  /\ entered # <<>>
  /\ entered' = <<>>
  /\ UNCHANGED <<left, right, memory>>

EditorNext ==
  \/ (\E c \in Chars : Type(c)) \/ Erase \/ MoveLeft \/ MoveRight
  \/ Recall \/ Enter \/ Execute

EditorSpec == EditorInit /\ [][EditorNext]_editorVars /\ WF_editorVars(Execute)
=============================================================================
