------------------------------- MODULE Cmdline -------------------------------
(***************************************************************************)
(* The console of the boot loader (cmdline.c, driven by the main loop of   *)
(* main.c): a line buffer edited one received character at a time, with    *)
(* VT100 arrow keys, a history of lines and a table of commands.           *)
(*                                                                         *)
(* The line buffer is the code's array, stale characters and all: an       *)
(* entered line stays there, with length 0, for its command to take its    *)
(* arguments from.  term is what the user's terminal shows right of the    *)
(* prompt, by what the code sends to it.                                   *)
(***************************************************************************)
EXTENDS Integers, Sequences, FiniteSets, FiniteSetsExt

CONSTANTS
  Typed,            \* printable characters the user types, " " and "[" with them
  Commands,         \* the command names, in the order of their registration
  CMDLINE_BUFFERSIZE, CMDLINE_HISTORYSIZE

Blank == " "
Bracket == "["      \* the second character of a VT100 sequence

CmdlineAssumption ==
  /\ {Blank, Bracket} \subseteq Typed /\ "nul" \notin Typed
  /\ Commands \in Seq(Seq(Typed))
  /\ CMDLINE_BUFFERSIZE \in Nat /\ CMDLINE_BUFFERSIZE > 2
  /\ CMDLINE_HISTORYSIZE \in Nat \ {0}

VARIABLES
  buffer,           \* CmdlineBuffer
  length, editPos,  \* CmdlineBufferLength, CmdlineBufferEditPos
  vt100,            \* CmdlineInputVT100State
  history,          \* CmdlineHistory, each entry up to its null
  idx, cnt, copy,   \* CmdlineHistoryIdx, CmdlineHistoryCnt, CmdlineHistoryCopy
  exec,             \* CmdlineExecFunction: number of a command, 0 for none
  console,          \* the main loop is about to take input, or to execute
  term,             \* the terminal line: its text and the cursor's column
  entered           \* history: the line whose execution is due, if any

lineVars == <<buffer, length, editPos>>
historyVars == <<history, idx, cnt, copy>>
consoleVars == <<lineVars, vt100, historyVars, exec, console, term, entered>>

NUL == "nul"
Keys == {"CR", "DEL", "ESC"}
Arrows == {"A", "B", "C", "D"}      \* VT100_ARROWUP, DOWN, RIGHT, LEFT
Slots == 0 .. CMDLINE_BUFFERSIZE - 1
MaxLength == CMDLINE_BUFFERSIZE - 2

\* C strings in the buffer.
strlen(b) == Min({i \in Slots : b[i] = NUL})

Text(b, n) == [i \in 1 .. n |-> b[i - 1]]

strcpy(b, s) ==
  [i \in Slots |-> IF i < Len(s) THEN s[i + 1]
                   ELSE IF i = Len(s) THEN NUL ELSE b[i]]

\* The terminal: characters overwrite, a backspace only moves the cursor.
Put(t, c) ==
  [text |-> [i \in 1 .. (IF t.col < Len(t.text) THEN Len(t.text) ELSE t.col + 1)
               |-> IF i = t.col + 1 THEN c ELSE t.text[i]],
   col |-> t.col + 1]

Back(t, n) == [t EXCEPT !.col = @ - n]

\* A fresh prompt, the rest of the line cleared, and the line printed.
cmdlineRepaint(b, n) == [text |-> Text(b, n), col |-> n]

BlankLine == [text |-> <<>>, col |-> 0]

LineInit ==
  /\ buffer = [i \in Slots |-> NUL] /\ length = 0 /\ editPos = 0
  /\ vt100 = 0
  /\ history = [i \in 0 .. CMDLINE_HISTORYSIZE - 1 |-> <<>>]
  /\ idx = -1 /\ cnt = 0 /\ copy = FALSE
  /\ exec = 0 /\ console = "input" /\ term = BlankLine /\ entered = <<>>
-----------------------------------------------------------------------------
\* cmdlineInputFunc, case by case: the arrow keys.
ArrowRight ==
  /\ IF editPos < length
       THEN editPos' = editPos + 1 /\ term' = Back(term, -1)
       ELSE UNCHANGED <<editPos, term>>
  /\ UNCHANGED <<buffer, length, historyVars>>

ArrowLeft ==
  /\ IF editPos # 0
       THEN editPos' = editPos - 1 /\ term' = Back(term, 1)
       ELSE UNCHANGED <<editPos, term>>
  /\ UNCHANGED <<buffer, length, historyVars>>

\* cmdlineDoHistory for CMDLINE_HISTORY_PREV (by = 1) and NEXT (by = -1).
DoHistory(by) ==
  LET low == IF idx + by >= cnt - 1 THEN cnt - 1 ELSE idx + by
      new == IF low < 0 THEN 0 ELSE low
  IN /\ idx' = new
     /\ buffer' = strcpy(buffer, history[new])
     /\ length' = strlen(buffer')
     /\ editPos' = length'
     /\ term' = cmdlineRepaint(buffer', length')
     /\ copy' = FALSE
     /\ UNCHANGED <<history, cnt>>

Arrow(c) ==
  \/ c = "A" /\ DoHistory(1)
  \/ c = "B" /\ DoHistory(-1)
  \/ c = "C" /\ ArrowRight
  \/ c = "D" /\ ArrowLeft
  \/ c \notin Arrows /\ UNCHANGED <<lineVars, historyVars, term>>

\* A printable character: at the end of the line, or within it.
Append1(c) ==
  /\ term' = Put(term, c)
  /\ buffer' = [buffer EXCEPT ![editPos] = c]

\* A slip that shifts the tail without making room at the insert point.
Insert1Mutant(c) ==
  /\ buffer' = [buffer EXCEPT ![editPos] = c]
  /\ term' = Back(cmdlineRepaint(buffer', length + 1), length - editPos)

Insert1(c) ==
  /\ buffer' = [i \in Slots |-> IF i = editPos THEN c
                                ELSE IF i \in editPos + 1 .. length + 1
                                  THEN buffer[i - 1] ELSE buffer[i]]
  /\ term' = Back(cmdlineRepaint(buffer', length + 1), length - editPos)

\* A slip that lets the line fill the buffer, null included.
PrintableMutant(c) ==
  IF length < MaxLength + 1
    THEN /\ IF editPos = length THEN Append1(c) ELSE Insert1(c)
         /\ length' = length + 1 /\ editPos' = editPos + 1
         /\ copy' = TRUE
         /\ UNCHANGED <<history, idx, cnt>>
    ELSE UNCHANGED <<lineVars, historyVars, term>>

Printable(c) ==
  IF length < MaxLength
    THEN /\ IF editPos = length THEN Append1(c) ELSE Insert1(c)
         /\ length' = length + 1 /\ editPos' = editPos + 1
         /\ copy' = TRUE
         /\ UNCHANGED <<history, idx, cnt>>
    ELSE UNCHANGED <<lineVars, historyVars, term>>

\* A slip that leaves the last character of the old line on the screen.
DeleteMutant ==
  IF editPos # 0
    THEN /\ length' = length - 1 /\ editPos' = editPos - 1
         /\ buffer' = IF editPos = length THEN buffer
                      ELSE [i \in Slots |->
                              IF i \in editPos - 1 .. length - 2
                                THEN buffer[i + 1] ELSE buffer[i]]
         /\ term' = IF editPos = length THEN Back(term, 1)
                    ELSE Back(cmdlineRepaint(buffer', length'), length' - editPos')
         /\ UNCHANGED historyVars
    ELSE UNCHANGED <<lineVars, historyVars, term>>

Delete ==
  IF editPos # 0
    THEN /\ length' = length - 1 /\ editPos' = editPos - 1
         /\ buffer' = IF editPos = length THEN buffer
                      ELSE [i \in Slots |->
                              IF i \in editPos - 1 .. length - 2
                                THEN buffer[i + 1] ELSE buffer[i]]
         /\ term' = IF editPos = length THEN Back(Put(Back(term, 1), Blank), 1)
                    ELSE Back(Put(cmdlineRepaint(buffer', length'), Blank),
                              length' + 1 - editPos')
         /\ UNCHANGED historyVars
    ELSE UNCHANGED <<lineVars, historyVars, term>>

\* A slip that overwrites the second newest line when the history is full.
SaveHistoryMutant(line) ==
  IF line = <<>> THEN UNCHANGED <<history, cnt>>
  ELSE LET room == IF cnt >= CMDLINE_HISTORYSIZE
                     THEN CMDLINE_HISTORYSIZE - 1 ELSE cnt
           last == IF copy THEN room ELSE idx
       IN /\ history' = [k \in DOMAIN history |->
                           IF k = 0 THEN line
                           ELSE IF k < last THEN history[k - 1] ELSE history[k]]
          /\ cnt' = IF copy THEN room + 1 ELSE cnt

\* cmdlineDoHistory for CMDLINE_HISTORY_SAVE: a new line pushes the others
\* down, a recalled one moves to the front.
SaveHistory(line) ==
  IF line = <<>> THEN UNCHANGED <<history, cnt>>
  ELSE LET room == IF cnt >= CMDLINE_HISTORYSIZE
                     THEN CMDLINE_HISTORYSIZE - 1 ELSE cnt
           last == IF copy THEN room ELSE idx
       IN /\ history' = [k \in DOMAIN history |->
                           IF k = 0 THEN line
                           ELSE IF k <= last THEN history[k - 1] ELSE history[k]]
          /\ cnt' = IF copy THEN room + 1 ELSE cnt

\* The first registered command the line's first word is a prefix of; none
\* if the line starts with a space.
Lookup(line) ==
  LET n == Min({i \in 0 .. Len(line) : i = Len(line) \/ line[i + 1] = Blank})
      hits == {k \in DOMAIN Commands :
                 n <= Len(Commands[k])
                   /\ SubSeq(Commands[k], 1, n) = SubSeq(line, 1, n)}
  IN IF n = 0 \/ hits = {} THEN 0 ELSE Min(hits)

\* cmdlineGetArgStr: where argument n of the line starts, or its end.
SkipTo(b, i, stop) == Min({k \in i .. strlen(b) : k = strlen(b) \/ b[k] \in stop})

\* A slip that takes two blanks for an empty argument between them.
cmdlineGetArgStrMutant(b, n) ==
  LET arg[k \in 0 .. n] ==
        IF k = 0 THEN SkipTo(b, 0, Typed \ {Blank})
        ELSE LET blank == SkipTo(b, arg[k - 1], {Blank})
             IN IF blank = strlen(b) THEN blank ELSE blank + 1
  IN arg[n]

cmdlineGetArgStr(b, n) ==
  LET arg[k \in 0 .. n] ==
        IF k = 0 THEN SkipTo(b, 0, Typed \ {Blank})
        ELSE SkipTo(b, SkipTo(b, arg[k - 1], {Blank}), Typed \ {Blank})
  IN arg[n]

CarriageReturn ==
  /\ buffer' = [buffer EXCEPT ![length] = NUL]
  /\ LET line == Text(buffer', strlen(buffer'))
     IN /\ SaveHistory(line)
        /\ exec' = IF Lookup(line) = 0 THEN exec ELSE Lookup(line)
        /\ entered' = IF Lookup(line) = 0 THEN entered ELSE <<line>>
  /\ length' = 0 /\ editPos' = 0 /\ copy' = FALSE /\ idx' = -1
  /\ term' = BlankLine

Regular(c) ==
  \/ c \in Typed \cup Arrows /\ Printable(c) /\ UNCHANGED <<exec, entered>>
  \/ c = "CR" /\ CarriageReturn
  \/ c = "DEL" /\ Delete /\ UNCHANGED <<exec, entered>>
  \/ c = "ESC" /\ UNCHANGED <<lineVars, historyVars, term, exec, entered>>

cmdlineInputFunc(c) ==
  \/ vt100 = 2 /\ Arrow(c) /\ vt100' = 0 /\ UNCHANGED <<exec, entered>>
  \/ /\ vt100 = 1 /\ c = Bracket /\ vt100' = 2
     /\ UNCHANGED <<lineVars, historyVars, term, exec, entered>>
  \/ /\ vt100 = 0 \/ (vt100 = 1 /\ c # Bracket)
     /\ Regular(c)
     /\ vt100' = IF c = "ESC" THEN 1 ELSE 0

\* The command runs, the prompt is printed.
cmdlineMainLoop ==
  /\ exec' = 0 /\ entered' = <<>>
  /\ UNCHANGED <<lineVars, vt100, historyVars, term>>

\* The user: an arrow key is typed only as a VT100 sequence.
Received == Typed \cup Keys \cup (IF vt100 = 2 THEN Arrows ELSE {})

Input ==
  /\ console = "input"
  /\ \E c \in Received : cmdlineInputFunc(c)
  /\ console' = "execute"

NoCharacter ==
  /\ console = "input"
  /\ console' = "execute"
  /\ UNCHANGED <<lineVars, vt100, historyVars, exec, term, entered>>

MainLoop == console = "execute" /\ cmdlineMainLoop /\ console' = "input"

LineNext == Input \/ NoCharacter \/ MainLoop

\* The main loop never blocks.
LineSpec == LineInit /\ [][LineNext]_consoleVars /\ WF_consoleVars(NoCharacter) /\ WF_consoleVars(MainLoop)
-----------------------------------------------------------------------------
(***************************************************************************)
(* Properties.                                                             *)
(***************************************************************************)

Line == Text(buffer, length)

Memory == [k \in 1 .. cnt |-> history[k - 1]]

(* The indices of cmdlineInputFunc stay inside its arrays, and there is    *)
(* always room for the null the carriage return writes.                    *)
IndicesInArrays ==
  /\ buffer \in [Slots -> Typed \cup Arrows \cup {NUL}]
  /\ length \in 0 .. MaxLength /\ editPos \in 0 .. length
  /\ vt100 \in 0 .. 2
  /\ cnt \in 0 .. CMDLINE_HISTORYSIZE /\ copy \in BOOLEAN
  /\ idx \in -1 .. CMDLINE_HISTORYSIZE - 1
  /\ exec \in 0 .. Len(Commands)
  /\ \A k \in DOMAIN history : Len(history[k]) <= MaxLength

(* The terminal shows the line being edited, followed by nothing but       *)
(* blanks, with the cursor at the edit position: the echoes, backspaces    *)
(* and repaints that cmdlineInputFunc sends for each key add up.           *)
ScreenShowsLine ==
  /\ term.col = editPos
  /\ Len(term.text) >= length
  /\ \A i \in 1 .. Len(term.text) :
       term.text[i] = IF i <= length THEN Line[i] ELSE Blank

(* A command that is due finds in the buffer the very line it was entered  *)
(* with, although the line counts as empty again by then.                  *)
ArgumentsIntact ==
  exec # 0 => /\ entered = <<Text(buffer, strlen(buffer))>>
              /\ exec = Lookup(entered[1])

WordStarts(s) ==
  {i \in 1 .. Len(s) : s[i] # Blank /\ (i = 1 \/ s[i - 1] = Blank)}

(* A command that is due gets the words of its line, by their number and   *)
(* however many blanks part them: cmdlineGetArgStr finds the start of word *)
(* n, the one with n words before it, or the end of the line.              *)
ArgumentsFound ==
  exec # 0 =>
    \A n \in 0 .. MaxLength :
      LET starts == WordStarts(entered[1])
          nth == {i \in starts : Cardinality({k \in starts : k < i}) = n}
      IN cmdlineGetArgStr(buffer, n)
           = IF nth = {} THEN Len(entered[1]) ELSE Min(nth) - 1

Remembered(m) == {m[i] : i \in DOMAIN m}

(* Entering a line forgets no other, with two exceptions: the oldest, when *)
(* the history is full, and a recalled line that was shortened, which the  *)
(* shortened one replaces (deleting does not set CmdlineHistoryCopy).      *)
ForgetsRightly ==
  Memory' # Memory =>
    \A l \in Remembered(Memory) \ Remembered(Memory') :
      \/ copy /\ cnt = CMDLINE_HISTORYSIZE /\ l = Memory[cnt]
      \/ ~copy /\ idx >= 0 /\ l = history[idx] /\ length < Len(l)

(* Every step of cmdlineInputFunc forgets rightly (cmdlineDoHistory).      *)
HistoryKept == [][ForgetsRightly]_consoleVars

(* The console implements a plain line editor with a memory.               *)
Editor == INSTANCE LineEditor
            WITH Chars <- Typed, MaxLen <- MaxLength,
                 left <- SubSeq(Line, 1, editPos),
                 right <- SubSeq(Line, editPos + 1, length),
                 memory <- Memory

EditsLikeLineEditor == Editor!EditorSpec
=============================================================================
