---------------------------- MODULE CmdlineProofs ----------------------------
(***************************************************************************)
(* Proofs about the console, for every size of its line buffer and of its  *)
(* history, every set of characters and every table of commands: the       *)
(* indices stay in the arrays, the terminal shows the line, and a command  *)
(* gets the line it was entered with.  All three follow from LineInv: no   *)
(* key keeps the display true unless the buffer, the length and the cursor *)
(* agree before it, and the arrow keys also need what a recalled line is.  *)
(***************************************************************************)
EXTENDS Cmdline, WellFoundedInduction, TLAPS

Chars == Typed \cup Arrows

\* Buffer b holds a line of n characters, edited at p, and terminal t shows it.
Displays(b, n, p, t) ==
  /\ b \in [Slots -> Chars \cup {NUL}]
  /\ n \in 0 .. MaxLength /\ p \in 0 .. n
  /\ \A i \in 0 .. n - 1 : b[i] \in Chars
  /\ t \in [text : Seq(Chars), col : Nat] /\ t.col = p /\ Len(t.text) >= n
  /\ \A i \in 1 .. Len(t.text) :
       t.text[i] = IF i <= n THEN b[i - 1] ELSE Blank

Shown == Displays(buffer, length, editPos, term)

\* The history, and what of it the line was recalled from.  A line that is
\* not marked as a copy is empty, or the recalled one, or a shortened form.
Recalled ==
  /\ history \in [0 .. CMDLINE_HISTORYSIZE - 1 -> Seq(Chars)]
  /\ \A k \in 0 .. CMDLINE_HISTORYSIZE - 1 : Len(history[k]) <= MaxLength
  /\ cnt \in 0 .. CMDLINE_HISTORYSIZE /\ copy \in BOOLEAN
  /\ idx \in -1 .. CMDLINE_HISTORYSIZE - 1
  /\ idx < cnt \/ (idx = 0 /\ cnt = 0)
  /\ cnt = 0 => history[0] = <<>>
  /\ ~copy /\ idx = -1 => length = 0
  /\ ~copy /\ idx # -1 =>
       /\ length <= Len(history[idx])
       /\ length = Len(history[idx]) => Line = history[idx]

\* The command that is due: none while the main loop takes input.
Due ==
  /\ vt100 \in 0 .. 2 /\ console \in {"input", "execute"}
  /\ exec \in 0 .. Len(Commands)
  /\ exec = 0 <=> entered = <<>>
  /\ console = "input" => exec = 0
  /\ ArgumentsIntact

LineInv == Shown /\ Recalled /\ Due
-----------------------------------------------------------------------------
(* Strings.                                                                *)

(* The length of a sequence is a natural number.                           *)
LEMMA SeqLen == ASSUME NEW S, NEW s \in Seq(S) PROVE Len(s) \in Nat
  OBVIOUS

(* Sequences of the same length and elements are the same.                 *)
LEMMA SameSeq ==
  ASSUME NEW S, NEW s \in Seq(S), NEW t \in Seq(S), Len(s) = Len(t),
         \A i \in 1 .. Len(s) : s[i] = t[i]
  PROVE  s = t
  OBVIOUS

(* The sizes the array bounds of cmdline.c are made of.                    *)
LEMMA Sizes ==
  ASSUME CmdlineAssumption
  PROVE  /\ CMDLINE_BUFFERSIZE \in Nat /\ CMDLINE_HISTORYSIZE \in Nat
         /\ CMDLINE_HISTORYSIZE > 0
         /\ MaxLength \in Nat /\ MaxLength = CMDLINE_BUFFERSIZE - 2
         /\ Slots = 0 .. MaxLength + 1
         /\ \A i \in Slots : i \in Nat
         /\ Blank \in Chars /\ NUL \notin Chars
<1>1. /\ CMDLINE_BUFFERSIZE \in Nat /\ CMDLINE_BUFFERSIZE > 2
      /\ CMDLINE_HISTORYSIZE \in Nat /\ CMDLINE_HISTORYSIZE > 0
      /\ Blank \in Typed /\ NUL \notin Typed
  BY DEF CmdlineAssumption, NUL
<1>2. /\ MaxLength \in Nat /\ MaxLength = CMDLINE_BUFFERSIZE - 2
      /\ Slots = 0 .. MaxLength + 1
  BY <1>1 DEF MaxLength, Slots
<1>3. Blank \in Chars /\ NUL \notin Chars
  BY <1>1 DEF Chars, Arrows, NUL
<1> QED
  BY <1>1, <1>2, <1>3

(* strlen finds the first null.                                            *)
LEMMA StrlenIs ==
  ASSUME CmdlineAssumption, NEW b, NEW n \in Slots, b[n] = NUL,
         \A i \in 0 .. n - 1 : b[i] # NUL
  PROVE  strlen(b) = n
<1> DEFINE S == {i \in Slots : b[i] = NUL}
<1>1. \A i \in Slots : i \in Nat
  BY Sizes
<1>2. n \in S /\ \A y \in S : n <= y
  BY <1>1
<1>3. \A x \in S : (\A y \in S : x <= y) => x = n
  BY <1>1, <1>2
<1> HIDE DEF S
<1>4. Min(S) = n
  BY <1>2, <1>3 DEF Min
<1> QED
  BY <1>4 DEF strlen, S

(* The first n characters of the buffer, as a string.                      *)
LEMMA TextIs ==
  ASSUME NEW b, NEW n \in Nat, \A i \in 0 .. n - 1 : b[i] \in Chars
  PROVE  /\ Text(b, n) \in Seq(Chars) /\ Len(Text(b, n)) = n
         /\ \A i \in 1 .. n : Text(b, n)[i] = b[i - 1]
<1>1. \A i \in 1 .. n : b[i - 1] \in Chars
  OBVIOUS
<1> QED
  BY <1>1 DEF Text

(* strcpy of a string that fits, with its null.                            *)
LEMMA StrcpyIs ==
  ASSUME CmdlineAssumption, NEW b \in [Slots -> Chars \cup {NUL}],
         NEW s \in Seq(Chars), Len(s) <= MaxLength
  PROVE  /\ strcpy(b, s) \in [Slots -> Chars \cup {NUL}]
         /\ \A i \in 0 .. Len(s) - 1 : strcpy(b, s)[i] = s[i + 1]
         /\ \A i \in 0 .. Len(s) - 1 : strcpy(b, s)[i] \in Chars
         /\ strlen(strcpy(b, s)) = Len(s)
         /\ Text(strcpy(b, s), Len(s)) = s
<1> DEFINE c == strcpy(b, s)
<1>0. Len(s) \in Nat /\ MaxLength \in Nat /\ Slots = 0 .. MaxLength + 1 /\ NUL \notin Chars
  BY SeqLen, Sizes
<1>1. \A i \in 0 .. Len(s) - 1 : i + 1 \in 1 .. Len(s) /\ s[i + 1] \in Chars
  BY <1>0
<1>2. \A i \in Slots : c[i] = IF i < Len(s) THEN s[i + 1]
                              ELSE IF i = Len(s) THEN NUL ELSE b[i]
  BY DEF strcpy
<1>3. /\ \A i \in 0 .. Len(s) - 1 : c[i] = s[i + 1] /\ c[i] \in Chars
      /\ Len(s) \in Slots /\ c[Len(s)] = NUL
  BY <1>0, <1>1, <1>2
<1>4. \A i \in Slots : c[i] \in Chars \cup {NUL}
  BY <1>0, <1>1, <1>2
<1>5. c \in [Slots -> Chars \cup {NUL}]
  BY <1>4 DEF strcpy
<1> HIDE DEF c
<1>6. strlen(c) = Len(s)
  BY <1>0, <1>3, StrlenIs
<1>7. /\ Text(c, Len(s)) \in Seq(Chars) /\ Len(Text(c, Len(s))) = Len(s)
      /\ \A i \in 1 .. Len(s) : Text(c, Len(s))[i] = c[i - 1]
  BY <1>0, <1>3, TextIs
<1>8. \A i \in 1 .. Len(s) : c[i - 1] = s[i]
  BY <1>0, <1>3
<1>9. Text(c, Len(s)) = s
  BY <1>7, <1>8, SameSeq
<1> QED
  BY <1>3, <1>5, <1>6, <1>9 DEF c

(* A set of numbers that is not empty has a least element, which Min is.   *)
LEMMA MinIs ==
  ASSUME NEW S, S \subseteq Nat, S # {}
  PROVE  Min(S) \in S
<1> DEFINE R == {p \in Nat \X Nat : p[1] < p[2]}
<1>1. IsWellFoundedOn(R, Nat)
  BY NatLessThanWellFounded DEF OpToRel
<1> HIDE DEF R
<1>2. \E x \in S : \A y \in S : ~(<<y, x>> \in R)
  BY <1>1, WFMin, Zenon
<1>3. PICK x \in S : \A y \in S : ~(<<y, x>> \in R)
  BY <1>2
<1>4. \A y \in S : x <= y
  <2> SUFFICES ASSUME NEW y \in S PROVE x <= y
    OBVIOUS
  <2>1. x \in Nat /\ y \in Nat
    OBVIOUS
  <2>2. y < x => <<y, x>> \in R
    BY <2>1 DEF R
  <2> QED BY <1>3, <2>1, <2>2
<1> QED
  BY <1>3, <1>4, Zenon DEF Min

(* The command found for a line is one of the table, or none.              *)
LEMMA LookupIs ==
  ASSUME CmdlineAssumption, NEW line
  PROVE  Lookup(line) \in 0 .. Len(Commands)
<1> DEFINE n == Min({i \in 0 .. Len(line) : i = Len(line) \/ line[i + 1] = Blank})
           hits == {k \in DOMAIN Commands :
                      n <= Len(Commands[k])
                        /\ SubSeq(Commands[k], 1, n) = SubSeq(line, 1, n)}
<1>1. Lookup(line) = IF n = 0 \/ hits = {} THEN 0 ELSE Min(hits)
  BY DEF Lookup
<1>2. Len(Commands) \in Nat /\ DOMAIN Commands = 1 .. Len(Commands)
  <2>1. Commands \in Seq(Seq(Typed))
    BY DEF CmdlineAssumption
  <2> QED BY <2>1
<1>3. \A k \in hits : k \in DOMAIN Commands
  OBVIOUS
<1> HIDE DEF n, hits
<1>4. \A k \in hits : k \in 1 .. Len(Commands) /\ k \in Nat
  BY <1>2, <1>3
<1>5. hits # {} => Min(hits) \in hits
  <2>1. hits \subseteq Nat
    BY <1>4
  <2> QED BY <2>1, MinIs, Zenon
<1> QED
  BY <1>1, <1>2, <1>4, <1>5
-----------------------------------------------------------------------------
(* The terminal, key by key.                                               *)

(* What a line of the buffer is, as numbers and characters.                *)
LEMMA LineIs ==
  ASSUME CmdlineAssumption, NEW b, NEW n, NEW p, NEW t, Displays(b, n, p, t)
  PROVE  /\ n \in Nat /\ p \in Nat /\ p <= n /\ n <= MaxLength
         /\ MaxLength \in Nat /\ Slots = 0 .. MaxLength + 1
         /\ Text(b, n) \in Seq(Chars) /\ Len(Text(b, n)) = n
         /\ \A i \in 1 .. n : Text(b, n)[i] = b[i - 1]
         /\ t.text \in Seq(Chars) /\ t.col = p /\ Len(t.text) \in Nat
<1>1. /\ n \in Nat /\ p \in Nat /\ p <= n /\ n <= MaxLength
      /\ MaxLength \in Nat /\ Slots = 0 .. MaxLength + 1
  BY Sizes DEF Displays
<1>2. t.text \in Seq(Chars) /\ t.col = p
  BY DEF Displays
<1>3. \A i \in 0 .. n - 1 : b[i] \in Chars
  BY DEF Displays
<1>4. /\ Text(b, n) \in Seq(Chars) /\ Len(Text(b, n)) = n
      /\ \A i \in 1 .. n : Text(b, n)[i] = b[i - 1]
  BY <1>1, <1>3, TextIs
<1> QED
  BY <1>1, <1>2, <1>4, SeqLen

(* A terminal that shows the line and the cursor satisfies the property.   *)
LEMMA ShownIs ==
  ASSUME CmdlineAssumption, Shown
  PROVE  ScreenShowsLine
<1>1. /\ length \in Nat /\ Len(term.text) \in Nat
      /\ \A i \in 1 .. length : Line[i] = buffer[i - 1]
  BY LineIs DEF Shown, Line
<1>2. /\ term.col = editPos /\ Len(term.text) >= length
      /\ \A i \in 1 .. Len(term.text) :
           term.text[i] = IF i <= length THEN buffer[i - 1] ELSE Blank
  BY DEF Shown, Displays
<1> QED
  BY <1>1, <1>2 DEF ScreenShowsLine

(* The cursor moves and the text stays.                                    *)
LEMMA BackIs ==
  ASSUME NEW t \in [text : Seq(Chars), col : Nat], NEW n \in Int, t.col - n \in Nat
  PROVE  /\ Back(t, n) \in [text : Seq(Chars), col : Nat]
         /\ Back(t, n).text = t.text /\ Back(t, n).col = t.col - n
  BY DEF Back

(* A character is written at the cursor.                                   *)
LEMMA PutIs ==
  ASSUME NEW t \in [text : Seq(Chars), col : Nat], t.col <= Len(t.text), NEW c \in Chars
  PROVE  /\ Put(t, c) \in [text : Seq(Chars), col : Nat]
         /\ Put(t, c).col = t.col + 1
         /\ Len(Put(t, c).text) = IF t.col < Len(t.text) THEN Len(t.text) ELSE t.col + 1
         /\ \A i \in 1 .. Len(Put(t, c).text) :
              Put(t, c).text[i] = IF i = t.col + 1 THEN c ELSE t.text[i]
<1> DEFINE s == t.text
           n == IF t.col < Len(s) THEN Len(s) ELSE t.col + 1
           w == [i \in 1 .. n |-> IF i = t.col + 1 THEN c ELSE s[i]]
<1>1. s \in Seq(Chars) /\ Len(s) \in Nat /\ t.col \in Nat
  BY SeqLen
<1>2. n \in Nat /\ \A i \in 1 .. n : i = t.col + 1 \/ i \in 1 .. Len(s)
  BY <1>1
<1>3. \A i \in 1 .. Len(s) : s[i] \in Chars
  BY <1>1
<1>4. Put(t, c) = [text |-> w, col |-> t.col + 1]
  BY DEF Put
<1>5. \A i \in 1 .. n : w[i] \in Chars
  BY <1>2, <1>3
<1>6. w \in Seq(Chars) /\ Len(w) = n
  BY <1>2, <1>5
<1>7. \A i \in 1 .. n : w[i] = IF i = t.col + 1 THEN c ELSE s[i]
  OBVIOUS
<1> HIDE DEF w
<1> QED
  BY <1>1, <1>4, <1>6, <1>7

(* cmdlineRepaint puts the line on a fresh prompt.                         *)
LEMMA RepaintIs ==
  ASSUME NEW b, NEW n \in Nat, \A i \in 0 .. n - 1 : b[i] \in Chars
  PROVE  /\ cmdlineRepaint(b, n) \in [text : Seq(Chars), col : Nat]
         /\ Len(cmdlineRepaint(b, n).text) = n /\ cmdlineRepaint(b, n).col = n
         /\ \A i \in 1 .. n : cmdlineRepaint(b, n).text[i] = b[i - 1]
<1>1. /\ Text(b, n) \in Seq(Chars) /\ Len(Text(b, n)) = n
      /\ \A i \in 1 .. n : Text(b, n)[i] = b[i - 1]
  BY TextIs
<1> QED
  BY <1>1 DEF cmdlineRepaint

(* The cursor moves within the line.                                       *)
LEMMA MovedShown ==
  ASSUME CmdlineAssumption, NEW b, NEW n, NEW p, NEW t, Displays(b, n, p, t),
         NEW q \in 0 .. n
  PROVE  Displays(b, n, q, Back(t, p - q))
<1>1. n \in Nat /\ p \in Nat /\ t.col = p /\ t \in [text : Seq(Chars), col : Nat]
  BY LineIs DEF Displays
<1>a. p - q \in Int /\ t.col - (p - q) \in Nat /\ q \in 0 .. n
  BY <1>1
<1>2. /\ Back(t, p - q) \in [text : Seq(Chars), col : Nat]
      /\ Back(t, p - q).text = t.text /\ Back(t, p - q).col = t.col - (p - q)
  BY <1>1, <1>a, BackIs, Zenon
<1>3. Back(t, p - q).col = q
  BY <1>1, <1>2
<1> QED
  BY <1>2, <1>3 DEF Displays

(* A character typed at the end of the line is echoed.                     *)
LEMMA AppendedShown ==
  ASSUME CmdlineAssumption, NEW b, NEW n, NEW t, Displays(b, n, n, t),
         n < MaxLength, NEW c \in Chars
  PROVE  Displays([b EXCEPT ![n] = c], n + 1, n + 1, Put(t, c))
<1> DEFINE d == [b EXCEPT ![n] = c]
           u == Put(t, c)
<1>1. /\ n \in Nat /\ MaxLength \in Nat /\ Slots = 0 .. MaxLength + 1
      /\ t.text \in Seq(Chars) /\ t.col = n /\ Len(t.text) \in Nat /\ Len(t.text) >= n
      /\ t \in [text : Seq(Chars), col : Nat]
  BY LineIs, Zenon DEF Displays
<1>2. /\ u \in [text : Seq(Chars), col : Nat] /\ u.col = n + 1
      /\ Len(u.text) = IF n < Len(t.text) THEN Len(t.text) ELSE n + 1
      /\ \A i \in 1 .. Len(u.text) : u.text[i] = IF i = n + 1 THEN c ELSE t.text[i]
  <2>1. t.col <= Len(t.text)
    BY <1>1
  <2>2. /\ u \in [text : Seq(Chars), col : Nat] /\ u.col = t.col + 1
        /\ Len(u.text) = IF t.col < Len(t.text) THEN Len(t.text) ELSE t.col + 1
        /\ \A i \in 1 .. Len(u.text) :
             u.text[i] = IF i = t.col + 1 THEN c ELSE t.text[i]
    BY <1>1, <2>1, PutIs, Zenon
  <2> QED BY <1>1, <2>2
<1>3. /\ d \in [Slots -> Chars \cup {NUL}] /\ d[n] = c
      /\ \A i \in Slots : i # n => d[i] = b[i]
  BY <1>1 DEF Displays
<1> HIDE DEF d, u
<1>4. \A i \in 0 .. n : d[i] \in Chars /\ (i # n => d[i] = b[i])
  BY <1>1, <1>3 DEF Displays
<1>5. Len(u.text) \in Nat /\ Len(u.text) >= n + 1
  BY <1>1, <1>2
<1>6. ASSUME NEW i \in 1 .. Len(u.text)
      PROVE  u.text[i] = IF i <= n + 1 THEN d[i - 1] ELSE Blank
  <2>1. CASE i = n + 1
    BY <1>1, <1>2, <1>3, <2>1
  <2>2. CASE i # n + 1
    <3>1. i \in 1 .. Len(t.text) /\ u.text[i] = t.text[i]
      BY <1>1, <1>2, <1>5, <2>2
    <3>2. t.text[i] = IF i <= n THEN b[i - 1] ELSE Blank
      BY <3>1 DEF Displays
    <3>3. i <= n => d[i - 1] = b[i - 1]
      BY <1>1, <1>4, <3>1
    <3> QED BY <1>1, <2>2, <3>1, <3>2, <3>3
  <2> QED BY <2>1, <2>2
<1>7. /\ n + 1 \in 0 .. MaxLength /\ n + 1 \in 0 .. n + 1
      /\ \A i \in 0 .. (n + 1) - 1 : d[i] \in Chars
  BY <1>1, <1>4
<1>8. Displays(d, n + 1, n + 1, u)
  BY <1>2, <1>3, <1>5, <1>6, <1>7 DEF Displays
<1> QED
  BY <1>8 DEF d, u

(* cmdlineRepaint shows whatever line is in the buffer.                    *)
LEMMA PaintedShown ==
  ASSUME CmdlineAssumption, NEW b \in [Slots -> Chars \cup {NUL}],
         NEW n \in 0 .. MaxLength, \A i \in 0 .. n - 1 : b[i] \in Chars
  PROVE  Displays(b, n, n, cmdlineRepaint(b, n))
<1>1. MaxLength \in Nat /\ n \in Nat
  BY Sizes
<1>2. /\ cmdlineRepaint(b, n) \in [text : Seq(Chars), col : Nat]
      /\ Len(cmdlineRepaint(b, n).text) = n /\ cmdlineRepaint(b, n).col = n
      /\ \A i \in 1 .. n : cmdlineRepaint(b, n).text[i] = b[i - 1]
  BY <1>1, RepaintIs
<1> QED
  BY <1>1, <1>2 DEF Displays

(* The buffer after a character is inserted before its line's end: the     *)
(* rest has moved up by one.                                               *)
LEMMA InsertedIs ==
  ASSUME CmdlineAssumption, NEW b, NEW n, NEW p, NEW t, Displays(b, n, p, t),
         p # n, n < MaxLength, NEW c \in Chars, NEW d,
         d = [i \in Slots |-> IF i = p THEN c
                              ELSE IF i \in p + 1 .. n + 1 THEN b[i - 1] ELSE b[i]]
  PROVE  /\ d \in [Slots -> Chars \cup {NUL}]
         /\ \A i \in 0 .. n : d[i] \in Chars
         /\ d[p] = c
         /\ \A i \in 0 .. p - 1 : d[i] = b[i]
         /\ \A i \in p + 1 .. n : d[i] = b[i - 1]
<1>1. /\ n \in Nat /\ p \in Nat /\ p < n /\ MaxLength \in Nat /\ Slots = 0 .. MaxLength + 1
      /\ n < MaxLength
  BY LineIs
<1>2. /\ b \in [Slots -> Chars \cup {NUL}]
      /\ \A i \in 0 .. n - 1 : b[i] \in Chars
  BY DEF Displays
<1>3. \A i \in Slots : d[i] = IF i = p THEN c
                              ELSE IF i \in p + 1 .. n + 1 THEN b[i - 1] ELSE b[i]
  OBVIOUS
<1>4. \A i \in p + 1 .. n + 1 : i \in Slots /\ i - 1 \in Slots
  BY <1>1
<1>5. \A i \in Slots : b[i] \in Chars \cup {NUL}
  BY <1>2
<1>6. \A i \in Slots : d[i] \in Chars \cup {NUL}
  BY <1>3, <1>4, <1>5
<1>7. d \in [Slots -> Chars \cup {NUL}]
  BY <1>6
<1>8. /\ d[p] = c
      /\ \A i \in 0 .. p - 1 : d[i] = b[i]
      /\ \A i \in p + 1 .. n : d[i] = b[i - 1]
  BY <1>1, <1>3
<1>9. ASSUME NEW i \in 0 .. n PROVE d[i] \in Chars
  <2>1. CASE i \in 0 .. p - 1
    BY <1>1, <1>2, <1>8, <2>1
  <2>2. CASE i \in p + 1 .. n
    BY <1>1, <1>2, <1>8, <2>2
  <2> QED BY <1>1, <1>8, <2>1, <2>2
<1> QED
  BY <1>7, <1>8, <1>9

(* ... and the line is repainted, the cursor after the character.          *)
LEMMA InsertedShown ==
  ASSUME CmdlineAssumption, NEW b, NEW n, NEW p, NEW t, Displays(b, n, p, t),
         p # n, n < MaxLength, NEW c \in Chars, NEW d,
         d = [i \in Slots |-> IF i = p THEN c
                              ELSE IF i \in p + 1 .. n + 1 THEN b[i - 1] ELSE b[i]]
  PROVE  Displays(d, n + 1, p + 1, Back(cmdlineRepaint(d, n + 1), n - p))
<1>1. /\ n \in Nat /\ p \in Nat /\ p <= n /\ MaxLength \in Nat
  BY LineIs
<1>2. d \in [Slots -> Chars \cup {NUL}] /\ \A i \in 0 .. n : d[i] \in Chars
  BY InsertedIs
<1>3. n + 1 \in 0 .. MaxLength /\ (n + 1) - 1 = n
  BY <1>1
<1>4. Displays(d, n + 1, n + 1, cmdlineRepaint(d, n + 1))
  BY <1>2, <1>3, PaintedShown
<1>5. p + 1 \in 0 .. n + 1 /\ (n + 1) - (p + 1) = n - p
  BY <1>1
<1>6. Displays(d, n + 1, p + 1, Back(cmdlineRepaint(d, n + 1), (n + 1) - (p + 1)))
  BY <1>4, <1>5, MovedShown
<1> QED
  BY <1>5, <1>6

(* A blank put over the character just left of the cursor, and the cursor  *)
(* back on it: the line is shorter by its last character.                  *)
LEMMA DeletedShown ==
  ASSUME CmdlineAssumption, NEW b, NEW n, NEW t, Displays(b, n, n, t), n # 0
  PROVE  Displays(b, n - 1, n - 1, Back(Put(Back(t, 1), Blank), 1))
<1> DEFINE u == Back(t, 1)
           v == Put(u, Blank)
           w == Back(v, 1)
<1>1. /\ n \in Nat /\ n - 1 \in Nat /\ MaxLength \in Nat /\ n <= MaxLength /\ Blank \in Chars
      /\ t.text \in Seq(Chars) /\ t.col = n /\ Len(t.text) \in Nat /\ Len(t.text) >= n
      /\ t \in [text : Seq(Chars), col : Nat]
      /\ \A i \in 1 .. Len(t.text) : t.text[i] = IF i <= n THEN b[i - 1] ELSE Blank
  <2>1. /\ n \in Nat /\ MaxLength \in Nat /\ n <= MaxLength /\ Blank \in Chars
        /\ t.text \in Seq(Chars) /\ t.col = n /\ Len(t.text) \in Nat /\ Len(t.text) >= n
        /\ t \in [text : Seq(Chars), col : Nat]
        /\ \A i \in 1 .. Len(t.text) : t.text[i] = IF i <= n THEN b[i - 1] ELSE Blank
    BY LineIs, Sizes, Zenon DEF Displays
  <2>2. n - 1 \in Nat
    BY <2>1
  <2> QED BY <2>1, <2>2, Zenon
<1>2. u \in [text : Seq(Chars), col : Nat] /\ u.text = t.text /\ u.col = n - 1
  <2>1. 1 \in Int /\ t.col - 1 \in Nat
    BY <1>1
  <2> QED BY <1>1, <2>1, BackIs, Zenon
<1> HIDE DEF u
<1>3. /\ v \in [text : Seq(Chars), col : Nat] /\ v.col = n
      /\ Len(v.text) = Len(t.text)
      /\ \A i \in 1 .. Len(v.text) : v.text[i] = IF i = n THEN Blank ELSE t.text[i]
  <2>1. u.col <= Len(u.text) /\ u.col < Len(u.text) /\ u.col + 1 = n
    BY <1>1, <1>2
  <2>2. /\ v \in [text : Seq(Chars), col : Nat] /\ v.col = u.col + 1
        /\ Len(v.text) = IF u.col < Len(u.text) THEN Len(u.text) ELSE u.col + 1
        /\ \A i \in 1 .. Len(v.text) :
             v.text[i] = IF i = u.col + 1 THEN Blank ELSE u.text[i]
    BY <1>1, <1>2, <2>1, PutIs, Zenon
  <2> QED BY <1>2, <2>1, <2>2
<1> HIDE DEF v
<1>4. w \in [text : Seq(Chars), col : Nat] /\ w.text = v.text /\ w.col = n - 1
  <2>1. 1 \in Int /\ v.col - 1 \in Nat
    BY <1>1, <1>3
  <2> QED BY <1>3, <2>1, BackIs, Zenon
<1> HIDE DEF w
<1>5. ASSUME NEW i \in 1 .. Len(w.text)
      PROVE  w.text[i] = IF i <= n - 1 THEN b[i - 1] ELSE Blank
  BY <1>1, <1>3, <1>4
<1>6. /\ n - 1 \in 0 .. MaxLength /\ n - 1 \in 0 .. n - 1 /\ Len(w.text) >= n - 1
      /\ \A i \in 0 .. (n - 1) - 1 : i \in 0 .. n - 1
  BY <1>1, <1>3, <1>4
<1>7. Displays(b, n - 1, n - 1, w)
  BY <1>4, <1>5, <1>6 DEF Displays
<1> QED
  BY <1>7 DEF u, v, w

(* The buffer after a character before its line's end is deleted: the rest *)
(* has moved down by one.                                                  *)
LEMMA RemovedIs ==
  ASSUME CmdlineAssumption, NEW b, NEW n, NEW p, NEW t, Displays(b, n, p, t),
         p # n, p # 0, NEW d,
         d = [i \in Slots |-> IF i \in p - 1 .. n - 2 THEN b[i + 1] ELSE b[i]]
  PROVE  /\ d \in [Slots -> Chars \cup {NUL}]
         /\ \A i \in 0 .. n - 2 : d[i] \in Chars
         /\ \A i \in 0 .. p - 2 : d[i] = b[i]
         /\ \A i \in p - 1 .. n - 2 : d[i] = b[i + 1]
<1>1. /\ n \in Nat /\ p \in Nat /\ 0 < p /\ p < n
      /\ MaxLength \in Nat /\ Slots = 0 .. MaxLength + 1 /\ n <= MaxLength
  BY LineIs
<1>2. /\ b \in [Slots -> Chars \cup {NUL}]
      /\ \A i \in 0 .. n - 1 : b[i] \in Chars
  BY DEF Displays
<1>3. \A i \in Slots : d[i] = IF i \in p - 1 .. n - 2 THEN b[i + 1] ELSE b[i]
  OBVIOUS
<1>4. \A i \in p - 1 .. n - 2 : i \in Slots /\ i + 1 \in Slots
  BY <1>1
<1>5. \A i \in Slots : b[i] \in Chars \cup {NUL}
  BY <1>2
<1>6. \A i \in Slots : d[i] \in Chars \cup {NUL}
  BY <1>3, <1>4, <1>5
<1>7. d \in [Slots -> Chars \cup {NUL}]
  BY <1>6
<1>8. /\ \A i \in 0 .. p - 2 : d[i] = b[i]
      /\ \A i \in p - 1 .. n - 2 : d[i] = b[i + 1]
  BY <1>1, <1>3
<1>9. ASSUME NEW i \in 0 .. n - 2 PROVE d[i] \in Chars
  <2>1. CASE i \in 0 .. p - 2
    BY <1>1, <1>2, <1>8, <2>1
  <2>2. CASE i \in p - 1 .. n - 2
    BY <1>1, <1>2, <1>8, <2>2
  <2> QED BY <1>1, <2>1, <2>2
<1> QED
  BY <1>7, <1>8, <1>9

(* ... and the line is repainted with a blank after it, the cursor where   *)
(* the character was.                                                      *)
LEMMA RemovedShown ==
  ASSUME CmdlineAssumption, NEW b, NEW n, NEW p, NEW t, Displays(b, n, p, t),
         p # n, p # 0,
         NEW d \in [Slots -> Chars \cup {NUL}], \A i \in 0 .. n - 2 : d[i] \in Chars
  PROVE  Displays(d, n - 1, p - 1,
                  Back(Put(cmdlineRepaint(d, n - 1), Blank), ((n - 1) + 1) - (p - 1)))
<1> DEFINE u == cmdlineRepaint(d, n - 1)
           v == Put(u, Blank)
           w == Back(v, ((n - 1) + 1) - (p - 1))
<1>1. /\ n \in Nat /\ n - 1 \in Nat /\ p - 1 \in Nat /\ p - 1 <= n - 1 /\ MaxLength \in Nat
      /\ n - 1 <= MaxLength /\ Blank \in Chars /\ p \in Nat
  <2>1. /\ n \in Nat /\ p \in Nat /\ p <= n /\ MaxLength \in Nat /\ n <= MaxLength
        /\ Blank \in Chars
    BY LineIs, Sizes, Zenon
  <2> QED BY <2>1
<1>3. /\ u \in [text : Seq(Chars), col : Nat]
      /\ Len(u.text) = n - 1 /\ u.col = n - 1
      /\ \A i \in 1 .. n - 1 : u.text[i] = d[i - 1]
  <2>1. n - 1 \in 0 .. MaxLength /\ \A i \in 0 .. (n - 1) - 1 : d[i] \in Chars
    BY <1>1
  <2>2. Displays(d, n - 1, n - 1, u)
    BY <2>1, PaintedShown
  <2>3. u.text = Text(d, n - 1) /\ u.col = n - 1
    BY DEF cmdlineRepaint
  <2>4. u \in [text : Seq(Chars), col : Nat]
    BY <2>2 DEF Displays
  <2>5. Len(Text(d, n - 1)) = n - 1 /\ \A i \in 1 .. n - 1 : Text(d, n - 1)[i] = d[i - 1]
    BY <2>2, LineIs
  <2> QED BY <2>3, <2>4, <2>5
<1> HIDE DEF u
<1>4. /\ v \in [text : Seq(Chars), col : Nat] /\ v.col = n
      /\ Len(v.text) = n
      /\ \A i \in 1 .. n : v.text[i] = IF i = n THEN Blank ELSE u.text[i]
  <2>1. u.col <= Len(u.text) /\ ~(u.col < Len(u.text)) /\ u.col + 1 = n
    BY <1>1, <1>3
  <2>2. /\ v \in [text : Seq(Chars), col : Nat] /\ v.col = u.col + 1
        /\ Len(v.text) = IF u.col < Len(u.text) THEN Len(u.text) ELSE u.col + 1
        /\ \A i \in 1 .. Len(v.text) :
             v.text[i] = IF i = u.col + 1 THEN Blank ELSE u.text[i]
    BY <1>1, <1>3, <2>1, PutIs, Zenon
  <2> QED BY <2>1, <2>2
<1> HIDE DEF v
<1>5. w \in [text : Seq(Chars), col : Nat] /\ w.text = v.text /\ w.col = p - 1
  <2>1. /\ ((n - 1) + 1) - (p - 1) \in Int
        /\ v.col - (((n - 1) + 1) - (p - 1)) = p - 1
    BY <1>1, <1>4
  <2> QED BY <1>1, <1>4, <2>1, BackIs, Zenon
<1> HIDE DEF w
<1>6. ASSUME NEW i \in 1 .. Len(w.text)
      PROVE  w.text[i] = IF i <= n - 1 THEN d[i - 1] ELSE Blank
  <2>1. i \in 1 .. n /\ w.text[i] = IF i = n THEN Blank ELSE u.text[i]
    BY <1>4, <1>5
  <2>2. (i <= n - 1 <=> i # n) /\ (i # n => i \in 1 .. n - 1)
    BY <1>1, <2>1
  <2> QED BY <1>3, <2>1, <2>2, Zenon
<1>7. /\ n - 1 \in 0 .. MaxLength /\ p - 1 \in 0 .. n - 1 /\ Len(w.text) >= n - 1
      /\ \A i \in 0 .. (n - 1) - 1 : d[i] \in Chars
  BY <1>1, <1>4, <1>5
<1>8. Displays(d, n - 1, p - 1, w)
  BY <1>5, <1>6, <1>7 DEF Displays
<1> QED
  BY <1>8 DEF u, v, w

(* After a carriage return the line is empty, and so is the terminal's.    *)
LEMMA BlankShown ==
  ASSUME CmdlineAssumption, NEW b \in [Slots -> Chars \cup {NUL}]
  PROVE  Displays(b, 0, 0, BlankLine)
<1>1. MaxLength \in Nat
  BY Sizes
<1> QED
  BY <1>1 DEF Displays, BlankLine
-----------------------------------------------------------------------------
(* The keys of cmdlineInputFunc keep the line shown and the history whole. *)

(* The history as it was, and the line too.                                *)
LEMMA RecalledKept ==
  ASSUME Recalled, UNCHANGED historyVars, UNCHANGED <<buffer, length>>
  PROVE  Recalled'
  BY DEF Recalled, historyVars, Line, Text

(* A line that is typed into is a copy.                                    *)
LEMMA RecalledCopied ==
  ASSUME Recalled, UNCHANGED <<history, idx, cnt>>, copy' = TRUE
  PROVE  Recalled'
  BY DEF Recalled

(* A line that is shortened equals none it was recalled from.              *)
LEMMA RecalledShortened ==
  ASSUME CmdlineAssumption, Recalled, UNCHANGED historyVars,
         length \in Nat \ {0}, length' = length - 1
  PROVE  Recalled'
<1>1. /\ history' = history /\ cnt' = cnt /\ copy' = copy /\ idx' = idx
  BY DEF historyVars
<1>2. ~copy => idx # -1
  BY DEF Recalled
<1>3. ~copy => /\ idx \in 0 .. CMDLINE_HISTORYSIZE - 1
               /\ Len(history[idx]) \in Nat /\ length <= Len(history[idx])
  BY <1>2, Sizes DEF Recalled
<1>4. ~copy => length' <= Len(history[idx]) /\ length' # Len(history[idx])
  BY <1>3
<1> QED
  BY <1>1, <1>2, <1>4 DEF Recalled

(* The cursor keys move the cursor and nothing else.                       *)
LEMMA CursorKept ==
  ASSUME CmdlineAssumption, Shown, Recalled, ArrowRight \/ ArrowLeft
  PROVE  Shown' /\ Recalled'
<1>1. length \in Nat /\ editPos \in Nat /\ editPos <= length
  BY LineIs DEF Shown
<1>2. UNCHANGED <<buffer, length>> /\ UNCHANGED historyVars
  BY DEF ArrowRight, ArrowLeft
<1>3. Recalled'
  BY <1>2, RecalledKept
<1>4. editPos' \in 0 .. length
  BY <1>1 DEF ArrowRight, ArrowLeft
<1>5. CASE term' = Back(term, editPos - editPos')
  <2>1. Displays(buffer, length, editPos', term')
    BY <1>4, <1>5, MovedShown DEF Shown
  <2> QED BY <1>2, <1>3, <2>1 DEF Shown
<1>6. CASE UNCHANGED <<editPos, term>>
  BY <1>2, <1>3, <1>6 DEF Shown
<1>7. term' = Back(term, editPos - editPos') \/ UNCHANGED <<editPos, term>>
  BY <1>1 DEF ArrowRight, ArrowLeft
<1> QED
  BY <1>3, <1>5, <1>6, <1>7

(* cmdlineDoHistory recalls a line that is in the history: the index it    *)
(* moves to is that of a remembered line, or 0 when there is none.         *)
LEMMA HistoryIndex ==
  ASSUME CmdlineAssumption, Shown, Recalled, NEW by \in {1, -1}, DoHistory(by)
  PROVE  /\ idx' \in 0 .. CMDLINE_HISTORYSIZE - 1
         /\ idx' < cnt \/ (idx' = 0 /\ cnt = 0)
         /\ history[idx'] \in Seq(Chars) /\ Len(history[idx']) <= MaxLength
         /\ buffer' = strcpy(buffer, history[idx']) /\ length' = Len(history[idx'])
         /\ Text(buffer', length') = history[idx']
<1>1. /\ CMDLINE_HISTORYSIZE \in Nat /\ CMDLINE_HISTORYSIZE > 0
      /\ cnt \in 0 .. CMDLINE_HISTORYSIZE /\ idx \in -1 .. CMDLINE_HISTORYSIZE - 1
  BY Sizes DEF Recalled
<1> DEFINE low == IF idx + by >= cnt - 1 THEN cnt - 1 ELSE idx + by
<1>2. idx' = IF low < 0 THEN 0 ELSE low
  BY DEF DoHistory
<1>3. by \in Int /\ cnt \in Int /\ idx \in Int
  BY <1>1
<1>4. low \in Int /\ low <= cnt - 1
  BY <1>3
<1> HIDE DEF low
<1>5. /\ idx' \in 0 .. CMDLINE_HISTORYSIZE - 1
      /\ idx' < cnt \/ (idx' = 0 /\ cnt = 0)
  BY <1>1, <1>2, <1>4
<1>6. history[idx'] \in Seq(Chars) /\ Len(history[idx']) <= MaxLength
  BY <1>5 DEF Recalled
<1>7. /\ buffer' = strcpy(buffer, history[idx']) /\ length' = strlen(buffer')
  BY DEF DoHistory
<1>8. buffer \in [Slots -> Chars \cup {NUL}]
  BY DEF Shown, Displays
<1>9. /\ strlen(buffer') = Len(history[idx'])
      /\ Text(buffer', Len(history[idx'])) = history[idx']
  BY <1>6, <1>7, <1>8, StrcpyIs
<1> QED
  BY <1>5, <1>6, <1>7, <1>9

(* The recalled line is the line, and is painted.                          *)
LEMMA HistoryShown ==
  ASSUME CmdlineAssumption, Shown, Recalled, NEW by \in {1, -1}, DoHistory(by)
  PROVE  Shown' /\ Recalled'
<1>1. /\ idx' \in 0 .. CMDLINE_HISTORYSIZE - 1
      /\ idx' < cnt \/ (idx' = 0 /\ cnt = 0)
      /\ history[idx'] \in Seq(Chars) /\ Len(history[idx']) <= MaxLength
      /\ buffer' = strcpy(buffer, history[idx']) /\ length' = Len(history[idx'])
      /\ Text(buffer', length') = history[idx']
  BY HistoryIndex
<1>2. /\ editPos' = length' /\ term' = cmdlineRepaint(buffer', length')
      /\ copy' = FALSE /\ history' = history /\ cnt' = cnt
  BY DEF DoHistory
<1>3. buffer \in [Slots -> Chars \cup {NUL}]
  BY DEF Shown, Displays
<1>4. /\ buffer' \in [Slots -> Chars \cup {NUL}]
      /\ \A i \in 0 .. length' - 1 : buffer'[i] \in Chars
  BY <1>1, <1>3, StrcpyIs
<1>5. length' \in 0 .. MaxLength
  BY <1>1, SeqLen, Sizes
<1>6. Displays(buffer', length', length', cmdlineRepaint(buffer', length'))
  BY <1>4, <1>5, PaintedShown, Zenon
<1>7. Shown'
  BY <1>2, <1>6 DEF Shown
<1>8. idx' # -1 /\ length' <= Len(history[idx']) /\ Line' = history[idx']
  <2>1. idx' # -1
    BY <1>1, Sizes
  <2>2. length' <= Len(history[idx'])
    BY <1>1, <1>5, Sizes
  <2> QED BY <1>1, <2>1, <2>2 DEF Line
<1>9. idx' \in -1 .. CMDLINE_HISTORYSIZE - 1
  BY <1>1, Sizes
<1>10. Recalled'
  BY <1>1, <1>2, <1>8, <1>9, Zenon DEF Recalled
<1> QED
  BY <1>7, <1>10

(* A printable character goes to the end of the line or into it, unless    *)
(* the buffer is full.                                                     *)
LEMMA PrintableKept ==
  ASSUME CmdlineAssumption, Shown, Recalled, NEW c \in Chars, Printable(c)
  PROVE  Shown' /\ Recalled'
<1>1. CASE length < MaxLength
  <2>1. /\ IF editPos = length THEN Append1(c) ELSE Insert1(c)
        /\ length' = length + 1 /\ editPos' = editPos + 1
        /\ copy' = TRUE /\ UNCHANGED <<history, idx, cnt>>
    BY <1>1 DEF Printable
  <2>2. Recalled'
    BY <2>1, RecalledCopied
  <2>3. CASE editPos = length
    <3>1. buffer' = [buffer EXCEPT ![length] = c] /\ term' = Put(term, c)
      BY <2>1, <2>3 DEF Append1
    <3>2. Displays([buffer EXCEPT ![length] = c], length + 1, length + 1, Put(term, c))
      BY <1>1, <2>3, AppendedShown DEF Shown
    <3> QED BY <2>1, <2>2, <2>3, <3>1, <3>2 DEF Shown
  <2>4. CASE editPos # length
    <3>1. /\ buffer' = [i \in Slots |-> IF i = editPos THEN c
                                        ELSE IF i \in editPos + 1 .. length + 1
                                          THEN buffer[i - 1] ELSE buffer[i]]
          /\ term' = Back(cmdlineRepaint(buffer', length + 1), length - editPos)
      BY <2>1, <2>4 DEF Insert1
    <3>2. Displays(buffer', length + 1, editPos + 1,
                   Back(cmdlineRepaint(buffer', length + 1), length - editPos))
      BY <1>1, <2>4, <3>1, InsertedShown DEF Shown
    <3> QED BY <2>1, <2>2, <3>1, <3>2 DEF Shown
  <2> QED BY <2>3, <2>4
<1>2. CASE ~(length < MaxLength)
  <2>1. UNCHANGED <<lineVars, historyVars, term>>
    BY <1>2 DEF Printable
  <2>2. Recalled'
    BY <2>1, RecalledKept DEF lineVars
  <2> QED BY <2>1, <2>2 DEF Shown, lineVars
<1> QED
  BY <1>1, <1>2

(* Delete takes the character left of the cursor, if there is one.         *)
LEMMA DeleteKept ==
  ASSUME CmdlineAssumption, Shown, Recalled, Delete
  PROVE  Shown' /\ Recalled'
<1>1. CASE editPos # 0
  <2>1. /\ length' = length - 1 /\ editPos' = editPos - 1
        /\ UNCHANGED historyVars
        /\ buffer' = IF editPos = length THEN buffer
                     ELSE [i \in Slots |-> IF i \in editPos - 1 .. length - 2
                                             THEN buffer[i + 1] ELSE buffer[i]]
        /\ term' = IF editPos = length THEN Back(Put(Back(term, 1), Blank), 1)
                   ELSE Back(Put(cmdlineRepaint(buffer', length'), Blank),
                             length' + 1 - editPos')
    BY <1>1 DEF Delete
  <2>2. length \in Nat /\ editPos \in Nat /\ editPos <= length
    BY LineIs DEF Shown
  <2>3. length \in Nat \ {0}
    BY <1>1, <2>2
  <2>4. Recalled'
    BY <2>1, <2>3, RecalledShortened
  <2>5. CASE editPos = length
    <3>1. Displays(buffer, length - 1, length - 1, Back(Put(Back(term, 1), Blank), 1))
      BY <1>1, <2>5, DeletedShown DEF Shown
    <3> QED BY <2>1, <2>4, <2>5, <3>1 DEF Shown
  <2>6. CASE editPos # length
    <3>1. /\ buffer' = [i \in Slots |-> IF i \in editPos - 1 .. length - 2
                                          THEN buffer[i + 1] ELSE buffer[i]]
          /\ term' = Back(Put(cmdlineRepaint(buffer', length - 1), Blank),
                          ((length - 1) + 1) - (editPos - 1))
      <4>1. term' = Back(Put(cmdlineRepaint(buffer', length'), Blank),
                         length' + 1 - editPos')
        BY <2>1, <2>6, Zenon
      <4>2. length' = length - 1 /\ editPos' = editPos - 1
        BY <2>1
      <4>3. term' = Back(Put(cmdlineRepaint(buffer', length - 1), Blank),
                         ((length - 1) + 1) - (editPos - 1))
        BY <4>1, <4>2
      <4>4. buffer' = [i \in Slots |-> IF i \in editPos - 1 .. length - 2
                                          THEN buffer[i + 1] ELSE buffer[i]]
        BY <2>1, <2>6, Zenon
      <4> QED BY <4>3, <4>4, Zenon
    <3>2. /\ buffer' \in [Slots -> Chars \cup {NUL}]
          /\ \A i \in 0 .. length - 2 : buffer'[i] \in Chars
      BY <1>1, <2>6, <3>1, RemovedIs DEF Shown
    <3>3. Displays(buffer', length - 1, editPos - 1,
                   Back(Put(cmdlineRepaint(buffer', length - 1), Blank),
                        ((length - 1) + 1) - (editPos - 1)))
      BY <1>1, <2>6, <3>2, RemovedShown DEF Shown
    <3> QED BY <2>1, <2>4, <3>1, <3>3 DEF Shown
  <2> QED BY <2>5, <2>6
<1>2. CASE editPos = 0
  <2>1. UNCHANGED <<lineVars, historyVars, term>>
    BY <1>2 DEF Delete
  <2>2. Recalled'
    BY <2>1, RecalledKept DEF lineVars
  <2> QED BY <2>1, <2>2 DEF Shown, lineVars
<1> QED
  BY <1>1, <1>2

(* A carriage return ends the line with a null: the string in the buffer   *)
(* is the line as it was edited.                                           *)
LEMMA EnteredLine ==
  ASSUME CmdlineAssumption, Shown, CarriageReturn
  PROVE  /\ buffer' \in [Slots -> Chars \cup {NUL}]
         /\ Text(buffer', strlen(buffer')) = Line
         /\ Line \in Seq(Chars) /\ Len(Line) = length /\ length \in 0 .. MaxLength
<1>1. /\ length \in Nat /\ length <= MaxLength /\ MaxLength \in Nat
      /\ Slots = 0 .. MaxLength + 1 /\ NUL \notin Chars
      /\ Line \in Seq(Chars) /\ Len(Line) = length
      /\ \A i \in 1 .. length : Line[i] = buffer[i - 1]
  BY LineIs, Sizes DEF Shown, Line
<1>2. /\ buffer \in [Slots -> Chars \cup {NUL}]
      /\ \A i \in 0 .. length - 1 : buffer[i] \in Chars
  BY DEF Shown, Displays
<1>3. buffer' = [buffer EXCEPT ![length] = NUL]
  BY DEF CarriageReturn
<1>4. /\ buffer' \in [Slots -> Chars \cup {NUL}] /\ buffer'[length] = NUL
      /\ \A i \in 0 .. length - 1 : buffer'[i] = buffer[i]
  BY <1>1, <1>2, <1>3
<1>5. length \in Slots /\ \A i \in 0 .. length - 1 : buffer'[i] # NUL /\ buffer'[i] \in Chars
  BY <1>1, <1>2, <1>4
<1>6. strlen(buffer') = length
  BY <1>4, <1>5, StrlenIs
<1>7. /\ Text(buffer', length) \in Seq(Chars) /\ Len(Text(buffer', length)) = length
      /\ \A i \in 1 .. length : Text(buffer', length)[i] = buffer'[i - 1]
  BY <1>1, <1>5, TextIs
<1>8. \A i \in 1 .. length : buffer'[i - 1] = buffer[i - 1]
  BY <1>1, <1>4
<1>9. Text(buffer', length) = Line
  <2>1. /\ Text(buffer', length) \in Seq(Chars) /\ Line \in Seq(Chars)
        /\ Len(Text(buffer', length)) = Len(Line)
        /\ \A i \in 1 .. Len(Text(buffer', length)) : Text(buffer', length)[i] = Line[i]
    BY <1>1, <1>7, <1>8
  <2> QED BY <2>1, SameSeq
<1> QED
  BY <1>1, <1>4, <1>6, <1>9

(* Where cmdlineDoHistory saves a line: it moves the entries up to last    *)
(* down by one.                                                            *)
LEMMA SaveIndex ==
  ASSUME CmdlineAssumption, Shown, Recalled, Line # <<>>, Len(Line) = length,
         Line \in Seq(Chars), SaveHistory(Line)
  PROVE  \E last \in 0 .. CMDLINE_HISTORYSIZE - 1 :
           /\ history' = [k \in 0 .. CMDLINE_HISTORYSIZE - 1 |->
                            IF k = 0 THEN Line
                            ELSE IF k <= last THEN history[k - 1] ELSE history[k]]
           /\ cnt' \in 1 .. CMDLINE_HISTORYSIZE
           /\ copy => /\ cnt' = last + 1
                      /\ cnt' = cnt + 1 \/ (cnt = CMDLINE_HISTORYSIZE /\ cnt' = cnt)
           /\ ~copy => last = idx /\ last < cnt /\ cnt' = cnt
<1> DEFINE room == IF cnt >= CMDLINE_HISTORYSIZE THEN CMDLINE_HISTORYSIZE - 1 ELSE cnt
           last == IF copy THEN room ELSE idx
<1>1. /\ CMDLINE_HISTORYSIZE \in Nat /\ CMDLINE_HISTORYSIZE > 0
      /\ cnt \in 0 .. CMDLINE_HISTORYSIZE /\ idx \in -1 .. CMDLINE_HISTORYSIZE - 1
      /\ copy \in BOOLEAN
  BY Sizes DEF Recalled
<1>2. /\ history' = [k \in DOMAIN history |->
                       IF k = 0 THEN Line
                       ELSE IF k <= last THEN history[k - 1] ELSE history[k]]
      /\ cnt' = IF copy THEN room + 1 ELSE cnt
  BY DEF SaveHistory
<1>3. DOMAIN history = 0 .. CMDLINE_HISTORYSIZE - 1
  BY DEF Recalled
<1>4. room \in 0 .. CMDLINE_HISTORYSIZE - 1
      /\ (room = cnt \/ (cnt = CMDLINE_HISTORYSIZE /\ room + 1 = cnt))
  BY <1>1
<1>5. length # 0 /\ length \in Nat
  BY LineIs DEF Shown
<1>6. ~copy => idx \in 0 .. CMDLINE_HISTORYSIZE - 1 /\ idx < cnt
  <2> SUFFICES ASSUME ~copy PROVE idx \in 0 .. CMDLINE_HISTORYSIZE - 1 /\ idx < cnt
    OBVIOUS
  <2>1. idx # -1
    BY <1>5 DEF Recalled
  <2>2. idx \in 0 .. CMDLINE_HISTORYSIZE - 1
    BY <1>1, <2>1
  <2>3. length <= Len(history[idx])
    BY <2>1 DEF Recalled
  <2>4. idx = 0 /\ cnt = 0 => Len(history[idx]) = 0
    BY DEF Recalled
  <2>5. ~(idx = 0 /\ cnt = 0)
    BY <1>5, <2>3, <2>4
  <2> QED BY <2>2, <2>5 DEF Recalled
<1> HIDE DEF room
<1>7. last \in 0 .. CMDLINE_HISTORYSIZE - 1
  BY <1>4, <1>6
<1>8. copy => last = room /\ cnt' = room + 1
  BY <1>2
<1>9. ~copy => last = idx /\ cnt' = cnt
  BY <1>2
<1> HIDE DEF last
<1>10. /\ copy => /\ cnt' = last + 1 /\ cnt' \in 1 .. CMDLINE_HISTORYSIZE
                  /\ cnt' = cnt + 1 \/ (cnt = CMDLINE_HISTORYSIZE /\ cnt' = cnt)
       /\ ~copy => last < cnt /\ cnt' \in 1 .. CMDLINE_HISTORYSIZE
  BY <1>1, <1>4, <1>6, <1>8, <1>9
<1> WITNESS last \in 0 .. CMDLINE_HISTORYSIZE - 1
<1> QED
  BY <1>2, <1>3, <1>9, <1>10

(* A carriage return leaves an empty line and keeps the history whole.     *)
LEMMA ReturnKept ==
  ASSUME CmdlineAssumption, Shown, Recalled, CarriageReturn
  PROVE  Shown' /\ Recalled'
<1>1. /\ buffer' \in [Slots -> Chars \cup {NUL}]
      /\ Text(buffer', strlen(buffer')) = Line
      /\ Line \in Seq(Chars) /\ Len(Line) = length /\ length \in 0 .. MaxLength
  BY EnteredLine
<1>2. /\ length' = 0 /\ editPos' = 0 /\ copy' = FALSE /\ idx' = -1 /\ term' = BlankLine
      /\ SaveHistory(Line)
  BY <1>1 DEF CarriageReturn
<1>3. Shown'
  BY <1>1, <1>2, BlankShown DEF Shown
<1>4. /\ CMDLINE_HISTORYSIZE \in Nat /\ CMDLINE_HISTORYSIZE > 0 /\ MaxLength \in Nat
  BY Sizes
<1>5. CASE Line = <<>>
  <2>1. history' = history /\ cnt' = cnt
    BY <1>2, <1>5 DEF SaveHistory
  <2>2. cnt \in Nat /\ -1 < cnt /\ -1 \in -1 .. CMDLINE_HISTORYSIZE - 1
    BY <1>4 DEF Recalled
  <2>3. Recalled'
    BY <1>2, <2>1, <2>2, Zenon DEF Recalled
  <2> QED BY <1>3, <2>3
<1>6. CASE Line # <<>>
  <2>1. PICK last \in 0 .. CMDLINE_HISTORYSIZE - 1 :
          /\ history' = [k \in 0 .. CMDLINE_HISTORYSIZE - 1 |->
                           IF k = 0 THEN Line
                           ELSE IF k <= last THEN history[k - 1] ELSE history[k]]
          /\ cnt' \in 1 .. CMDLINE_HISTORYSIZE
    BY <1>1, <1>2, <1>6, SaveIndex
  <2>2. /\ history \in [0 .. CMDLINE_HISTORYSIZE - 1 -> Seq(Chars)]
        /\ \A k \in 0 .. CMDLINE_HISTORYSIZE - 1 : Len(history[k]) <= MaxLength
    BY DEF Recalled
  <2>3. ASSUME NEW k \in 0 .. CMDLINE_HISTORYSIZE - 1
        PROVE  history'[k] \in Seq(Chars) /\ Len(history'[k]) <= MaxLength
    <3>1. CASE k = 0
      <4>1. history'[k] = Line
        BY <2>1, <3>1
      <4>2. length <= MaxLength
        BY <1>1, <1>4
      <4> QED BY <1>1, <4>1, <4>2
    <3>2. CASE k # 0
      <4>1. k - 1 \in 0 .. CMDLINE_HISTORYSIZE - 1
        BY <1>4, <3>2
      <4>2. history'[k] = history[k - 1] \/ history'[k] = history[k]
        BY <2>1, <3>2
      <4> QED BY <2>2, <4>1, <4>2
    <3> QED BY <3>1, <3>2
  <2>4. history' \in [0 .. CMDLINE_HISTORYSIZE - 1 -> Seq(Chars)]
    BY <2>1, <2>3
  <2>5. /\ cnt' \in 0 .. CMDLINE_HISTORYSIZE /\ cnt' # 0 /\ -1 < cnt'
        /\ -1 \in -1 .. CMDLINE_HISTORYSIZE - 1
    BY <1>4, <2>1
  <2>6. Recalled'
    BY <1>2, <2>3, <2>4, <2>5, Zenon DEF Recalled
  <2> QED BY <1>3, <2>6
<1> QED
  BY <1>5, <1>6
-----------------------------------------------------------------------------
(* The invariant.                                                          *)

(* Every character cmdlineInputFunc looks at keeps the line shown and the  *)
(* history whole.                                                          *)
LEMMA InputShown ==
  ASSUME CmdlineAssumption, Shown, Recalled, NEW c, cmdlineInputFunc(c)
  PROVE  Shown' /\ Recalled'
<1>1. CASE UNCHANGED <<lineVars, historyVars, term>>
  <2>1. Recalled'
    BY <1>1, RecalledKept DEF lineVars
  <2> QED BY <1>1, <2>1 DEF Shown, lineVars
<1>2. CASE Arrow(c)
  <2>1. CASE DoHistory(1)
    BY <2>1, HistoryShown
  <2>2. CASE DoHistory(-1)
    BY <2>2, HistoryShown
  <2>3. CASE ArrowRight \/ ArrowLeft
    BY <2>3, CursorKept
  <2> QED BY <1>1, <1>2, <2>1, <2>2, <2>3 DEF Arrow
<1>3. CASE Regular(c)
  <2>1. CASE c \in Typed \cup Arrows /\ Printable(c)
    BY <2>1, PrintableKept DEF Chars
  <2>2. CASE CarriageReturn
    BY <2>2, ReturnKept
  <2>3. CASE Delete
    BY <2>3, DeleteKept
  <2>4. CASE UNCHANGED <<lineVars, historyVars, term, exec, entered>>
    BY <1>1, <2>4
  <2> QED BY <1>3, <2>1, <2>2, <2>3, <2>4 DEF Regular
<1> QED
  BY <1>1, <1>2, <1>3 DEF cmdlineInputFunc

(* A command becomes due with the line that was entered, still in the      *)
(* buffer; no other character makes one due.                               *)
LEMMA InputDue ==
  ASSUME CmdlineAssumption, Shown, Due, console = "input", NEW c, cmdlineInputFunc(c)
  PROVE  /\ vt100' \in 0 .. 2 /\ exec' \in 0 .. Len(Commands)
         /\ exec' = 0 <=> entered' = <<>>
         /\ ArgumentsIntact'
<1>1. exec = 0 /\ entered = <<>> /\ Len(Commands) \in Nat
  BY DEF Due, CmdlineAssumption
<1>2. vt100' \in 0 .. 2
  BY DEF cmdlineInputFunc
<1>3. CASE UNCHANGED <<exec, entered>>
  <2>1. exec' = 0 /\ entered' = <<>> /\ 0 \in 0 .. Len(Commands)
    BY <1>1, <1>3
  <2> QED BY <1>2, <2>1 DEF ArgumentsIntact
<1>4. CASE CarriageReturn
  <2> DEFINE line == Text(buffer', strlen(buffer'))
  <2>1. /\ exec' = IF Lookup(line) = 0 THEN exec ELSE Lookup(line)
        /\ entered' = IF Lookup(line) = 0 THEN entered ELSE <<line>>
    BY <1>4 DEF CarriageReturn
  <2>2. Lookup(line) \in 0 .. Len(Commands)
    BY LookupIs
  <2>3. exec' = Lookup(line) /\ entered' = IF Lookup(line) = 0 THEN <<>> ELSE <<line>>
    BY <1>1, <2>1
  <2> HIDE DEF line
  <2>4. <<line>> # <<>> /\ <<line>>[1] = line
    OBVIOUS
  <2>5. exec' = 0 <=> entered' = <<>>
    BY <2>3, <2>4
  <2>6. exec' # 0 => entered' = <<line>> /\ exec' = Lookup(entered'[1])
    BY <2>3, <2>4
  <2>7. ArgumentsIntact'
    BY <2>6 DEF ArgumentsIntact, line
  <2> QED BY <1>2, <2>2, <2>3, <2>5, <2>7
<1>5. UNCHANGED <<exec, entered>> \/ CarriageReturn
  BY DEF cmdlineInputFunc, Regular
<1> QED
  BY <1>3, <1>4, <1>5

(* Every step of the main loop keeps the invariant.                        *)
LEMMA LineInductive ==
  ASSUME CmdlineAssumption
  PROVE  LineInv /\ [LineNext]_consoleVars => LineInv'
<1> SUFFICES ASSUME LineInv, [LineNext]_consoleVars PROVE LineInv'
  OBVIOUS
<1>0. Shown /\ Recalled /\ Due
  BY DEF LineInv
<1>1. CASE Input
  <2>1. PICK c \in Received : cmdlineInputFunc(c)
    BY <1>1 DEF Input
  <2>2. console = "input" /\ console' = "execute"
    BY <1>1 DEF Input
  <2>3. Shown' /\ Recalled'
    BY <1>0, <2>1, InputShown
  <2>4. /\ vt100' \in 0 .. 2 /\ exec' \in 0 .. Len(Commands)
        /\ exec' = 0 <=> entered' = <<>>
        /\ ArgumentsIntact'
    BY <1>0, <2>1, <2>2, InputDue
  <2>5. Due'
    BY <2>2, <2>4 DEF Due
  <2> QED BY <2>3, <2>5 DEF LineInv
<1>2. ASSUME UNCHANGED <<lineVars, historyVars, term>> PROVE Shown' /\ Recalled'
  <2>1. Recalled'
    BY <1>0, <1>2, RecalledKept DEF lineVars
  <2> QED BY <1>0, <1>2, <2>1 DEF Shown, lineVars
<1>3. CASE NoCharacter \/ UNCHANGED consoleVars
  <2>1. /\ UNCHANGED <<lineVars, historyVars, term>> /\ UNCHANGED <<vt100, exec, entered, buffer>>
        /\ console' \in {console, "execute"}
    BY <1>3 DEF NoCharacter, consoleVars, lineVars
  <2>2. ArgumentsIntact' = ArgumentsIntact
    BY <2>1 DEF ArgumentsIntact, strlen, Text
  <2>3. Due'
    BY <1>0, <2>1, <2>2 DEF Due
  <2> QED BY <1>2, <2>1, <2>3 DEF LineInv
<1>4. CASE MainLoop
  <2>1. /\ UNCHANGED <<lineVars, historyVars, term>> /\ vt100' = vt100
        /\ exec' = 0 /\ entered' = <<>> /\ console' = "input"
    BY <1>4 DEF MainLoop, cmdlineMainLoop
  <2>2. 0 \in 0 .. Len(Commands)
    BY <1>0 DEF CmdlineAssumption
  <2>3. Due'
    BY <1>0, <2>1, <2>2 DEF Due, ArgumentsIntact
  <2> QED BY <1>2, <2>1, <2>3 DEF LineInv
<1> QED
  BY <1>1, <1>3, <1>4 DEF LineNext

(* The console starts with an empty line, an empty history and no command. *)
LEMMA LineStart ==
  ASSUME CmdlineAssumption
  PROVE  LineInit => LineInv
<1> SUFFICES ASSUME LineInit PROVE LineInv
  OBVIOUS
<1>1. /\ CMDLINE_HISTORYSIZE \in Nat /\ CMDLINE_HISTORYSIZE > 0 /\ MaxLength \in Nat
  BY Sizes
<1>2. buffer \in [Slots -> Chars \cup {NUL}]
  BY DEF LineInit
<1>3. Shown
  BY <1>2, BlankShown DEF LineInit, Shown
<1>4. Recalled
  <2>1. /\ history \in [0 .. CMDLINE_HISTORYSIZE - 1 -> Seq(Chars)]
        /\ \A k \in 0 .. CMDLINE_HISTORYSIZE - 1 : history[k] = <<>>
        /\ 0 \in 0 .. CMDLINE_HISTORYSIZE - 1
    BY <1>1 DEF LineInit
  <2>2. /\ cnt \in 0 .. CMDLINE_HISTORYSIZE /\ copy \in BOOLEAN /\ idx = -1
        /\ idx \in -1 .. CMDLINE_HISTORYSIZE - 1 /\ idx < cnt /\ length = 0
    BY <1>1 DEF LineInit
  <2>3. \A k \in 0 .. CMDLINE_HISTORYSIZE - 1 : Len(history[k]) <= MaxLength
    BY <1>1, <2>1
  <2> QED BY <2>1, <2>2, <2>3 DEF Recalled
<1>5. Due
  <2>1. 0 \in 0 .. Len(Commands)
    BY DEF CmdlineAssumption
  <2> QED BY <2>1 DEF LineInit, Due, ArgumentsIntact
<1> QED
  BY <1>3, <1>4, <1>5 DEF LineInv

(* No index of cmdlineInputFunc or cmdlineDoHistory leaves its array, and  *)
(* the null of a full line fits.                                           *)
THEOREM ArraysRespected ==
  ASSUME CmdlineAssumption
  PROVE  LineSpec => []IndicesInArrays
<1>1. LineInv => IndicesInArrays
  <2> SUFFICES ASSUME LineInv PROVE IndicesInArrays
    OBVIOUS
  <2>1. /\ buffer \in [Slots -> Typed \cup Arrows \cup {NUL}]
        /\ length \in 0 .. MaxLength /\ editPos \in 0 .. length
    BY DEF LineInv, Shown, Displays, Chars
  <2>2. \A k \in DOMAIN history : Len(history[k]) <= MaxLength
    BY DEF LineInv, Recalled
  <2> QED BY <2>1, <2>2 DEF LineInv, Recalled, Due, IndicesInArrays
<1>2. LineInv /\ [LineNext]_consoleVars => LineInv'
  BY LineInductive
<1>3. LineInit => LineInv
  BY LineStart
<1> QED
  BY <1>1, <1>2, <1>3, PTL DEF LineSpec

(* The echoes, backspaces and repaints sent for each key add up to the     *)
(* line and the cursor, whatever is typed.                                 *)
THEOREM ScreenTrue ==
  ASSUME CmdlineAssumption
  PROVE  LineSpec => []ScreenShowsLine
<1>1. LineInv => ScreenShowsLine
  BY ShownIs DEF LineInv
<1>2. LineInv /\ [LineNext]_consoleVars => LineInv'
  BY LineInductive
<1>3. LineInit => LineInv
  BY LineStart
<1> QED
  BY <1>1, <1>2, <1>3, PTL DEF LineSpec

(* A command runs with the line it was looked up by: cmdlineMainLoop comes *)
(* before the next character touches the buffer.                           *)
THEOREM ArgumentsSurvive ==
  ASSUME CmdlineAssumption
  PROVE  LineSpec => []ArgumentsIntact
<1>1. LineInv => ArgumentsIntact
  BY DEF LineInv, Due
<1>2. LineInv /\ [LineNext]_consoleVars => LineInv'
  BY LineInductive
<1>3. LineInit => LineInv
  BY LineStart
<1> QED
  BY <1>1, <1>2, <1>3, PTL DEF LineSpec
=============================================================================
