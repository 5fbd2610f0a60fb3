---------------------------- MODULE EditorProofs ----------------------------
(***************************************************************************)
(* The console implements LineEditor: with the line read from the buffer   *)
(* and split at the cursor, and the memory read from the history, every    *)
(* step of Cmdline is a step of the editor or leaves it as it is.  Each    *)
(* character is one lemma; LineInv of CmdlineProofs says which states the  *)
(* mapping is applied to.  The history forgets only what it must.          *)
(***************************************************************************)
EXTENDS CmdlineProofs

\* The text of the line on either side of the cursor.
Before(b, n, p) == SubSeq(Text(b, n), 1, p)
After(b, n, p) == SubSeq(Text(b, n), p + 1, n)

(* A part of a sequence, element by element.                               *)
LEMMA SubSeqIs ==
  ASSUME NEW S, NEW s \in Seq(S), NEW i \in Nat, NEW k \in Nat, 1 <= i, k <= Len(s), i <= k + 1
  PROVE  /\ SubSeq(s, i, k) \in Seq(S) /\ Len(SubSeq(s, i, k)) = (k + 1) - i
         /\ \A j \in 1 .. (k + 1) - i : SubSeq(s, i, k)[j] = s[(i + j) - 1]
<1>1. \A j \in 1 .. (k + 1) - i : (i + j) - 1 \in 1 .. Len(s)
  OBVIOUS
<1>2. \A j \in 1 .. (k + 1) - i : s[(i + j) - 1] \in S
  BY <1>1
<1>3. (k + 1) - i \in Nat
  OBVIOUS
<1> QED
  BY <1>1, <1>2, <1>3

(* Both sides of the cursor, character by character.                       *)
LEMMA SidesAre ==
  ASSUME CmdlineAssumption, NEW b, NEW n, NEW p, NEW t, Displays(b, n, p, t)
  PROVE  /\ n \in Nat /\ p \in Nat /\ p <= n
         /\ Before(b, n, p) \in Seq(Chars) /\ Len(Before(b, n, p)) = p
         /\ \A i \in 1 .. p : Before(b, n, p)[i] = b[i - 1]
         /\ After(b, n, p) \in Seq(Chars) /\ Len(After(b, n, p)) = n - p
         /\ \A i \in 1 .. n - p : After(b, n, p)[i] = b[(p + i) - 1]
<1> DEFINE s == Text(b, n)
<1>1. /\ n \in Nat /\ p \in Nat /\ p <= n /\ s \in Seq(Chars) /\ Len(s) = n
      /\ \A i \in 1 .. n : s[i] = b[i - 1]
  BY LineIs
<1> HIDE DEF s
<1>2. /\ SubSeq(s, 1, p) \in Seq(Chars) /\ Len(SubSeq(s, 1, p)) = (p + 1) - 1
      /\ \A j \in 1 .. (p + 1) - 1 : SubSeq(s, 1, p)[j] = s[(1 + j) - 1]
  BY <1>1, SubSeqIs
<1>3. /\ SubSeq(s, p + 1, n) \in Seq(Chars)
      /\ Len(SubSeq(s, p + 1, n)) = (n + 1) - (p + 1)
      /\ \A j \in 1 .. (n + 1) - (p + 1) : SubSeq(s, p + 1, n)[j] = s[((p + 1) + j) - 1]
  BY <1>1, SubSeqIs
<1>4. \A i \in 1 .. p : i \in 1 .. n /\ (1 + i) - 1 = i
  BY <1>1
<1>5. \A i \in 1 .. n - p : p + i \in 1 .. n /\ ((p + 1) + i) - 1 = p + i
  BY <1>1
<1>6. (p + 1) - 1 = p /\ (n + 1) - (p + 1) = n - p
  BY <1>1
<1>7. /\ SubSeq(s, 1, p) \in Seq(Chars) /\ Len(SubSeq(s, 1, p)) = p
      /\ \A i \in 1 .. p : SubSeq(s, 1, p)[i] = b[i - 1]
  BY <1>1, <1>2, <1>4, <1>6
<1>8. /\ SubSeq(s, p + 1, n) \in Seq(Chars) /\ Len(SubSeq(s, p + 1, n)) = n - p
      /\ \A i \in 1 .. n - p : SubSeq(s, p + 1, n)[i] = b[(p + i) - 1]
  BY <1>1, <1>3, <1>5, <1>6
<1> QED
  BY <1>1, <1>7, <1>8 DEF Before, After, s

(* Appending, element by element.                                          *)
LEMMA AppendIs ==
  ASSUME NEW S, NEW s \in Seq(S), NEW e \in S, NEW w \in Seq(S), Len(w) = Len(s) + 1,
         w[Len(s) + 1] = e, \A i \in 1 .. Len(s) : w[i] = s[i]
  PROVE  w = Append(s, e)
<1>1. Append(s, e) \in Seq(S) /\ Len(Append(s, e)) = Len(s) + 1
  OBVIOUS
<1>2. \A i \in 1 .. Len(s) + 1 : w[i] = Append(s, e)[i]
  OBVIOUS
<1> QED
  BY <1>1, <1>2, SameSeq

(* A character inserted at the cursor ends up before it.                   *)
LEMMA TypedSides ==
  ASSUME CmdlineAssumption, NEW b, NEW n, NEW p, NEW t, Displays(b, n, p, t),
         NEW d, NEW u, Displays(d, n + 1, p + 1, u), NEW c \in Chars, d[p] = c,
         \A i \in 0 .. p - 1 : d[i] = b[i], \A i \in p + 1 .. n : d[i] = b[i - 1]
  PROVE  /\ Before(d, n + 1, p + 1) = Append(Before(b, n, p), c)
         /\ After(d, n + 1, p + 1) = After(b, n, p)
<1> DEFINE l == Before(b, n, p)
           r == After(b, n, p)
           x == Before(d, n + 1, p + 1)
           y == After(d, n + 1, p + 1)
<1>1. /\ n \in Nat /\ p \in Nat /\ p <= n
      /\ l \in Seq(Chars) /\ Len(l) = p /\ \A i \in 1 .. p : l[i] = b[i - 1]
      /\ r \in Seq(Chars) /\ Len(r) = n - p
      /\ \A i \in 1 .. n - p : r[i] = b[(p + i) - 1]
  BY SidesAre, SMTT(20)
<1>2. /\ x \in Seq(Chars) /\ Len(x) = p + 1
      /\ \A i \in 1 .. p + 1 : x[i] = d[i - 1]
      /\ y \in Seq(Chars) /\ Len(y) = (n + 1) - (p + 1)
      /\ \A i \in 1 .. (n + 1) - (p + 1) : y[i] = d[((p + 1) + i) - 1]
  BY SidesAre, SMTT(20)
<1> HIDE DEF l, r, x, y
<1>3. x = Append(l, c)
  <2>1. x[p + 1] = c
    <3>1. p + 1 \in 1 .. p + 1 /\ (p + 1) - 1 = p
      BY <1>1
    <3> QED BY <1>2, <3>1
  <2>2. \A i \in 1 .. p : x[i] = l[i]
    <3>1. \A i \in 1 .. p : i \in 1 .. p + 1 /\ i - 1 \in 0 .. p - 1
      BY <1>1
    <3> QED BY <1>1, <1>2, <3>1, Zenon
  <2>3. Len(x) = Len(l) + 1 /\ x[Len(l) + 1] = c /\ \A i \in 1 .. Len(l) : x[i] = l[i]
    BY <1>1, <1>2, <2>1, <2>2
  <2> QED BY <1>1, <1>2, <2>3, AppendIs, Zenon
<1>4. y = r
  <2>1. (n + 1) - (p + 1) = n - p
    BY <1>1
  <2>2. ASSUME NEW i \in 1 .. n - p PROVE y[i] = r[i]
    <3> DEFINE j == p + i
    <3>1. j \in p + 1 .. n /\ ((p + 1) + i) - 1 = j /\ (p + i) - 1 = j - 1
      BY <1>1
    <3>2. y[i] = d[((p + 1) + i) - 1] /\ r[i] = b[(p + i) - 1]
      BY <1>1, <1>2, <2>1
    <3> HIDE DEF j
    <3>3. d[j] = b[j - 1]
      BY <3>1
    <3> QED BY <3>1, <3>2, <3>3
  <2>3. Len(y) = Len(r) /\ \A i \in 1 .. Len(y) : y[i] = r[i]
    BY <1>1, <1>2, <2>1, <2>2
  <2> QED BY <1>1, <1>2, <2>3, SameSeq, Zenon
<1> QED
  BY <1>3, <1>4 DEF l, r, x, y

(* A sequence without its last element.                                    *)
LEMMA FrontIs ==
  ASSUME NEW S, NEW s \in Seq(S), NEW w \in Seq(S), s # <<>>, Len(w) = Len(s) - 1,
         \A i \in 1 .. Len(w) : w[i] = s[i]
  PROVE  w = SubSeq(s, 1, Len(s) - 1)
<1>1. Len(s) \in Nat /\ Len(s) > 0
  OBVIOUS
<1> DEFINE k == Len(s) - 1
<1>2. k \in Nat /\ k <= Len(s) /\ 1 <= k + 1
  BY <1>1
<1> HIDE DEF k
<1>3. /\ SubSeq(s, 1, k) \in Seq(S) /\ Len(SubSeq(s, 1, k)) = (k + 1) - 1
      /\ \A j \in 1 .. (k + 1) - 1 : SubSeq(s, 1, k)[j] = s[(1 + j) - 1]
  BY <1>2, SubSeqIs
<1>4. (k + 1) - 1 = k /\ \A j \in 1 .. k : (1 + j) - 1 = j
  BY <1>2
<1>5. Len(w) = k
  BY DEF k
<1>6. Len(w) = Len(SubSeq(s, 1, k)) /\ \A i \in 1 .. Len(w) : w[i] = SubSeq(s, 1, k)[i]
  BY <1>3, <1>4, <1>5
<1>7. w = SubSeq(s, 1, k)
  BY <1>3, <1>6, SameSeq, Zenon
<1> QED
  BY <1>7 DEF k

(* The character before the cursor is the one that is deleted.             *)
LEMMA ErasedSides ==
  ASSUME CmdlineAssumption, NEW b, NEW n, NEW p, NEW t, Displays(b, n, p, t), p # 0,
         NEW d, NEW u, Displays(d, n - 1, p - 1, u),
         \A i \in 0 .. p - 2 : d[i] = b[i], \A i \in p - 1 .. n - 2 : d[i] = b[i + 1]
  PROVE  /\ Before(b, n, p) # <<>>
         /\ Before(d, n - 1, p - 1)
              = SubSeq(Before(b, n, p), 1, Len(Before(b, n, p)) - 1)
         /\ After(d, n - 1, p - 1) = After(b, n, p)
<1> DEFINE l == Before(b, n, p)
           r == After(b, n, p)
           x == Before(d, n - 1, p - 1)
           y == After(d, n - 1, p - 1)
<1>1. /\ n \in Nat /\ p \in Nat /\ p <= n
      /\ l \in Seq(Chars) /\ Len(l) = p /\ \A i \in 1 .. p : l[i] = b[i - 1]
      /\ r \in Seq(Chars) /\ Len(r) = n - p
      /\ \A i \in 1 .. n - p : r[i] = b[(p + i) - 1]
  BY SidesAre, SMTT(20)
<1>2. /\ x \in Seq(Chars) /\ Len(x) = p - 1
      /\ \A i \in 1 .. p - 1 : x[i] = d[i - 1]
      /\ y \in Seq(Chars) /\ Len(y) = (n - 1) - (p - 1)
      /\ \A i \in 1 .. (n - 1) - (p - 1) : y[i] = d[((p - 1) + i) - 1]
  BY SidesAre, SMTT(20)
<1> HIDE DEF l, r, x, y
<1>3. l # <<>>
  BY <1>1
<1>4. x = SubSeq(l, 1, Len(l) - 1)
  <2>1. \A i \in 1 .. p - 1 : i \in 1 .. p /\ i - 1 \in 0 .. p - 2
    BY <1>1
  <2>2. \A i \in 1 .. p - 1 : x[i] = l[i]
    BY <1>1, <1>2, <2>1, Zenon
  <2>3. Len(x) = Len(l) - 1 /\ \A i \in 1 .. Len(x) : x[i] = l[i]
    BY <1>1, <1>2, <2>2
  <2> QED BY <1>1, <1>2, <1>3, <2>3, FrontIs, Zenon
<1>5. y = r
  <2>1. (n - 1) - (p - 1) = n - p
    BY <1>1
  <2>2. ASSUME NEW i \in 1 .. n - p PROVE y[i] = r[i]
    <3> DEFINE j == (p + i) - 2
    <3>1. j \in p - 1 .. n - 2 /\ ((p - 1) + i) - 1 = j /\ (p + i) - 1 = j + 1
      BY <1>1
    <3>2. y[i] = d[((p - 1) + i) - 1] /\ r[i] = b[(p + i) - 1]
      BY <1>1, <1>2, <2>1
    <3> HIDE DEF j
    <3>3. d[j] = b[j + 1]
      BY <3>1
    <3> QED BY <3>1, <3>2, <3>3
  <2>3. Len(y) = Len(r) /\ \A i \in 1 .. Len(y) : y[i] = r[i]
    BY <1>1, <1>2, <2>1, <2>2
  <2> QED BY <1>1, <1>2, <2>3, SameSeq, Zenon
<1> QED
  BY <1>3, <1>4, <1>5 DEF l, r, x, y

(* The cursor to the left: a character changes sides.                      *)
LEMMA LeftSides ==
  ASSUME CmdlineAssumption, NEW b, NEW n, NEW p, NEW t, Displays(b, n, p, t), p # 0,
         NEW u, Displays(b, n, p - 1, u)
  PROVE  /\ Before(b, n, p) # <<>>
         /\ Before(b, n, p - 1)
              = SubSeq(Before(b, n, p), 1, Len(Before(b, n, p)) - 1)
         /\ After(b, n, p - 1)
              = <<Before(b, n, p)[Len(Before(b, n, p))]>> \o After(b, n, p)
<1> DEFINE l == Before(b, n, p)
           r == After(b, n, p)
           x == Before(b, n, p - 1)
           y == After(b, n, p - 1)
           w == <<l[Len(l)]>> \o r
<1>1. /\ n \in Nat /\ p \in Nat /\ p <= n
      /\ l \in Seq(Chars) /\ Len(l) = p /\ \A i \in 1 .. p : l[i] = b[i - 1]
      /\ r \in Seq(Chars) /\ Len(r) = n - p
      /\ \A i \in 1 .. n - p : r[i] = b[(p + i) - 1]
  BY SidesAre
<1>2. /\ x \in Seq(Chars) /\ Len(x) = p - 1
      /\ \A i \in 1 .. p - 1 : x[i] = b[i - 1]
      /\ y \in Seq(Chars) /\ Len(y) = n - (p - 1)
      /\ \A i \in 1 .. n - (p - 1) : y[i] = b[((p - 1) + i) - 1]
  BY SidesAre
<1> HIDE DEF l, r, x, y
<1>3. l # <<>>
  BY <1>1
<1>4. x = SubSeq(l, 1, Len(l) - 1)
  <2>1. \A i \in 1 .. p - 1 : i \in 1 .. p
    BY <1>1
  <2>2. \A i \in 1 .. p - 1 : x[i] = l[i]
    BY <1>1, <1>2, <2>1, Zenon
  <2>3. Len(x) = Len(l) - 1 /\ \A i \in 1 .. Len(x) : x[i] = l[i]
    BY <1>1, <1>2, <2>2
  <2> QED BY <1>1, <1>2, <1>3, <2>3, FrontIs, Zenon
<1>5. y = w
  <2>1. p \in 1 .. p /\ l[Len(l)] = b[p - 1] /\ l[Len(l)] \in Chars
    BY <1>1
  <2>2. /\ w \in Seq(Chars) /\ Len(w) = 1 + Len(r) /\ w[1] = l[Len(l)]
        /\ \A i \in 1 .. Len(r) : w[1 + i] = r[i]
    <3>1. ASSUME NEW c \in Chars, NEW q \in Seq(Chars)
          PROVE  /\ <<c>> \o q \in Seq(Chars) /\ Len(<<c>> \o q) = 1 + Len(q)
                 /\ (<<c>> \o q)[1] = c
                 /\ \A i \in 1 .. Len(q) : (<<c>> \o q)[1 + i] = q[i]
      OBVIOUS
    <3> QED BY <1>1, <2>1, <3>1, Zenon
  <2> HIDE DEF w
  <2>3. Len(y) = Len(w) /\ Len(y) = 1 + (n - p)
    BY <1>1, <1>2, <2>2
  <2>4. ASSUME NEW i \in 1 .. Len(y) PROVE y[i] = w[i]
    <3>1. i \in 1 .. n - (p - 1) /\ y[i] = b[((p - 1) + i) - 1]
      BY <1>2
    <3>2. CASE i = 1
      <4>1. ((p - 1) + i) - 1 = p - 1
        BY <1>1, <3>2
      <4> QED BY <2>1, <2>2, <3>1, <3>2, <4>1
    <3>3. CASE i # 1
      <4> DEFINE j == i - 1
      <4>0. i \in Nat /\ 1 < i /\ i <= 1 + (n - p)
        BY <1>1, <2>3, <3>3
      <4>1. j \in 1 .. n - p /\ 1 + j = i /\ ((p - 1) + i) - 1 = (p + j) - 1
        BY <1>1, <4>0
      <4> HIDE DEF j
      <4>2. r[j] = b[(p + j) - 1]
        BY <1>1, <4>1
      <4>3. j \in 1 .. Len(r)
        BY <1>1, <4>1
      <4>4. w[1 + j] = r[j]
        BY <2>2, <4>3
      <4> QED BY <3>1, <4>1, <4>2, <4>4
    <3> QED BY <3>2, <3>3
  <2> QED BY <1>2, <2>2, <2>3, <2>4, SameSeq, Zenon
<1> QED
  BY <1>3, <1>4, <1>5 DEF l, r, x, y, w

(* The cursor to the right: a character changes sides.                     *)
LEMMA RightSides ==
  ASSUME CmdlineAssumption, NEW b, NEW n, NEW p, NEW t, Displays(b, n, p, t), p < n,
         NEW u, Displays(b, n, p + 1, u)
  PROVE  /\ After(b, n, p) # <<>>
         /\ Before(b, n, p + 1) = Append(Before(b, n, p), Head(After(b, n, p)))
         /\ After(b, n, p + 1) = Tail(After(b, n, p))
<1> DEFINE l == Before(b, n, p)
           r == After(b, n, p)
           x == Before(b, n, p + 1)
           y == After(b, n, p + 1)
           w == Tail(r)
<1>1. /\ n \in Nat /\ p \in Nat /\ p <= n
      /\ l \in Seq(Chars) /\ Len(l) = p /\ \A i \in 1 .. p : l[i] = b[i - 1]
      /\ r \in Seq(Chars) /\ Len(r) = n - p
      /\ \A i \in 1 .. n - p : r[i] = b[(p + i) - 1]
  BY SidesAre
<1>2. /\ x \in Seq(Chars) /\ Len(x) = p + 1
      /\ \A i \in 1 .. p + 1 : x[i] = b[i - 1]
      /\ y \in Seq(Chars) /\ Len(y) = n - (p + 1)
      /\ \A i \in 1 .. n - (p + 1) : y[i] = b[((p + 1) + i) - 1]
  BY SidesAre
<1> HIDE DEF l, r, x, y
<1>3. r # <<>> /\ 1 \in 1 .. n - p
  BY <1>1
<1>4. Head(r) = r[1] /\ r[1] \in Chars /\ r[1] = b[(p + 1) - 1]
  BY <1>1, <1>3
<1>5. x = Append(l, Head(r))
  <2>1. p + 1 \in 1 .. p + 1 /\ \A i \in 1 .. p : i \in 1 .. p + 1
    BY <1>1
  <2>2. x[p + 1] = Head(r)
    BY <1>2, <1>4, <2>1
  <2>3. \A i \in 1 .. p : x[i] = l[i]
    BY <1>1, <1>2, <2>1, Zenon
  <2>4. /\ Len(x) = Len(l) + 1 /\ x[Len(l) + 1] = Head(r) /\ Head(r) \in Chars
        /\ \A i \in 1 .. Len(l) : x[i] = l[i]
    BY <1>1, <1>2, <1>4, <2>2, <2>3
  <2> QED BY <1>1, <1>2, <2>4, AppendIs, Zenon
<1>6. y = w
  <2>1. /\ w \in Seq(Chars) /\ Len(w) = Len(r) - 1
        /\ \A i \in 1 .. Len(r) - 1 : w[i] = r[i + 1]
    BY <1>1, <1>3
  <2> HIDE DEF w
  <2>2. Len(y) = Len(w) /\ Len(y) = (n - p) - 1
    BY <1>1, <1>2, <2>1
  <2>3. ASSUME NEW i \in 1 .. Len(y) PROVE y[i] = w[i]
    <3>1. i \in 1 .. n - (p + 1) /\ y[i] = b[((p + 1) + i) - 1]
      BY <1>2
    <3> DEFINE j == i + 1
    <3>2. j \in 1 .. n - p /\ i \in 1 .. Len(r) - 1 /\ ((p + 1) + i) - 1 = (p + j) - 1
      BY <1>1, <2>2
    <3>3. w[i] = r[j]
      BY <2>1, <3>2
    <3> HIDE DEF j
    <3>4. r[j] = b[(p + j) - 1]
      BY <1>1, <3>2
    <3> QED BY <3>1, <3>2, <3>3, <3>4
  <2> QED BY <1>2, <2>1, <2>2, <2>3, SameSeq, Zenon
<1> QED
  BY <1>3, <1>5, <1>6 DEF l, r, x, y, w

(* With the cursor at the end there is nothing after it.                   *)
LEMMA EndSides ==
  ASSUME CmdlineAssumption, NEW b, NEW n, NEW t, Displays(b, n, n, t)
  PROVE  Before(b, n, n) = Text(b, n) /\ After(b, n, n) = <<>>
<1> DEFINE l == Before(b, n, n)
           r == After(b, n, n)
           s == Text(b, n)
<1>1. /\ n \in Nat
      /\ l \in Seq(Chars) /\ Len(l) = n /\ \A i \in 1 .. n : l[i] = b[i - 1]
      /\ r \in Seq(Chars) /\ Len(r) = n - n
  BY SidesAre
<1>2. s \in Seq(Chars) /\ Len(s) = n /\ \A i \in 1 .. n : s[i] = b[i - 1]
  BY LineIs
<1> HIDE DEF l, r, s
<1>3. Len(l) = Len(s) /\ \A i \in 1 .. Len(l) : l[i] = s[i]
  BY <1>1, <1>2
<1>4. l = s
  BY <1>1, <1>2, <1>3, SameSeq, Zenon
<1>5. r = <<>>
  BY <1>1
<1> QED
  BY <1>4, <1>5 DEF l, r, s

(* A concatenation, element by element.                                    *)
LEMMA ConcatIs ==
  ASSUME NEW S, NEW s \in Seq(S), NEW t \in Seq(S), NEW w, w = s \o t
  PROVE  /\ w \in Seq(S) /\ Len(w) = Len(s) + Len(t)
         /\ \A i \in 1 .. Len(s) : w[i] = s[i]
         /\ \A i \in 1 .. Len(t) : w[Len(s) + i] = t[i]
  OBVIOUS

(* The two sides together are the line.                                    *)
LEMMA WholeLine ==
  ASSUME CmdlineAssumption, NEW b, NEW n, NEW p, NEW t, Displays(b, n, p, t)
  PROVE  Before(b, n, p) \o After(b, n, p) = Text(b, n)
<1> DEFINE l == Before(b, n, p)
           r == After(b, n, p)
           s == Text(b, n)
           w == l \o r
<1>1. /\ n \in Nat /\ p \in Nat /\ p <= n
      /\ l \in Seq(Chars) /\ Len(l) = p /\ \A i \in 1 .. p : l[i] = b[i - 1]
      /\ r \in Seq(Chars) /\ Len(r) = n - p
      /\ \A i \in 1 .. n - p : r[i] = b[(p + i) - 1]
  BY SidesAre
<1>2. s \in Seq(Chars) /\ Len(s) = n /\ \A i \in 1 .. n : s[i] = b[i - 1]
  BY LineIs
<1> HIDE DEF l, r, s
<1>3. /\ w \in Seq(Chars) /\ Len(w) = Len(l) + Len(r)
      /\ \A i \in 1 .. Len(l) : w[i] = l[i]
      /\ \A i \in 1 .. Len(r) : w[Len(l) + i] = r[i]
  <2>1. l \in Seq(Chars) /\ r \in Seq(Chars)
    BY <1>1
  <2>2. w = l \o r
    OBVIOUS
  <2> HIDE DEF w
  <2> QED BY <2>1, <2>2, ConcatIs
<1> HIDE DEF w
<1>4. Len(w) = n
  BY <1>1, <1>3
<1>5. ASSUME NEW i \in 1 .. n PROVE w[i] = s[i]
  <2>1. CASE i <= p
    <3>1. i \in 1 .. p
      BY <1>1, <2>1
    <3> QED BY <1>1, <1>2, <1>3, <3>1, Zenon
  <2>2. CASE ~(i <= p)
    <3> DEFINE j == i - p
    <3>1. j \in 1 .. n - p /\ p + j = i
      BY <1>1, <2>2
    <3> HIDE DEF j
    <3>2. r[j] = b[i - 1]
      BY <1>1, <3>1
    <3>3. w[p + j] = r[j]
      BY <1>1, <1>3, <3>1
    <3> QED BY <1>2, <3>1, <3>2, <3>3
  <2> QED BY <2>1, <2>2
<1>6. Len(w) = Len(s) /\ \A i \in 1 .. Len(w) : w[i] = s[i]
  BY <1>2, <1>4, <1>5
<1>7. w = s
  BY <1>2, <1>3, <1>6, SameSeq, Zenon
<1> QED
  BY <1>7 DEF l, r, s, w
-----------------------------------------------------------------------------
(* The console does what a line editor does.                               *)

left == Before(buffer, length, editPos)
right == After(buffer, length, editPos)

(* The sides of the refinement mapping.                                    *)
LEMMA SidesMapped ==
  /\ SubSeq(Line, 1, editPos) = left
  /\ SubSeq(Line, editPos + 1, length) = right
  BY DEF left, right, Before, After, Line

(* The remembered lines, by their numbers.                                 *)
LEMMA MemoryIs ==
  ASSUME CmdlineAssumption, Recalled
  PROVE  /\ cnt \in Nat /\ Len(Memory) = cnt
         /\ \A k \in 1 .. cnt : Memory[k] = history[k - 1]
         /\ cnt = 0 => Memory = <<>>
<1>1. cnt \in Nat
  BY Sizes DEF Recalled
<1>2. \A k \in 1 .. cnt : k - 1 \in 0 .. CMDLINE_HISTORYSIZE - 1
  BY Sizes DEF Recalled
<1>3. \A k \in 1 .. cnt : history[k - 1] \in Seq(Chars)
  BY <1>2 DEF Recalled
<1>4. Memory \in Seq(Seq(Chars)) /\ Len(Memory) = cnt
  BY <1>1, <1>3 DEF Memory
<1>5. \A k \in 1 .. cnt : Memory[k] = history[k - 1]
  BY DEF Memory
<1>6. cnt = 0 => Memory = <<>>
  BY <1>4
<1> QED
  BY <1>1, <1>4, <1>5, <1>6

(* Steps that leave the line, the history and the command alone.           *)
LEMMA NothingEdited ==
  ASSUME UNCHANGED <<lineVars, historyVars, entered>>
  PROVE  UNCHANGED Editor!editorVars
  BY DEF lineVars, historyVars, Editor!editorVars, Line, Text, Memory

(* The cursor keys.                                                        *)
LEMMA CursorEdits ==
  ASSUME CmdlineAssumption, Shown, Recalled, entered = <<>>, UNCHANGED entered,
         ArrowRight \/ ArrowLeft
  PROVE  Editor!EditorNext \/ UNCHANGED Editor!editorVars
<1>1. length \in Nat /\ editPos \in Nat /\ editPos <= length
  BY LineIs DEF Shown
<1>2. Displays(buffer, length, editPos, term) /\ Displays(buffer', length', editPos', term')
  BY CursorKept DEF Shown
<1>3. buffer' = buffer /\ length' = length /\ UNCHANGED historyVars
  BY DEF ArrowRight, ArrowLeft
<1>4. Memory' = Memory
  BY <1>3 DEF Memory, historyVars
<1>5. CASE editPos' = editPos
  <2>1. UNCHANGED <<lineVars, historyVars, entered>>
    BY <1>3, <1>5 DEF lineVars
  <2> QED BY <2>1, NothingEdited
<1>6. CASE editPos' = editPos + 1 /\ editPos < length
  <2>1. /\ right # <<>> /\ left' = Append(left, Head(right)) /\ right' = Tail(right)
    BY <1>2, <1>3, <1>6, RightSides DEF left, right
  <2>2. Editor!MoveRight
    BY <1>4, <2>1, SidesMapped, Zenon DEF Editor!MoveRight, Editor!Editing, left, right, Before, After, Line
  <2> QED BY <2>2 DEF Editor!EditorNext
<1>7. CASE editPos' = editPos - 1 /\ editPos # 0
  <2>1. /\ left # <<>> /\ left' = SubSeq(left, 1, Len(left) - 1)
        /\ right' = <<left[Len(left)]>> \o right
    BY <1>2, <1>3, <1>7, LeftSides DEF left, right
  <2>2. Editor!MoveLeft
    BY <1>4, <2>1, SidesMapped, Zenon DEF Editor!MoveLeft, Editor!Editing, left, right, Before, After, Line
  <2> QED BY <2>2 DEF Editor!EditorNext
<1> QED
  BY <1>5, <1>6, <1>7 DEF ArrowRight, ArrowLeft

(* The history keys recall a remembered line, or none if there is none.    *)
LEMMA HistoryEdits ==
  ASSUME CmdlineAssumption, Shown, Recalled, entered = <<>>, UNCHANGED entered,
         NEW by \in {1, -1}, DoHistory(by)
  PROVE  Editor!EditorNext
<1>1. /\ idx' \in 0 .. CMDLINE_HISTORYSIZE - 1
      /\ idx' < cnt \/ (idx' = 0 /\ cnt = 0)
      /\ Text(buffer', length') = history[idx']
  BY HistoryIndex
<1>2. editPos' = length' /\ history' = history /\ cnt' = cnt
  BY DEF DoHistory
<1>3. Displays(buffer', length', length', term')
  BY <1>2, HistoryShown DEF Shown
<1>4. left' = history[idx'] /\ right' = <<>>
  BY <1>1, <1>2, <1>3, EndSides DEF left, right
<1>5. /\ cnt \in Nat /\ Len(Memory) = cnt
      /\ \A k \in 1 .. cnt : Memory[k] = history[k - 1]
      /\ cnt = 0 => Memory = <<>>
  BY MemoryIs
<1>6. Memory' = Memory
  BY <1>2 DEF Memory
<1>7. left' \in {Memory[i] : i \in 1 .. Len(Memory)}
                \cup (IF Memory = <<>> THEN {<<>>} ELSE {})
  <2>1. CASE idx' < cnt
    <3>0. \A n, m \in Nat : m < n => m + 1 \in 1 .. n /\ (m + 1) - 1 = m
      OBVIOUS
    <3>a. idx' \in Nat /\ cnt \in Nat
      BY <1>1, <1>5, Sizes
    <3>1. idx' + 1 \in 1 .. cnt /\ (idx' + 1) - 1 = idx'
      BY <2>1, <3>0, <3>a, Zenon
    <3>2. Memory[idx' + 1] = history[idx']
      BY <1>5, <3>1
    <3> QED BY <1>4, <1>5, <3>1, <3>2
  <2>2. CASE idx' = 0 /\ cnt = 0
    <3>1. history[idx'] = <<>>
      BY <2>2 DEF Recalled
    <3> QED BY <1>4, <1>5, <2>2, <3>1
  <2> QED BY <1>1, <2>1, <2>2
<1>8. Editor!Recall
  BY <1>4, <1>6, <1>7, Zenon
  DEF Editor!Recall, Editor!Editing, left, right, Before, After, Line
<1> QED
  BY <1>8 DEF Editor!EditorNext

(* A printable character is inserted before the cursor, or refused when    *)
(* the line is full.                                                       *)
LEMMA PrintableEdits ==
  ASSUME CmdlineAssumption, Shown, Recalled, entered = <<>>, UNCHANGED entered,
         NEW c \in Typed, Printable(c)
  PROVE  Editor!EditorNext \/ UNCHANGED Editor!editorVars
<1>0. c \in Chars
  BY DEF Chars
<1>1. CASE length < MaxLength
  <2>1. /\ IF editPos = length THEN Append1(c) ELSE Insert1(c)
        /\ length' = length + 1 /\ editPos' = editPos + 1
        /\ UNCHANGED <<history, cnt>>
    BY <1>1 DEF Printable
  <2>2. /\ Displays(buffer, length, editPos, term)
        /\ Displays(buffer', length + 1, editPos + 1, term')
    BY <1>0, <2>1, PrintableKept DEF Shown
  <2>3. /\ length \in Nat /\ editPos \in Nat /\ editPos <= length /\ MaxLength \in Nat
        /\ Slots = 0 .. MaxLength + 1
    BY <2>2, LineIs
  <2>4. /\ buffer'[editPos] = c
        /\ \A i \in 0 .. editPos - 1 : buffer'[i] = buffer[i]
        /\ \A i \in editPos + 1 .. length : buffer'[i] = buffer[i - 1]
    <3>1. CASE editPos = length
      <4>1. buffer' = [buffer EXCEPT ![length] = c] /\ buffer \in [Slots -> Chars \cup {NUL}]
        BY <2>1, <2>2, <3>1 DEF Append1, Displays
      <4>2. length \in Slots /\ \A i \in 0 .. editPos - 1 : i \in Slots /\ i # length
        BY <1>1, <2>3, <3>1
      <4>3. ~\E i \in Int : i \in editPos + 1 .. length
        BY <2>3, <3>1
      <4> QED BY <3>1, <4>1, <4>2, <4>3
    <3>2. CASE editPos # length
      <4>1. buffer' = [i \in Slots |-> IF i = editPos THEN c
                                       ELSE IF i \in editPos + 1 .. length + 1
                                         THEN buffer[i - 1] ELSE buffer[i]]
        BY <2>1, <3>2 DEF Insert1
      <4> QED BY <1>0, <1>1, <2>2, <3>2, <4>1, InsertedIs
    <3> QED BY <3>1, <3>2
  <2>5. left' = Append(left, c) /\ right' = right
    <3>1. /\ Before(buffer', length + 1, editPos + 1) = Append(left, c)
          /\ After(buffer', length + 1, editPos + 1) = right
      BY <1>0, <2>2, <2>4, TypedSides DEF left, right
    <3> QED BY <2>1, <3>1 DEF left, right
  <2>6. Memory' = Memory
    BY <2>1 DEF Memory
  <2>7. Len(left) + Len(right) < MaxLength
    <3>1. Len(left) = editPos /\ Len(right) = length - editPos
      BY <2>2, SidesAre DEF left, right
    <3> QED BY <1>1, <2>3, <3>1
  <2>8. Editor!Type(c)
    BY <2>5, <2>6, <2>7, Zenon
    DEF Editor!Type, Editor!Editing, left, right, Before, After, Line
  <2> QED BY <2>8 DEF Editor!EditorNext
<1>2. CASE ~(length < MaxLength)
  <2>1. UNCHANGED <<lineVars, historyVars, entered>>
    BY <1>2 DEF Printable
  <2> QED BY <2>1, NothingEdited
<1> QED
  BY <1>1, <1>2

(* Delete takes the character before the cursor, if there is one.          *)
LEMMA DeleteEdits ==
  ASSUME CmdlineAssumption, Shown, Recalled, entered = <<>>, UNCHANGED entered, Delete
  PROVE  Editor!EditorNext \/ UNCHANGED Editor!editorVars
<1>1. CASE editPos # 0
  <2>1. /\ length' = length - 1 /\ editPos' = editPos - 1
        /\ UNCHANGED historyVars
        /\ buffer' = IF editPos = length THEN buffer
                     ELSE [i \in Slots |-> IF i \in editPos - 1 .. length - 2
                                             THEN buffer[i + 1] ELSE buffer[i]]
    BY <1>1 DEF Delete
  <2>2. /\ Displays(buffer, length, editPos, term)
        /\ Displays(buffer', length - 1, editPos - 1, term')
    BY <2>1, DeleteKept DEF Shown
  <2>3. length \in Nat /\ editPos \in Nat /\ editPos <= length
    BY <2>2, LineIs
  <2>4. /\ \A i \in 0 .. editPos - 2 : buffer'[i] = buffer[i]
        /\ \A i \in editPos - 1 .. length - 2 : buffer'[i] = buffer[i + 1]
    <3>1. CASE editPos = length
      <4>1. ~\E i \in Int : i \in editPos - 1 .. length - 2
        BY <2>3, <3>1
      <4> QED BY <2>1, <3>1, <4>1
    <3>2. CASE editPos # length
      <4>1. buffer' = [i \in Slots |-> IF i \in editPos - 1 .. length - 2
                                         THEN buffer[i + 1] ELSE buffer[i]]
        BY <2>1, <3>2
      <4> QED BY <1>1, <2>2, <3>2, <4>1, RemovedIs
    <3> QED BY <3>1, <3>2
  <2>5. left # <<>> /\ left' = SubSeq(left, 1, Len(left) - 1) /\ right' = right
    <3>1. /\ left # <<>>
          /\ Before(buffer', length - 1, editPos - 1) = SubSeq(left, 1, Len(left) - 1)
          /\ After(buffer', length - 1, editPos - 1) = right
      BY <1>1, <2>2, <2>4, ErasedSides DEF left, right
    <3> QED BY <2>1, <3>1 DEF left, right
  <2>6. Memory' = Memory
    BY <2>1 DEF Memory, historyVars
  <2>7. Editor!Erase
    BY <2>5, <2>6, Zenon
    DEF Editor!Erase, Editor!Editing, left, right, Before, After, Line
  <2> QED BY <2>7 DEF Editor!EditorNext
<1>2. CASE editPos = 0
  <2>1. UNCHANGED <<lineVars, historyVars, entered>>
    BY <1>2 DEF Delete
  <2> QED BY <2>1, NothingEdited
<1> QED
  BY <1>1, <1>2

(* What a line that is not empty does to the remembered ones: it is the    *)
(* newest, and the others were remembered before.  No other is forgotten   *)
(* than the oldest of a full history, and the one it was shortened from.   *)
LEMMA LineSaved ==
  ASSUME CmdlineAssumption, Shown, Recalled, CarriageReturn, Line # <<>>
  PROVE  /\ Memory' # <<>> /\ Memory'[1] = Line
         /\ \A i \in 2 .. Len(Memory') : \E k \in 1 .. Len(Memory) : Memory'[i] = Memory[k]
         /\ ForgetsRightly
<1> DEFINE H == CMDLINE_HISTORYSIZE
<1>1. /\ Line \in Seq(Chars) /\ Len(Line) = length /\ length \in Nat
      /\ Text(buffer', strlen(buffer')) = Line
  BY EnteredLine, Sizes
<1>2. SaveHistory(Line)
  BY <1>1 DEF CarriageReturn
<1>3. PICK last \in 0 .. H - 1 :
        /\ history' = [k \in 0 .. H - 1 |->
                         IF k = 0 THEN Line
                         ELSE IF k <= last THEN history[k - 1] ELSE history[k]]
        /\ cnt' \in 1 .. H
        /\ copy => /\ cnt' = last + 1
                   /\ cnt' = cnt + 1 \/ (cnt = H /\ cnt' = cnt)
        /\ ~copy => last = idx /\ last < cnt /\ cnt' = cnt
  BY <1>1, <1>2, SaveIndex
<1>4. /\ H \in Nat /\ H > 0 /\ cnt \in Nat /\ cnt <= H /\ copy \in BOOLEAN
      /\ last \in Nat /\ cnt' \in Nat /\ 1 <= cnt' /\ cnt' <= H
  BY <1>3, Sizes DEF Recalled
<1>5. /\ Len(Memory) = cnt /\ \A k \in 1 .. cnt : Memory[k] = history[k - 1]
      /\ DOMAIN Memory = 1 .. cnt
  BY MemoryIs DEF Memory
<1>6. Recalled'
  BY ReturnKept
<1>7. /\ Len(Memory') = cnt' /\ \A k \in 1 .. cnt' : Memory'[k] = history'[k - 1]
      /\ DOMAIN Memory' = 1 .. cnt'
  <2>1. \A k \in 1 .. cnt' : k - 1 \in 0 .. H - 1
    BY <1>4
  <2>2. \A k \in 1 .. cnt' : history'[k - 1] \in Seq(Chars)
    BY <1>6, <2>1, Zenon DEF Recalled
  <2>3. Memory' = [k \in 1 .. cnt' |-> history'[k - 1]]
    BY DEF Memory
  <2> QED BY <1>4, <2>2, <2>3
<1>8. history'[0] = Line
  BY <1>3, <1>4
<1>9. ASSUME NEW k \in 1 .. H - 1
      PROVE  history'[k] = IF k <= last THEN history[k - 1] ELSE history[k]
  BY <1>3, <1>4
<1>10. Memory' # <<>> /\ Memory'[1] = Line
  <2>1. 1 \in 1 .. cnt' /\ 1 - 1 = 0
    BY <1>4
  <2>2. Memory'[1] = history'[1 - 1]
    BY <1>7, <2>1
  <2>3. Memory' # <<>>
    BY <1>4, <1>7
  <2> QED BY <1>8, <2>1, <2>2, <2>3
<1>11. ASSUME NEW i \in 2 .. Len(Memory')
       PROVE  \E k \in 1 .. Len(Memory) : Memory'[i] = Memory[k]
  <2> DEFINE m == i - 1
  <2>1. m \in 1 .. H - 1 /\ m < cnt' /\ i \in 1 .. cnt' /\ i - 1 = m
    BY <1>4, <1>7
  <2> HIDE DEF m
  <2>2. Memory'[i] = history'[m]
    BY <1>7, <2>1
  <2>3. CASE m <= last
    <3>1. m \in 1 .. cnt
      BY <1>3, <1>4, <2>1, <2>3
    <3>2. history'[m] = history[m - 1]
      BY <1>9, <2>1, <2>3
    <3> QED BY <1>5, <2>2, <3>1, <3>2
  <2>4. CASE ~(m <= last)
    <3>1. ~copy /\ m + 1 \in 1 .. cnt /\ (m + 1) - 1 = m
      BY <1>3, <1>4, <2>1, <2>4
    <3>2. history'[m] = history[m]
      BY <1>9, <2>1, <2>4
    <3>3. Memory[m + 1] = history[m]
      BY <1>5, <3>1
    <3> QED BY <1>5, <2>2, <3>1, <3>2, <3>3
  <2> QED BY <2>3, <2>4
<1>12. ForgetsRightly
  <2> SUFFICES ASSUME NEW j \in 1 .. cnt, Memory[j] \notin Remembered(Memory')
               PROVE  \/ copy /\ cnt = H /\ Memory[j] = Memory[cnt]
                      \/ ~copy /\ idx >= 0 /\ Memory[j] = history[idx]
                           /\ length < Len(Memory[j])
    BY <1>5 DEF ForgetsRightly, Remembered
  <2>1. \A k \in 1 .. cnt' : Memory[j] # history'[k - 1]
    BY <1>7 DEF Remembered
  <2> DEFINE m == j - 1
  <2>2. m \in 0 .. H - 1 /\ m < cnt /\ j = m + 1 /\ j - 1 = m
    BY <1>4
  <2> HIDE DEF m
  <2>3. Memory[j] = history[m]
    BY <1>5, <2>2
  <2>4. \A k \in 0 .. H - 1 : k < cnt' => history[m] # history'[k]
    <3> SUFFICES ASSUME NEW k \in 0 .. H - 1, k < cnt' PROVE history[m] # history'[k]
      OBVIOUS
    <3>1. k + 1 \in 1 .. cnt' /\ (k + 1) - 1 = k
      BY <1>4
    <3> QED BY <2>1, <2>3, <3>1
  <2>5. ~(m < last)
    <3> SUFFICES ASSUME m < last PROVE FALSE
      OBVIOUS
    <3>1. m + 1 \in 1 .. H - 1 /\ m + 1 <= last /\ (m + 1) - 1 = m /\ m + 1 < cnt'
      BY <1>3, <1>4, <2>2
    <3>2. history'[m + 1] = history[m]
      BY <1>9, <3>1
    <3> QED BY <1>4, <2>4, <3>1, <3>2
  <2>6. CASE copy
    <3>1. cnt = H /\ m + 1 = cnt
      BY <1>3, <1>4, <2>2, <2>5, <2>6
    <3> QED BY <2>2, <2>6, <3>1
  <2>7. CASE ~copy
    <3>1. m = idx
      <4> SUFFICES ASSUME m # last PROVE FALSE
        BY <1>3, <2>7
      <4>1. m \in 1 .. H - 1 /\ ~(m <= last) /\ m < cnt'
        BY <1>3, <1>4, <2>2, <2>5, <2>7
      <4>2. history'[m] = history[m]
        BY <1>9, <4>1
      <4> QED BY <2>2, <2>4, <4>1, <4>2
    <3>2. idx # -1 /\ idx >= 0
      BY <2>2, <3>1
    <3>3. length <= Len(history[idx]) /\ (length = Len(history[idx]) => Line = history[idx])
      BY <2>7, <3>2 DEF Recalled
    <3>4. Line # history[m]
      <4>1. 0 \in 0 .. H - 1 /\ 0 < cnt'
        BY <1>4
      <4> QED BY <1>8, <2>4, <4>1
    <3>5. Len(history[idx]) \in Nat
      BY <2>2, <3>1, SeqLen DEF Recalled
    <3>6. length < Len(history[idx])
      BY <1>1, <3>1, <3>3, <3>4, <3>5
    <3> QED BY <2>3, <2>7, <3>1, <3>2, <3>6
  <2> QED BY <1>4, <2>6, <2>7
<1> QED
  BY <1>10, <1>11, <1>12

(* A carriage return enters the line.                                      *)
LEMMA ReturnEdits ==
  ASSUME CmdlineAssumption, Shown, Recalled, entered = <<>>, CarriageReturn
  PROVE  Editor!EditorNext
<1>1. /\ buffer' \in [Slots -> Chars \cup {NUL}]
      /\ Text(buffer', strlen(buffer')) = Line
  BY EnteredLine
<1>2. /\ length' = 0 /\ editPos' = 0
      /\ SaveHistory(Line) /\ entered' \in {<<>>, <<Line>>}
  BY <1>1 DEF CarriageReturn
<1>3. left \o right = Line
  BY WholeLine DEF left, right, Shown, Line
<1>4. left' = <<>> /\ right' = <<>>
  BY <1>2 DEF left, right, Before, After, Text
<1>5. Line = <<>> => Memory' = Memory
  BY <1>2 DEF SaveHistory, Memory
<1>6. Line # <<>> =>
        /\ Memory' # <<>> /\ Memory'[1] = Line
        /\ \A i \in 2 .. Len(Memory') : \E k \in 1 .. Len(Memory) : Memory'[i] = Memory[k]
  BY LineSaved
<1>7. SubSeq(Line, 1, editPos) \o SubSeq(Line, editPos + 1, length) = Line
  BY <1>3, SidesMapped, Zenon
<1>8. SubSeq(Line, 1, editPos)' = <<>> /\ SubSeq(Line, editPos + 1, length)' = <<>>
  BY <1>4 DEF left, right, Before, After, Line
<1>9. Editor!Enter
  BY <1>2, <1>5, <1>6, <1>7, <1>8, Zenon DEF Editor!Enter
<1> QED
  BY <1>9 DEF Editor!EditorNext

(* Every step of the console is a step of the line editor or none.         *)
LEMMA StepEdits ==
  ASSUME CmdlineAssumption, LineInv, [LineNext]_consoleVars
  PROVE  Editor!EditorNext \/ UNCHANGED Editor!editorVars
<1>0. Shown /\ Recalled /\ Due
  BY DEF LineInv
<1>1. CASE Input
  <2>1. PICK c \in Received : cmdlineInputFunc(c)
    BY <1>1 DEF Input
  <2>2. entered = <<>>
    BY <1>0, <1>1 DEF Input, Due
  <2>3. CASE UNCHANGED <<lineVars, historyVars, term, exec, entered>>
    BY <2>3, NothingEdited
  <2>4. CASE Arrow(c) /\ UNCHANGED <<exec, entered>>
    <3>1. CASE DoHistory(1)
      BY <1>0, <2>2, <2>4, <3>1, HistoryEdits
    <3>2. CASE DoHistory(-1)
      BY <1>0, <2>2, <2>4, <3>2, HistoryEdits
    <3>3. CASE ArrowRight \/ ArrowLeft
      BY <1>0, <2>2, <2>4, <3>3, CursorEdits
    <3>4. CASE UNCHANGED <<lineVars, historyVars, term>>
      BY <2>4, <3>4, NothingEdited
    <3> QED BY <2>4, <3>1, <3>2, <3>3, <3>4 DEF Arrow
  <2>5. CASE vt100 # 2 /\ Regular(c)
    <3>1. CASE c \in Typed \cup Arrows /\ Printable(c) /\ UNCHANGED <<exec, entered>>
      <4>1. c \in Typed
        BY <2>1, <2>5, <3>1 DEF Received, Keys, Arrows
      <4> QED BY <1>0, <2>2, <3>1, <4>1, PrintableEdits
    <3>2. CASE CarriageReturn
      BY <1>0, <2>2, <3>2, ReturnEdits
    <3>3. CASE Delete /\ UNCHANGED <<exec, entered>>
      BY <1>0, <2>2, <3>3, DeleteEdits
    <3> QED BY <2>3, <2>5, <3>1, <3>2, <3>3 DEF Regular
  <2>6. vt100 = 0 \/ vt100 = 1 => vt100 # 2
    OBVIOUS
  <2> QED BY <2>1, <2>3, <2>4, <2>5, <2>6 DEF cmdlineInputFunc
<1>2. CASE NoCharacter \/ UNCHANGED consoleVars
  <2>1. UNCHANGED <<lineVars, historyVars, entered>>
    BY <1>2 DEF NoCharacter, consoleVars
  <2> QED BY <2>1, NothingEdited
<1>3. CASE MainLoop
  <2>1. UNCHANGED <<lineVars, historyVars>> /\ entered' = <<>>
    BY <1>3 DEF MainLoop, cmdlineMainLoop
  <2>2. CASE entered = <<>>
    BY <2>1, <2>2, NothingEdited
  <2>3. CASE entered # <<>>
    <3>1. /\ SubSeq(Line, 1, editPos)' = SubSeq(Line, 1, editPos)
          /\ SubSeq(Line, editPos + 1, length)' = SubSeq(Line, editPos + 1, length)
          /\ Memory' = Memory
      BY <2>1 DEF lineVars, historyVars, Line, Text, Memory
    <3>2. Editor!Execute
      BY <2>1, <2>3, <3>1, Zenon DEF Editor!Execute
    <3> QED BY <3>2 DEF Editor!EditorNext
  <2> QED BY <2>2, <2>3
<1> QED
  BY <1>1, <1>2, <1>3 DEF LineNext

(* cmdlineInputFunc and cmdlineMainLoop implement a plain line editor with *)
(* a memory: the safety part of EditsLikeLineEditor, that is, without the  *)
(* promise that an entered line is executed.                               *)
THEOREM LineEdited ==
  ASSUME CmdlineAssumption
  PROVE  LineSpec => Editor!EditorInit /\ [][Editor!EditorNext]_(Editor!editorVars)
<1>1. LineInit => Editor!EditorInit
  <2> SUFFICES ASSUME LineInit PROVE Editor!EditorInit
    OBVIOUS
  <2>1. SubSeq(Line, 1, editPos) = <<>> /\ SubSeq(Line, editPos + 1, length) = <<>>
    BY DEF LineInit, Line, Text
  <2>2. Memory = <<>>
    BY DEF LineInit, Memory
  <2> QED BY <2>1, <2>2 DEF LineInit, Editor!EditorInit
<1>2. LineInv /\ [LineNext]_consoleVars => [Editor!EditorNext]_(Editor!editorVars)
  BY StepEdits
<1>3. LineInv /\ [LineNext]_consoleVars => LineInv'
  BY LineInductive
<1>4. LineInit => LineInv
  BY LineStart
<1> QED
  BY <1>1, <1>2, <1>3, <1>4, PTL DEF LineSpec

(* cmdlineDoHistory forgets no line but the oldest of a full history and   *)
(* one that a shortened form of it replaces.                               *)
THEOREM HistoryForgetsRightly ==
  ASSUME CmdlineAssumption
  PROVE  LineSpec => HistoryKept
<1>1. LineInv /\ [LineNext]_consoleVars => [ForgetsRightly]_consoleVars
  <2> SUFFICES ASSUME LineInv, [LineNext]_consoleVars PROVE ForgetsRightly
    OBVIOUS
  <2>0. Shown /\ Recalled
    BY DEF LineInv
  <2>1. CASE history' = history /\ cnt' = cnt
    BY <2>1 DEF ForgetsRightly, Memory
  <2>2. CASE CarriageReturn
    <3>1. CASE Line = <<>>
      <4>1. SaveHistory(Line)
        BY <2>0, <2>2, EnteredLine, Zenon DEF CarriageReturn
      <4> QED BY <2>1, <3>1, <4>1 DEF SaveHistory
    <3>2. CASE Line # <<>>
      BY <2>0, <2>2, <3>2, LineSaved
    <3> QED BY <3>1, <3>2
  <2>3. \/ history' = history /\ cnt' = cnt
        \/ CarriageReturn
    <3>1. ASSUME NEW c, cmdlineInputFunc(c)
          PROVE  CarriageReturn \/ (history' = history /\ cnt' = cnt)
      <4>1. CASE Arrow(c)
        BY <4>1 DEF Arrow, DoHistory, ArrowRight, ArrowLeft, historyVars
      <4>2. CASE Regular(c)
        BY <4>2 DEF Regular, Printable, Delete, historyVars
      <4> QED BY <3>1, <4>1, <4>2, SMTT(20) DEF cmdlineInputFunc, historyVars
    <3> QED BY <3>1 DEF LineNext, Input, NoCharacter, MainLoop, cmdlineMainLoop, consoleVars, historyVars
  <2> QED BY <2>1, <2>2, <2>3
<1>2. LineInv /\ [LineNext]_consoleVars => LineInv'
  BY LineInductive
<1>3. LineInit => LineInv
  BY LineStart
<1> QED
  BY <1>1, <1>2, <1>3, PTL DEF LineSpec, HistoryKept
=============================================================================
