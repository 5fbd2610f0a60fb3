--------------------------- MODULE StepPathProofs ---------------------------
(***************************************************************************)
(* Proofs about the step path, for every width of the position and of the  *)
(* counters, every step bit, every velocity of at most a step a clock and  *)
(* every setting of the pulse shaper that raises the step line at all.     *)
(***************************************************************************)
EXTENDS StepPath, TLAPS

-----------------------------------------------------------------------------
(* Quotients and remainders.                                               *)

(* Quotient and remainder give the number back.                            *)
LEMMA Division ==
  ASSUME NEW n \in Int, NEW m \in Nat \ {0}
  PROVE  /\ n % m \in 0 .. m - 1
         /\ n \div m \in Int
         /\ n = m * (n \div m) + (n % m)
  BY SMT

(* There is only one way to write a number as a multiple of m and a rest   *)
(* below m.                                                                *)
LEMMA DivisionUnique ==
  ASSUME NEW n \in Int, NEW m \in Nat \ {0}, NEW r \in 0 .. m - 1,
         NEW q \in Int, n = m * q + r
  PROVE  n % m = r /\ n \div m = q
  BY SMT

(* A multiple of m adds to the quotient and leaves the remainder alone.    *)
LEMMA Multiple ==
  ASSUME NEW n \in Int, NEW m \in Nat \ {0}, NEW k \in Int
  PROVE  (n + m * k) % m = n % m /\ (n + m * k) \div m = n \div m + k
<1>1. n = m * (n \div m) + (n % m) /\ n \div m \in Int /\ n % m \in 0 .. m - 1
  BY Division
<1> DEFINE q == n \div m
           r == n % m
           s == n + m * k
<1>2. q \in Int /\ r \in 0 .. m - 1 /\ s \in Int /\ n = m * q + r
  BY <1>1
<1>3. m * (q + k) = m * q + m * k
  BY <1>2
<1>4. s = m * (q + k) + r
  BY <1>2, <1>3
<1>5. s % m = r /\ s \div m = q + k
  <2> HIDE DEF q, r, s
  <2> QED BY <1>2, <1>4, DivisionUnique
<1> QED
  BY <1>5

(* Reducing a summand first makes no difference.                           *)
LEMMA SumMod ==
  ASSUME NEW p \in Int, NEW q \in Int, NEW m \in Nat \ {0}
  PROVE  ((p % m) + q) % m = (p + q) % m
<1>1. p = m * (p \div m) + (p % m) /\ p \div m \in Int /\ p % m \in Int
  BY Division
<1> DEFINE k == p \div m
           t == (p % m) + q
<1>2. k \in Int /\ t \in Int /\ p + q = t + m * k
  BY <1>1
<1>3. (t + m * k) % m = t % m
  <2> HIDE DEF k, t
  <2> QED BY <1>2, Multiple, Zenon
<1> QED
  BY <1>2, <1>3
-----------------------------------------------------------------------------
(* The circle of step positions.                                           *)

(* The circle has an even number of step positions, Weight apart: the step *)
(* bit survives the wrap of x.                                             *)
LEMMA TurnEven == /\ Turn \in Nat \ {0}
                  /\ 2 * XHalf = Weight * Turn
                  /\ \E c \in Nat : Turn = 2 * c
<1> DEFINE c == (2 * XHalf) \div (2 * Weight)
<1>1. 2 * XHalf \in Nat \ {0} /\ 2 * Weight \in Nat \ {0} /\ Weight \in Nat \ {0}
  BY StepAssumption
<1>2. c \in Int /\ 2 * XHalf = (2 * Weight) * c
  <2> DEFINE a == 2 * XHalf
             b == 2 * Weight
  <2>1. a \in Int /\ b \in Nat \ {0} /\ a % b = 0
    BY <1>1, StepAssumption
  <2>2. a \div b \in Int /\ a = b * (a \div b) + (a % b)
    <3> HIDE DEF a, b
    <3> QED BY <2>1, Division
  <2>3. a = b * (a \div b)
    <3> HIDE DEF a, b
    <3> QED BY <2>1, <2>2
  <2> QED BY <2>2, <2>3
<1>3. 2 * XHalf = Weight * (2 * c)
  BY <1>1, <1>2
<1>4. (2 * XHalf) \div Weight = 2 * c
  <2> HIDE DEF c
  <2>1. 2 * XHalf = Weight * (2 * c) + 0 /\ 2 * c \in Int /\ 0 \in 0 .. Weight - 1
    BY <1>1, <1>2, <1>3
  <2> QED BY <1>1, <2>1, DivisionUnique
<1>5. c \in Nat \ {0}
  <2> HIDE DEF c
  <2> QED BY <1>1, <1>2, SMT
<1> QED
  BY <1>3, <1>4, <1>5 DEF Turn

(* Wrapping keeps x in its register and shifts it by whole turns.          *)
LEMMA XWrapTurns ==
  ASSUME NEW n \in Int
  PROVE  /\ XWrap(n) \in XWord
         /\ \E e \in Int : XWrap(n) = n + Weight * (Turn * e)
<1>1. 2 * XHalf \in Nat \ {0} /\ XHalf \in Nat /\ Weight \in Int
  BY StepAssumption
<1> DEFINE d == (n + XHalf) \div (2 * XHalf)
           r == (n + XHalf) % (2 * XHalf)
<1>2. d \in Int /\ r \in 0 .. 2 * XHalf - 1 /\ n + XHalf = (2 * XHalf) * d + r
  <2> DEFINE a == n + XHalf
             b == 2 * XHalf
  <2>1. a \in Int /\ b \in Nat \ {0}
    BY <1>1
  <2>2. a % b \in 0 .. b - 1 /\ a \div b \in Int /\ a = b * (a \div b) + (a % b)
    <3> HIDE DEF a, b
    <3> QED BY <2>1, Division
  <2> QED BY <2>2
<1>3. XWrap(n) = r - XHalf
  BY DEF XWrap
<1>4. XWrap(n) \in XWord
  BY <1>1, <1>2, <1>3 DEF XWord
<1>5. (2 * XHalf) * d = Weight * (Turn * d)
  BY <1>1, <1>2, TurnEven
<1>6. XWrap(n) = n + Weight * (Turn * (-d))
  <2> HIDE DEF d, r
  <2>1. Weight * (Turn * (-d)) = -(Weight * (Turn * d))
    BY <1>1, <1>2, TurnEven
  <2> QED BY <1>1, <1>2, <1>3, <1>5, <2>1
<1> QED
  BY <1>2, <1>4, <1>6

(* In one clock x passes at most one step position, in the direction of    *)
(* the velocity.                                                           *)
LEMMA OneStep ==
  ASSUME NEW n \in Int, NEW vel \in (-Weight) .. Weight
  PROVE  \E d \in {-1, 0, 1} : /\ (n + vel) \div Weight = (n \div Weight) + d
                               /\ d = 1 => vel > 0
                               /\ d = -1 => ~(vel > 0)
<1>1. Weight \in Nat \ {0}
  BY StepAssumption
<1> DEFINE q == n \div Weight
           r == n % Weight
<1>2. q \in Int /\ r \in 0 .. Weight - 1 /\ n = Weight * q + r
  BY <1>1, Division
<1> HIDE DEF q, r
<1>3. CASE r + vel < 0
  <2>1. n + vel = Weight * (q - 1) + (r + vel + Weight)
    BY <1>1, <1>2
  <2>2. r + vel + Weight \in 0 .. Weight - 1 /\ q - 1 \in Int /\ n + vel \in Int
    BY <1>1, <1>2, <1>3
  <2>3. (n + vel) \div Weight = q - 1
    BY <1>1, <2>1, <2>2, DivisionUnique
  <2>4. ~(vel > 0)
    BY <1>1, <1>2, <1>3
  <2> QED BY <1>2, <2>3, <2>4 DEF q
<1>4. CASE r + vel \in 0 .. Weight - 1
  <2>1. n + vel = Weight * q + (r + vel) /\ n + vel \in Int
    BY <1>1, <1>2
  <2>2. (n + vel) \div Weight = q
    BY <1>1, <1>2, <1>4, <2>1, DivisionUnique
  <2> QED BY <1>2, <2>2 DEF q
<1>5. CASE r + vel >= Weight
  <2>1. n + vel = Weight * (q + 1) + (r + vel - Weight)
    BY <1>1, <1>2
  <2>2. r + vel - Weight \in 0 .. Weight - 1 /\ q + 1 \in Int /\ n + vel \in Int
    BY <1>1, <1>2, <1>5
  <2>3. (n + vel) \div Weight = q + 1
    BY <1>1, <2>1, <2>2, DivisionUnique
  <2>4. vel > 0
    BY <1>1, <1>2, <1>5
  <2> QED BY <1>2, <2>3, <2>4 DEF q
<1> QED
  BY <1>1, <1>2, <1>3, <1>4, <1>5

(* A clock of motion strobes exactly when the step position changes, by    *)
(* one, and in the direction it tells.                                     *)
LEMMA MoveStrobes ==
  ASSUME x \in XWord, NEW vel \in (-Weight) .. Weight, Move(vel)
  PROVE  /\ x' \in XWord /\ step' \in BOOLEAN
         /\ Position(x') = (Position(x) + (IF step' THEN Sign(dir') ELSE 0)) % Turn
<1>1. Weight \in Nat \ {0} /\ Turn \in Nat \ {0} /\ x \in Int /\ x + vel \in Int
  BY StepAssumption, TurnEven DEF XWord
<1>2. PICK e \in Int : XWrap(x + vel) = (x + vel) + Weight * (Turn * e)
  BY <1>1, XWrapTurns, Zenon
<1>3. PICK d \in {-1, 0, 1} : /\ (x + vel) \div Weight = (x \div Weight) + d
                              /\ d = 1 => vel > 0
                              /\ d = -1 => ~(vel > 0)
  BY <1>1, OneStep, Zenon
<1>4. PICK c \in Nat : Turn = 2 * c
  BY TurnEven
<1> DEFINE q == x \div Weight
           u == q + d
<1>5. q \in Int /\ u \in Int
  BY <1>1, Division
<1>6. x' \div Weight = u + Turn * e
  <2>1. Turn * e \in Int
    BY <1>1
  <2>2. ((x + vel) + Weight * (Turn * e)) \div Weight = ((x + vel) \div Weight) + Turn * e
    BY <1>1, <2>1, Multiple
  <2> QED BY <1>2, <1>3, <2>2 DEF Move
<1>7. StepBit(x') = u % 2
  <2>1. Turn * e = 2 * (c * e) /\ c * e \in Int
    BY <1>4
  <2>2. (u + 2 * (c * e)) % 2 = u % 2
    <3> DEFINE k == c * e
    <3>1. k \in Int /\ u \in Int /\ 2 \in Nat \ {0}
      BY <1>5, <2>1
    <3>2. (u + 2 * k) % 2 = u % 2
      <4> HIDE DEF k, u
      <4> QED BY <3>1, Multiple
    <3> QED BY <3>2
  <2> HIDE DEF u
  <2> QED BY <1>6, <2>1, <2>2 DEF StepBit
<1>8. step' <=> d # 0
  <2>1. StepBit(x) = q % 2
    BY DEF StepBit
  <2>2. u % 2 # q % 2 <=> d # 0
    <3> HIDE DEF q
    <3> QED BY <1>5
  <2> QED BY <1>7, <2>1, <2>2, Zenon DEF Move
<1>9. (IF step' THEN Sign(dir') ELSE 0) = d
  BY <1>3, <1>8, Zenon DEF Move, Sign
<1>10. Position(x') = u % Turn
  <2> HIDE DEF u
  <2>1. (u + Turn * e) % Turn = u % Turn
    BY <1>1, <1>5, Multiple, Zenon
  <2> QED BY <1>6, <2>1 DEF Position
<1>11. (Position(x) + d) % Turn = u % Turn
  <2>1. ((q % Turn) + d) % Turn = (q + d) % Turn
    <3>1. d \in Int
      OBVIOUS
    <3> HIDE DEF q
    <3> QED BY <1>1, <1>5, <3>1, SumMod, Zenon
  <2> QED BY <2>1 DEF Position
<1>12. x' \in XWord
  BY <1>1, XWrapTurns DEF Move
<1> QED
  BY <1>8, <1>9, <1>10, <1>11, <1>12 DEF Move

(* Reducing two of three summands first makes no difference.               *)
LEMMA SumThree ==
  ASSUME NEW p \in Int, NEW q \in Int, NEW r \in Int, NEW m \in Nat \ {0}
  PROVE  ((p % m) + (q % m) + r) % m = (p + q + r) % m
<1>1. p % m \in Int /\ q % m \in Int
  BY Division
<1> DEFINE a == p % m
           b == q % m
<1>2. a \in Int /\ b \in Int
  BY <1>1
<1>3. ((p % m) + (b + r)) % m = (p + (b + r)) % m
  <2>1. b + r \in Int
    BY <1>2
  <2> HIDE DEF b
  <2> QED BY <2>1, SumMod, Zenon
<1>4. ((q % m) + (p + r)) % m = (q + (p + r)) % m
  <2>1. p + r \in Int
    OBVIOUS
  <2> QED BY <2>1, SumMod, Zenon
<1>5. a + b + r = a + (b + r) /\ p + (b + r) = b + (p + r) /\ q + (p + r) = p + q + r
  <2> HIDE DEF a, b
  <2> QED BY <1>2
<1> QED
  BY <1>3, <1>4, <1>5

(* The parameters and the histories' cap.                                  *)
LEMMA MType == M \in Nat \ {0} /\ Turn \in Nat \ {0}
  BY HAssumption, TurnEven DEF M

(* A step position is a point of the circle.                               *)
LEMMA PositionType ==
  ASSUME NEW n \in Int
  PROVE  Position(n) \in 0 .. Turn - 1
<1>1. n \div Weight \in Int
  BY StepAssumption, Division
<1> QED
  BY <1>1, MType, Division, Zenon DEF Position
-----------------------------------------------------------------------------
(* The pulse shaper.  Where the count stands tells the level of the step   *)
(* line and bounds how long the lines have been as they are.               *)

TimingOK == timing \in Timings

ShaperInv ==
  /\ S_Step <=> (cnt > Rise /\ cnt <= timing.pulse_n)
  /\ cnt <= timing.pulse_n \/ cnt <= timing.post_n
  /\ high = IF S_Step THEN cnt - Rise ELSE 0
  /\ cnt > 0 => sinceDir >= cnt - 1
  /\ cnt > timing.pulse_n => sincePulse >= cnt - timing.pulse_n
  /\ cnt = 0 => sincePulse >= HoldTime

(* The three points are words, and the pulse has room between the first    *)
(* and the second.                                                         *)
LEMMA TimingType ==
  ASSUME TimingOK
  PROVE  /\ timing.pre_n \in Word /\ timing.pulse_n \in Word /\ timing.post_n \in Word
         /\ Rise \in Word /\ Rise >= 1 /\ Rise < timing.pulse_n
         /\ Rise = 1 \/ Rise = timing.pre_n
         /\ timing.pre_n <= Rise
         /\ HoldTime \in 1 .. M
<1>1. /\ timing.pre_n \in Word /\ timing.pulse_n \in Word /\ timing.post_n \in Word
      /\ timing.pre_n < timing.pulse_n /\ timing.pulse_n > 1
  BY StepAssumption DEF TimingOK
<1> QED
  BY <1>1, MType DEF Rise, HoldTime, Word

(* One clock of the shaper: where the count goes, that the step line       *)
(* follows it, and that only an idle shaper turns the direction line.      *)
LEMMA ShapeStep ==
  ASSUME TimingOK, MotorTypeOK, ShaperInv, Shape, step \in BOOLEAN, dir \in BOOLEAN
  PROVE  /\ \/ cnt' = 0
            \/ cnt = 0 /\ cnt' = 1
            \/ cnt > 0 /\ cnt' = cnt + 1
         /\ cnt' \in Word /\ S_Step' \in BOOLEAN /\ S_Dir' \in BOOLEAN
         /\ missed' = Dropped /\ missed' \in BOOLEAN
         /\ cnt > 0 => S_Dir' = S_Dir
         /\ cnt = 0 => cnt' = IF step THEN 1 ELSE 0
         /\ cnt = 0 => S_Dir' = IF step THEN dir ELSE S_Dir
         /\ S_Step' <=> (cnt' > Rise /\ cnt' <= timing.pulse_n)
         /\ cnt' <= timing.pulse_n \/ cnt' <= timing.post_n
         /\ cnt > 0 /\ cnt' = 0 => cnt >= timing.pulse_n /\ cnt >= timing.post_n
<1>1. CASE MotorIdle(step, dir)
  <2>1. /\ cnt = 0 /\ cnt' = IF step THEN 1 ELSE 0
        /\ S_Dir' = IF step THEN dir ELSE S_Dir
        /\ S_Step' = FALSE /\ missed' = FALSE
    BY <1>1 DEF MotorIdle
  <2>2. cnt' \in {0, 1} /\ cnt' \in Word /\ ~(cnt' > Rise) /\ cnt' <= timing.pulse_n
    BY <2>1, TimingType, MType DEF Word
  <2>3. missed' = Dropped
    BY <2>1, Zenon DEF Dropped
  <2>4. S_Dir' \in BOOLEAN
    BY <2>1 DEF MotorTypeOK
  <2>5. ~(cnt > 0)
    BY <2>1
  <2> QED BY <2>1, <2>2, <2>3, <2>4, <2>5, Zenon
<1>2. CASE MotorBusy(timing.pre_n, timing.pulse_n, timing.post_n, step, dir)
  <2> DEFINE busy == cnt < timing.pre_n \/ cnt < timing.pulse_n \/ cnt < timing.post_n
  <2>1. /\ cnt \in Word /\ cnt # 0 /\ S_Dir' = S_Dir /\ missed' = step
        /\ cnt' = IF busy THEN (cnt + 1) % M ELSE 0
        /\ S_Step' = (~(cnt < timing.pre_n) /\ cnt < timing.pulse_n)
    BY <1>2 DEF MotorBusy, MotorTypeOK
  <2>2. cnt > 0
    BY <2>1 DEF Word
  <2>3. /\ cnt' = IF busy THEN cnt + 1 ELSE 0
        /\ cnt' \in Word
    <3>1. CASE busy
      <4>1. cnt + 1 < M
        BY <2>1, <3>1, TimingType, MType DEF Word
      <4>2. (cnt + 1) % M = cnt + 1
        BY <2>1, <4>1, MType DEF Word
      <4> QED BY <2>1, <3>1, <4>1, <4>2, MType DEF Word
    <3>2. CASE ~busy
      BY <2>1, <3>2, MType DEF Word
    <3> QED BY <3>1, <3>2
  <2>4. /\ (~(cnt < timing.pre_n) /\ cnt < timing.pulse_n)
              <=> (cnt' > Rise /\ cnt' <= timing.pulse_n)
        /\ cnt' <= timing.pulse_n \/ cnt' <= timing.post_n
        /\ cnt' = 0 => cnt >= timing.pulse_n /\ cnt >= timing.post_n
    BY <2>1, <2>2, <2>3, TimingType DEF Word
  <2>5. missed' = Dropped /\ missed' \in BOOLEAN
    BY <2>1 DEF Dropped
  <2>6. S_Dir' \in BOOLEAN /\ S_Step' \in BOOLEAN
    BY <2>1 DEF MotorTypeOK
  <2> HIDE DEF busy
  <2> QED BY <2>1, <2>2, <2>3, <2>4, <2>5, <2>6, Zenon
<1> QED
  BY <1>1, <1>2 DEF Shape

(* One clock of the shaper keeps its invariant, with the histories that    *)
(* measure its lines.                                                      *)
LEMMA ShaperKept ==
  ASSUME TimingOK, StepTypeOK, ShaperInv, Shape, NEW clear \in BOOLEAN, History(clear),
         UNCHANGED timing
  PROVE  ShaperInv' /\ high' \in 0 .. M /\ sinceDir' \in 0 .. M /\ sincePulse' \in 0 .. M
<1> USE TimingType, MType
<1>1. /\ MotorTypeOK /\ step \in BOOLEAN /\ dir \in BOOLEAN
      /\ cnt \in Nat /\ sinceDir \in 0 .. M /\ sincePulse \in 0 .. M /\ high \in 0 .. M
  BY DEF StepTypeOK, MotorTypeOK, Word
<1>2. /\ cnt' \in Word
      /\ \/ cnt' = 0
         \/ cnt = 0 /\ cnt' = 1
         \/ cnt > 0 /\ cnt' = cnt + 1
      /\ cnt > 0 => S_Dir' = S_Dir
      /\ S_Step' <=> (cnt' > Rise /\ cnt' <= timing.pulse_n)
      /\ cnt' <= timing.pulse_n \/ cnt' <= timing.post_n
      /\ cnt > 0 /\ cnt' = 0 => cnt >= timing.pulse_n /\ cnt >= timing.post_n
  BY <1>1, ShapeStep
<1>3. Rise' = Rise /\ HoldTime' = HoldTime
  BY DEF Rise, HoldTime
<1>4. /\ sinceDir' = IF S_Dir' # S_Dir THEN 0 ELSE Capped(sinceDir + 1)
      /\ sincePulse' = IF S_Step' THEN 0 ELSE Capped(sincePulse + 1)
      /\ high' = IF S_Step' THEN high + 1 ELSE 0
  BY DEF History
<1>5. sinceDir' \in 0 .. M /\ sincePulse' \in 0 .. M
  BY <1>1, <1>4 DEF Capped
<1>6. high' = IF S_Step' THEN cnt' - Rise ELSE 0
  <2>1. CASE ~S_Step'
    BY <1>4, <2>1
  <2>2. CASE S_Step'
    <3>1. cnt' > Rise /\ cnt' = cnt + 1 /\ cnt' <= timing.pulse_n
      BY <1>1, <1>2, <2>2 DEF Word
    <3>2. high = cnt - Rise
      <4>1. CASE cnt > Rise
        BY <1>1, <3>1, <4>1 DEF ShaperInv, Word
      <4>2. CASE cnt = Rise
        <5>1. ~S_Step
          BY <1>1, <4>2 DEF ShaperInv, Word
        <5> QED BY <1>1, <5>1, <4>2 DEF ShaperInv, Word
      <4> QED BY <1>1, <3>1, <4>1, <4>2 DEF Word
    <3> QED BY <1>1, <1>4, <2>2, <3>1, <3>2 DEF Word
  <2> QED BY <2>1, <2>2
<1>7. high' \in 0 .. M
  BY <1>2, <1>6 DEF Word
<1>8. cnt' > 0 => sinceDir' >= cnt' - 1
  <2>1. CASE cnt = 0 /\ cnt' = 1
    BY <1>5, <2>1
  <2>2. CASE cnt > 0 /\ cnt' = cnt + 1
    <3>1. sinceDir >= cnt - 1 /\ sinceDir' = Capped(sinceDir + 1)
      BY <1>2, <1>4, <2>2 DEF ShaperInv
    <3> QED BY <1>1, <1>2, <2>2, <3>1 DEF Capped, Word
  <2> QED BY <1>2, <2>1, <2>2
<1>9. cnt' > timing.pulse_n => sincePulse' >= cnt' - timing.pulse_n
  <2> SUFFICES ASSUME cnt' > timing.pulse_n PROVE sincePulse' >= cnt' - timing.pulse_n
    OBVIOUS
  <2>1. cnt > 0 /\ cnt' = cnt + 1
    BY <1>2 DEF Word
  <2>2. ~S_Step' /\ sincePulse' = Capped(sincePulse + 1)
    BY <1>2, <1>4 DEF Word
  <2>3. sincePulse >= cnt - timing.pulse_n
    BY <1>1, <2>1 DEF ShaperInv, Word
  <2> QED BY <1>1, <1>2, <2>1, <2>2, <2>3 DEF Capped, Word
<1>10. cnt' = 0 => sincePulse' >= HoldTime
  <2> SUFFICES ASSUME cnt' = 0 PROVE sincePulse' >= HoldTime
    OBVIOUS
  <2>1. ~S_Step' /\ sincePulse' = Capped(sincePulse + 1)
    BY <1>2, <1>4 DEF Word
  <2>2. CASE cnt = 0
    BY <1>1, <2>1, <2>2 DEF ShaperInv, Capped
  <2>3. CASE cnt > 0
    <3>1. cnt >= timing.pulse_n /\ cnt >= timing.post_n
      BY <1>2, <2>3
    <3>2. timing.post_n > timing.pulse_n => sincePulse >= timing.post_n - timing.pulse_n
      BY <1>1, <3>1 DEF ShaperInv, Word
    <3> QED BY <1>1, <2>1, <3>2 DEF Capped, HoldTime, Word
  <2> QED BY <1>1, <2>2, <2>3
<1> QED
  BY <1>2, <1>3, <1>5, <1>6, <1>7, <1>8, <1>9, <1>10 DEF ShaperInv
-----------------------------------------------------------------------------
(* The invariants, step by step.                                           *)

(* A strobe is worth one step position, whatever its direction.            *)
LEMMA SignType ==
  ASSUME NEW d \in BOOLEAN
  PROVE  Sign(d) \in {-1, 1} /\ Sign(d) \in Int
  BY DEF Sign

(* One clock of the histories: what they count stays on the circle.        *)
LEMMA HistoryType ==
  ASSUME StepTypeOK, NEW clear \in BOOLEAN, History(clear),
         step' \in BOOLEAN, dir' \in BOOLEAN, S_Dir' \in BOOLEAN
  PROVE  /\ tally' = (tally + (IF step' THEN Sign(dir') ELSE 0)) % Turn
         /\ shaft' = (shaft + (IF ~S_Step /\ S_Step' THEN Sign(S_Dir') ELSE 0)) % Turn
         /\ lost' = (lost + (IF Dropped THEN Sign(dir) ELSE 0)) % Turn
         /\ {tally', shaft', lost'} \subseteq 0 .. Turn - 1
         /\ rejected' \in Word
<1>1. /\ tally \in 0 .. Turn - 1 /\ shaft \in 0 .. Turn - 1 /\ lost \in 0 .. Turn - 1
      /\ rejected \in 0 .. M - 1 /\ dir \in BOOLEAN
  BY DEF StepTypeOK, Word
<1>2. ASSUME NEW n \in 0 .. Turn - 1 PROVE (n + 0) % Turn = n
  BY MType
<1>3. /\ tally' = (tally + (IF step' THEN Sign(dir') ELSE 0)) % Turn
      /\ shaft' = (shaft + (IF ~S_Step /\ S_Step' THEN Sign(S_Dir') ELSE 0)) % Turn
      /\ lost' = (lost + (IF Dropped THEN Sign(dir) ELSE 0)) % Turn
  BY <1>1, <1>2 DEF History
<1>4. ASSUME NEW n \in 0 .. Turn - 1, NEW d \in {-1, 0, 1}
      PROVE  (n + d) % Turn \in 0 .. Turn - 1
  <2>1. n + d \in Int
    OBVIOUS
  <2> QED BY <2>1, MType, Division
<1>5. /\ (IF step' THEN Sign(dir') ELSE 0) \in {-1, 0, 1}
      /\ (IF ~S_Step /\ S_Step' THEN Sign(S_Dir') ELSE 0) \in {-1, 0, 1}
      /\ (IF Dropped THEN Sign(dir) ELSE 0) \in {-1, 0, 1}
  BY DEF Sign
<1>6. {tally', shaft', lost'} \subseteq 0 .. Turn - 1
  BY <1>1, <1>3, <1>4, <1>5
<1>7. rejected' \in Word
  <2> DEFINE n == (IF clear THEN 0 ELSE rejected) + (IF Dropped THEN 1 ELSE 0)
  <2>1. n \in Int
    BY <1>1
  <2>2. rejected' = n % M
    BY DEF History
  <2> HIDE DEF n
  <2> QED BY <2>1, <2>2, MType, Division DEF Word
<1> QED
  BY <1>3, <1>6, <1>7

(* The strobes and the pulses, taken together: each clock moves a strobe   *)
(* to the shaper or to the lost ones, and a waiting pulse to the motor.    *)
LEMMA ShaftKept ==
  ASSUME TimingOK, StepTypeOK, ShaperInv, ShaftFollowsStrobes, Shape,
         NEW clear \in BOOLEAN, History(clear), UNCHANGED timing,
         step' \in BOOLEAN, dir' \in BOOLEAN
  PROVE  ShaftFollowsStrobes'
<1> DEFINE strobe  == IF step THEN Sign(dir) ELSE 0
           strobe1 == IF step' THEN Sign(dir') ELSE 0
           pulse   == IF cnt > 0 /\ cnt <= Rise /\ ~S_Step THEN Sign(S_Dir) ELSE 0
           pulse1  == IF cnt' > 0 /\ cnt' <= Rise /\ ~S_Step' THEN Sign(S_Dir') ELSE 0
           rise    == IF ~S_Step /\ S_Step' THEN Sign(S_Dir') ELSE 0
           miss    == IF Dropped THEN Sign(dir) ELSE 0
<1>1. /\ MotorTypeOK /\ step \in BOOLEAN /\ dir \in BOOLEAN /\ cnt \in Word
      /\ S_Dir \in BOOLEAN /\ S_Step \in BOOLEAN
      /\ tally \in Int /\ shaft \in Int /\ lost \in Int
  BY DEF StepTypeOK, MotorTypeOK
<1>2. /\ cnt' \in Word /\ S_Dir' \in BOOLEAN /\ S_Step' \in BOOLEAN
      /\ \/ cnt' = 0
         \/ cnt = 0 /\ cnt' = 1
         \/ cnt > 0 /\ cnt' = cnt + 1
      /\ cnt > 0 => S_Dir' = S_Dir
      /\ cnt = 0 => cnt' = IF step THEN 1 ELSE 0
      /\ cnt = 0 => S_Dir' = IF step THEN dir ELSE S_Dir
      /\ S_Step' <=> (cnt' > Rise /\ cnt' <= timing.pulse_n)
      /\ cnt > 0 /\ cnt' = 0 => cnt >= timing.pulse_n /\ cnt >= timing.post_n
  BY <1>1, ShapeStep
<1>3. Rise' = Rise
  BY DEF Rise
<1>4. /\ strobe \in Int /\ strobe1 \in Int /\ pulse \in Int
      /\ pulse1 \in Int /\ rise \in Int /\ miss \in Int
  BY <1>1, <1>2 DEF Sign
<1>5. strobe + pulse = pulse1 + rise + miss
  <2>1. CASE cnt = 0
    <3>1. pulse = 0 /\ miss = 0
      BY <2>1 DEF Dropped
    <3>2. ~S_Step'
      BY <1>2, <2>1, TimingType DEF Word
    <3>3. rise = 0
      BY <3>2
    <3>4. CASE step
      <4>1. cnt' = 1 /\ S_Dir' = dir /\ cnt' <= Rise
        BY <1>2, <2>1, <3>4, TimingType DEF Word
      <4> QED BY <1>4, <3>1, <3>2, <3>3, <3>4, <4>1
    <3>5. CASE ~step
      <4>1. cnt' = 0
        BY <1>2, <2>1, <3>5
      <4> QED BY <1>4, <3>1, <3>3, <3>5, <4>1
    <3> QED BY <3>4, <3>5
  <2>2. CASE cnt > 0
    <3>1. strobe = miss
      BY <2>2 DEF Dropped
    <3>2. S_Dir' = S_Dir
      BY <1>2, <2>2
    <3>3. S_Step <=> (cnt > Rise /\ cnt <= timing.pulse_n)
      BY DEF ShaperInv
    <3>4. CASE cnt < Rise
      <4>1. cnt' = cnt + 1 /\ ~S_Step /\ ~S_Step' /\ cnt' <= Rise /\ cnt' > 0
        BY <1>1, <1>2, <2>2, <3>3, <3>4, TimingType DEF Word
      <4>2. cnt <= Rise
        BY <1>1, <3>4, TimingType DEF Word
      <4>3. pulse = Sign(S_Dir) /\ pulse1 = Sign(S_Dir) /\ rise = 0
        BY <2>2, <3>2, <4>1, <4>2
      <4> QED BY <1>4, <3>1, <4>3
    <3>5. CASE cnt = Rise
      <4>1. cnt' = cnt + 1 /\ ~S_Step /\ S_Step'
        BY <1>1, <1>2, <2>2, <3>3, <3>5, TimingType DEF Word
      <4>2. pulse = Sign(S_Dir) /\ pulse1 = 0 /\ rise = Sign(S_Dir)
        BY <2>2, <3>2, <3>5, <4>1, TimingType DEF Word
      <4> QED BY <1>4, <3>1, <4>2
    <3>6. CASE cnt > Rise
      <4> ~(cnt = 0)
        BY <1>1, <2>2 DEF Word
      <4>1. cnt' = 0 \/ cnt' = cnt + 1
        BY <1>2
      <4>2. /\ ~(cnt <= Rise) /\ ~(cnt' > 0 /\ cnt' <= Rise)
            /\ cnt' > Rise /\ cnt' <= timing.pulse_n => cnt <= timing.pulse_n
        BY <1>1, <2>2, <3>6, <4>1, TimingType DEF Word
      <4>3. S_Step' => S_Step
        BY <1>2, <3>3, <3>6, <4>2
      <4>4. pulse = 0 /\ pulse1 = 0 /\ rise = 0
        BY <4>2, <4>3
      <4> QED BY <1>4, <3>1, <4>4
    <3> QED BY <1>1, <3>4, <3>5, <3>6, TimingType DEF Word
  <2> QED BY <1>1, <2>1, <2>2 DEF Word
<1>6. InFlight = strobe + pulse /\ InFlight' = strobe1 + pulse1
  BY <1>3 DEF InFlight
<1>7. /\ tally' = (tally + strobe1) % Turn
      /\ shaft' = (shaft + rise) % Turn
      /\ lost' = (lost + miss) % Turn
  BY <1>2, HistoryType
<1>8. tally = (shaft + lost + (strobe + pulse)) % Turn
  BY <1>6 DEF ShaftFollowsStrobes
<1> HIDE DEF strobe, strobe1, pulse, pulse1, rise, miss
<1> DEFINE all == shaft + lost + (strobe + pulse)
<1>9. tally' = (all + strobe1) % Turn
  <2>1. all \in Int
    BY <1>1, <1>4
  <2> HIDE DEF all
  <2> QED BY <1>4, <1>7, <1>8, <2>1, SumMod, MType DEF all
<1>10. (shaft' + lost' + (strobe1 + pulse1)) % Turn
         = ((shaft + rise) + (lost + miss) + (strobe1 + pulse1)) % Turn
  <2> DEFINE p == shaft + rise
             q == lost + miss
             r == strobe1 + pulse1
  <2>1. p \in Int /\ q \in Int /\ r \in Int
    BY <1>1, <1>4
  <2>2. ((p % Turn) + (q % Turn) + r) % Turn = (p + q + r) % Turn
    <3> HIDE DEF p, q, r
    <3> QED BY <2>1, SumThree, MType, Zenon
  <2> QED BY <1>7, <2>2
<1>11. (shaft + rise) + (lost + miss) + (strobe1 + pulse1) = all + strobe1
  BY <1>1, <1>4, <1>5
<1>12. tally' = (shaft' + lost' + (strobe1 + pulse1)) % Turn
  BY <1>9, <1>10, <1>11
<1> QED
  BY <1>6, <1>12 DEF ShaftFollowsStrobes

(* The counter of missed steps and the count of dropped strobes go up      *)
(* together, one clock apart.                                              *)
LEMMA MissedKept ==
  ASSUME StepTypeOK, MissedStepsCounted, NEW clear \in BOOLEAN,
         CountMissed(clear), History(clear), missed' = Dropped
  PROVE  MissedStepsCounted' /\ stat_missed_steps' \in Word
<1> DEFINE old == IF clear THEN 0 ELSE stat_missed_steps + (IF missed THEN 1 ELSE 0)
           add == IF Dropped THEN 1 ELSE 0
<1>1. /\ stat_missed_steps \in 0 .. M - 1 /\ rejected \in 0 .. M - 1
      /\ missed \in BOOLEAN /\ old \in Int /\ add \in Int
  BY DEF StepTypeOK, MotorTypeOK, Word
<1>2. stat_missed_steps' = old % M
  <2>1. 0 % M = 0 /\ (stat_missed_steps + 0) % M = stat_missed_steps
    BY <1>1, MType
  <2> QED BY <2>1 DEF CountMissed
<1>3. (IF clear THEN 0 ELSE rejected) = old % M
  <2>1. 0 % M = 0
    BY MType
  <2> QED BY <2>1 DEF MissedStepsCounted
<1>4. rejected' = ((old % M) + add) % M
  BY <1>3 DEF History
<1>5. (IF missed' THEN 1 ELSE 0) = add
  OBVIOUS
<1>6. stat_missed_steps' \in Word
  <2> HIDE DEF old
  <2> QED BY <1>1, <1>2, MType, Division DEF Word
<1> QED
  BY <1>2, <1>4, <1>5, <1>6 DEF MissedStepsCounted

(* The inductive invariant of the step path.                               *)
StepInv ==
  /\ TimingOK /\ StepTypeOK /\ ShaperInv
  /\ StrobesFollowPosition /\ ShaftFollowsStrobes /\ MissedStepsCounted

(* It holds when the core starts, and again after a reset.                 *)
LEMMA StepStart ==
  ASSUME TimingOK
  PROVE  /\ StepInit => StepInv
         /\ (StepReset /\ UNCHANGED timing) => StepInv'
<1> USE TimingType, MType
<1>1. /\ 0 \in XWord /\ 0 \in 0 .. Turn - 1 /\ 0 \in Word /\ 0 \in 0 .. M /\ M \in 0 .. M
      /\ 0 % Turn = 0 /\ 0 % M = 0 /\ Position(0) = 0
  BY StepAssumption DEF XWord, Word, Position
<1>2. StepInit => StepInv
  <2> SUFFICES ASSUME StepInit PROVE StepInv
    OBVIOUS
  <2> USE DEF StepInit, MotorInit, HistInit
  <2>1. StepTypeOK
    BY <1>1, Zenon DEF StepTypeOK, MotorTypeOK
  <2>2. ShaperInv
    BY DEF ShaperInv, Word
  <2>3. StrobesFollowPosition /\ ShaftFollowsStrobes /\ MissedStepsCounted
    BY <1>1 DEF StrobesFollowPosition, ShaftFollowsStrobes, MissedStepsCounted, InFlight
  <2> QED BY <2>1, <2>2, <2>3 DEF StepInv
<1>3. (StepReset /\ UNCHANGED timing) => StepInv'
  <2> SUFFICES ASSUME StepReset, UNCHANGED timing PROVE StepInv'
    OBVIOUS
  <2> USE DEF StepReset, MotorReset
  <2>1. StepTypeOK'
    BY <1>1, Zenon DEF StepTypeOK, MotorTypeOK
  <2>2. ShaperInv'
    <3>1. Rise' = Rise /\ HoldTime' = HoldTime
      BY DEF Rise, HoldTime
    <3> QED BY <3>1 DEF ShaperInv, Word
  <2>3. StrobesFollowPosition' /\ ShaftFollowsStrobes' /\ MissedStepsCounted'
    BY <1>1 DEF StrobesFollowPosition, ShaftFollowsStrobes, MissedStepsCounted, InFlight
  <2> QED BY <2>1, <2>2, <2>3 DEF StepInv, TimingOK
<1> QED
  BY <1>2, <1>3

(* A clock that moves x or loads it keeps the invariant.                   *)
LEMMA StepClockKept ==
  ASSUME StepInv, UNCHANGED timing, Shape, NEW clear \in BOOLEAN,
         CountMissed(clear), History(clear),
         x' \in XWord, step' \in BOOLEAN, dir' \in BOOLEAN,
         base' \in 0 .. Turn - 1, StrobesFollowPosition'
  PROVE  StepInv'
<1>1. TimingOK /\ StepTypeOK /\ ShaperInv /\ ShaftFollowsStrobes /\ MissedStepsCounted
  BY DEF StepInv
<1>2. /\ cnt' \in Word /\ S_Dir' \in BOOLEAN /\ S_Step' \in BOOLEAN
      /\ missed' = Dropped /\ missed' \in BOOLEAN
  BY <1>1, ShapeStep DEF StepTypeOK
<1>3. ShaperInv' /\ high' \in 0 .. M /\ sinceDir' \in 0 .. M /\ sincePulse' \in 0 .. M
  BY <1>1, ShaperKept
<1>4. ShaftFollowsStrobes'
  BY <1>1, ShaftKept
<1>5. MissedStepsCounted' /\ stat_missed_steps' \in Word
  BY <1>1, <1>2, MissedKept
<1>6. {tally', shaft', lost'} \subseteq 0 .. Turn - 1 /\ rejected' \in Word
  BY <1>1, <1>2, HistoryType
<1>7. StepTypeOK'
  BY <1>2, <1>3, <1>5, <1>6 DEF StepTypeOK, MotorTypeOK
<1> QED
  BY <1>1, <1>3, <1>4, <1>5, <1>7 DEF StepInv, TimingOK

(* Every step of the path keeps the invariant.                             *)
LEMMA StepInductive == StepInv /\ [StepNext]_pathVars => StepInv'
<1> SUFFICES ASSUME StepInv, [StepNext]_pathVars PROVE StepInv'
  OBVIOUS
<1>1. /\ TimingOK /\ StepTypeOK /\ StrobesFollowPosition
      /\ x \in XWord /\ dir \in BOOLEAN /\ base \in 0 .. Turn - 1 /\ tally \in 0 .. Turn - 1
      /\ Weight \in Nat \ {0}
  BY StepAssumption DEF StepInv, StepTypeOK
<1>2. CASE StepReset /\ UNCHANGED timing
  BY <1>1, <1>2, StepStart
<1>3. ASSUME NEW clear \in BOOLEAN, NEW vel \in Velocities, StepClock(vel, clear),
             UNCHANGED timing
      PROVE  StepInv'
  <2>1. vel \in (-Weight) .. Weight
    BY StepAssumption
  <2>2. /\ Move(vel) /\ Shape /\ CountMissed(clear) /\ History(clear) /\ base' = base
    BY <1>3 DEF StepClock
  <2>3. /\ x' \in XWord /\ step' \in BOOLEAN
        /\ Position(x') = (Position(x) + (IF step' THEN Sign(dir') ELSE 0)) % Turn
    BY <1>1, <2>1, <2>2, MoveStrobes
  <2>4. dir' \in BOOLEAN
    <3>1. dir' = IF step' THEN vel > 0 ELSE dir
      BY <2>2 DEF Move
    <3>2. CASE step'
      <4>1. dir' = (vel > 0)
        BY <3>1, <3>2
      <4> QED BY <4>1
    <3>3. CASE ~step'
      BY <1>1, <3>1, <3>3
    <3> QED BY <3>2, <3>3
  <2> DEFINE s == IF step' THEN Sign(dir') ELSE 0
  <2>5. s \in Int
    BY DEF Sign
  <2>6. S_Dir' \in BOOLEAN
    BY <1>1, <2>2, ShapeStep DEF StepInv, StepTypeOK
  <2>7. tally' = (tally + s) % Turn
    BY <1>1, <2>2, <2>3, <2>4, <2>6, HistoryType
  <2>8. StrobesFollowPosition'
    <3> HIDE DEF s
    <3>1. Position(x') = ((base + tally) + s) % Turn
      <4> DEFINE p == base + tally
      <4>1. p \in Int
        BY <1>1
      <4>2. ((p % Turn) + s) % Turn = (p + s) % Turn
        <5> HIDE DEF p
        <5> QED BY <2>5, <4>1, SumMod, MType, Zenon
      <4> QED BY <1>1, <2>3, <4>2 DEF StrobesFollowPosition, s
    <3>2. (tally' + base) % Turn = ((tally + s) + base) % Turn
      <4> DEFINE p == tally + s
      <4>1. p \in Int
        BY <1>1, <2>5
      <4>2. ((p % Turn) + base) % Turn = (p + base) % Turn
        <5> base \in Int /\ Turn \in Nat \ {0}
          BY <1>1, MType
        <5> HIDE DEF p
        <5> QED BY <4>1, SumMod, Zenon
      <4> QED BY <2>7, <4>2
    <3>3. tally' \in Int
      BY <1>1, <2>2, <2>3, <2>4, <2>6, HistoryType
    <3>4. (tally + s) + base = (base + tally) + s /\ tally' + base = base' + tally'
      BY <1>1, <2>2, <2>5, <3>3
    <3> QED BY <3>1, <3>2, <3>4 DEF StrobesFollowPosition
  <2> QED BY <1>1, <1>3, <2>2, <2>3, <2>4, <2>8, StepClockKept
<1>4. ASSUME NEW clear \in BOOLEAN, NEW x_val \in XValues, StepLoad(x_val, clear),
             UNCHANGED timing
      PROVE  StepInv'
  <2>1. x_val \in XWord /\ x_val \in Int
    BY StepAssumption DEF XWord
  <2>2. /\ x' = x_val /\ step' = FALSE /\ dir' = FALSE /\ Shape
        /\ CountMissed(clear) /\ History(clear)
        /\ base' = (Position(x_val) - tally) % Turn
    BY <1>4 DEF StepLoad, SetPosition
  <2>3. tally' = tally
    BY <2>2 DEF History
  <2> DEFINE p == Position(x_val) - tally
  <2>4. p \in Int /\ Position(x_val) \in 0 .. Turn - 1 /\ p + tally = Position(x_val)
    BY <1>1, <2>1, PositionType
  <2>5. base' = p % Turn
    BY <2>2
  <2>6. base' \in 0 .. Turn - 1 /\ (base' + tally) % Turn = (p + tally) % Turn
    <3>1. tally \in Int /\ Turn \in Nat \ {0}
      BY <1>1, MType
    <3> HIDE DEF p
    <3>2. p % Turn \in 0 .. Turn - 1
      BY <2>4, <3>1, Division
    <3>3. ((p % Turn) + tally) % Turn = (p + tally) % Turn
      BY <2>4, <3>1, SumMod, Zenon
    <3> QED BY <2>5, <3>2, <3>3
  <2>7. Position(x_val) % Turn = Position(x_val)
    BY <2>4, MType
  <2>8. StrobesFollowPosition'
    BY <2>2, <2>3, <2>4, <2>6, <2>7 DEF StrobesFollowPosition
  <2> QED BY <1>4, <2>1, <2>2, <2>6, <2>8, StepClockKept, Zenon
<1>5. CASE UNCHANGED pathVars
  BY <1>5 DEF pathVars, stepVars, histVars, motorVars, StepInv, TimingOK, StepTypeOK,
       MotorTypeOK, ShaperInv, StrobesFollowPosition, ShaftFollowsStrobes,
       MissedStepsCounted, InFlight, Rise, HoldTime
<1> QED
  BY <1>2, <1>3, <1>4, <1>5 DEF StepNext

(* The step path's registers and histories stay in their ranges.           *)
THEOREM StepTypeCorrect == StepSpec => []StepTypeOK
<1>1. StepInit => StepInv
  BY StepStart, Zenon DEF StepInit, TimingOK
<1>2. StepInv => StepTypeOK
  BY DEF StepInv
<1> QED
  BY <1>1, <1>2, StepInductive, PTL DEF StepSpec

(* The strobes of acc_profile_gen add up to the motion of x, through every *)
(* change of velocity, every load of the position and every wrap.          *)
THEOREM StrobesExact == StepSpec => []StrobesFollowPosition
<1>1. StepInit => StepInv
  BY StepStart, Zenon DEF StepInit, TimingOK
<1>2. StepInv => StrobesFollowPosition
  BY DEF StepInv
<1> QED
  BY <1>1, <1>2, StepInductive, PTL DEF StepSpec

(* Every strobe becomes one pulse of motor_step_gen in its own direction,  *)
(* or is dropped.                                                          *)
THEOREM ShaftExact == StepSpec => []ShaftFollowsStrobes
<1>1. StepInit => StepInv
  BY StepStart, Zenon DEF StepInit, TimingOK
<1>2. StepInv => ShaftFollowsStrobes
  BY DEF StepInv
<1> QED
  BY <1>1, <1>2, StepInductive, PTL DEF StepSpec

(* stat_missed_steps counts the dropped strobes since its last clear.      *)
THEOREM MissedExact == StepSpec => []MissedStepsCounted
<1>1. StepInit => StepInv
  BY StepStart, Zenon DEF StepInit, TimingOK
<1>2. StepInv => MissedStepsCounted
  BY DEF StepInv
<1> QED
  BY <1>1, <1>2, StepInductive, PTL DEF StepSpec

(* The direction line is set up before each pulse and held after it, and   *)
(* each pulse has its full width: motor_step_gen keeps the timing the      *)
(* three points ask for, whenever the strobes come.                        *)
THEOREM PulseTimed == StepSpec => PulseTiming
<1>1. StepInit => StepInv
  BY StepStart, Zenon DEF StepInit, TimingOK
<1>2. ASSUME StepInv, StepInv', Shape, NEW clear \in BOOLEAN, History(clear),
             UNCHANGED timing
      PROVE  DirSetup /\ DirHold /\ PulseWidth
  <2>1. TimingOK /\ MotorTypeOK /\ ShaperInv /\ step \in BOOLEAN /\ dir \in BOOLEAN
        /\ cnt \in Word /\ sincePulse \in 0 .. M
    BY <1>2 DEF StepInv, StepTypeOK, MotorTypeOK
  <2>2. /\ cnt' \in Word
        /\ \/ cnt' = 0
           \/ cnt = 0 /\ cnt' = 1
           \/ cnt > 0 /\ cnt' = cnt + 1
        /\ cnt > 0 => S_Dir' = S_Dir
        /\ S_Step' <=> (cnt' > Rise /\ cnt' <= timing.pulse_n)
        /\ cnt > 0 /\ cnt' = 0 => cnt >= timing.pulse_n
    BY <1>2, <2>1, ShapeStep
  <2>3. DirSetup
    <3>1. cnt' > 0 => sinceDir' >= cnt' - 1
      BY <1>2 DEF StepInv, ShaperInv
    <3>2. sinceDir' \in Int
      BY <1>2 DEF StepInv, StepTypeOK
    <3>3. cnt' \in Int /\ Rise \in Int /\ Rise > 0
      BY <2>1, <2>2, TimingType DEF Word
    <3>4. cnt' > Rise => sinceDir' >= Rise
      <4> DEFINE c == cnt'
                 d == sinceDir'
                 r == Rise
      <4>1. c \in Int /\ d \in Int /\ r \in Int /\ r > 0 /\ (c > 0 => d >= c - 1)
        BY <3>1, <3>2, <3>3, Zenon
      <4> HIDE DEF c, d, r
      <4>2. c > r => d >= r
        BY <4>1
      <4> QED BY <4>2 DEF c, d, r
    <3> QED BY <2>2, <3>4 DEF DirSetup
  <2>4. DirHold
    <3> SUFFICES ASSUME S_Dir' # S_Dir PROVE ~S_Step /\ ~S_Step' /\ sincePulse >= HoldTime
      BY DEF DirHold
    <3>1. cnt = 0
      BY <2>1, <2>2 DEF Word
    <3>2. ~S_Step /\ sincePulse >= HoldTime
      BY <2>1, <3>1, TimingType DEF ShaperInv, Word
    <3>3. cnt' = 0 \/ cnt' = 1
      BY <2>2, <3>1
    <3>4. ~S_Step'
      BY <2>1, <2>2, <3>3, TimingType DEF Word
    <3> QED BY <3>2, <3>4
  <2>5. PulseWidth
    <3> SUFFICES ASSUME S_Step, ~S_Step' PROVE high = timing.pulse_n - Rise
      BY DEF PulseWidth
    <3>1. cnt > Rise /\ cnt <= timing.pulse_n /\ high = cnt - Rise
      BY <2>1 DEF ShaperInv
    <3>2. cnt > 0 /\ ~(cnt = 0)
      BY <2>1, <3>1, TimingType DEF Word
    <3>3. ~(cnt' > Rise /\ cnt' <= timing.pulse_n)
      BY <2>2
    <3>4. cnt = timing.pulse_n
      BY <2>1, <2>2, <3>1, <3>2, <3>3, TimingType DEF Word
    <3> QED BY <3>1, <3>4
  <2> QED BY <2>3, <2>4, <2>5, SMTT(30)
<1>3. ASSUME StepInv, StepInv', [StepNext]_pathVars
      PROVE  [StepReset \/ (DirSetup /\ DirHold /\ PulseWidth)]_pathVars
  <2>1. CASE UNCHANGED pathVars
    BY <2>1
  <2>2. CASE StepNext
    <3>1. CASE StepReset
      BY <3>1
    <3>2. ASSUME NEW clear \in BOOLEAN,
                 \/ \E vel \in Velocities : StepClock(vel, clear)
                 \/ \E x_val \in XValues : StepLoad(x_val, clear)
          PROVE  DirSetup /\ DirHold /\ PulseWidth
      <4>1. Shape /\ History(clear) /\ UNCHANGED timing
        BY <2>2, <3>2 DEF StepNext, StepClock, StepLoad
      <4> QED BY <1>2, <1>3, <4>1
    <3> QED BY <2>2, <3>1, <3>2 DEF StepNext
  <2> QED BY <1>3, <2>1, <2>2
<1> QED
  BY <1>1, <1>3, StepInductive, PTL DEF StepSpec, PulseTiming
=============================================================================
