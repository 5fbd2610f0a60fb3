-------------------------- MODULE CommandPathProofs --------------------------
(***************************************************************************)
(* Proofs about the command path, for every word width and every set of    *)
(* bus writes; and, in the second half, what an invariant of the stepper   *)
(* driver on the motion core has to say (DriveInv), with the lemmas about  *)
(* the driver's routines and about the clock of the core between their bus *)
(* accesses.                                                               *)
(***************************************************************************)
EXTENDS Steppers, TLAPS

-----------------------------------------------------------------------------
(* The arithmetic of words, for every width.                               *)

(* The remainder by M is a word, and with the quotient gives the number    *)
(* back: the one fact about division the other lemmas rest on.             *)
LEMMA DivMod ==
  ASSUME NEW n \in Int, NEW m \in Nat \ {0}
  PROVE  /\ n % m \in 0 .. m - 1
         /\ n \div m \in Int
         /\ n = m * (n \div m) + (n % m)
  BY SMT

(* A number in range that differs from n by a multiple of m is n % m.      *)
LEMMA ModUnique ==
  ASSUME NEW n \in Int, NEW m \in Nat \ {0}, NEW r \in 0 .. m - 1,
         NEW q \in Int, n = m * q + r
  PROVE  n % m = r
  BY SMT

(* A wrapped sum fits the register it goes to.                             *)
LEMMA WrapType ==
  ASSUME NEW n \in Int
  PROVE  Wrap(n) \in SWord
  BY HAssumption, DivMod DEF Wrap, SWord, M

(* Wrapping changes a number by a multiple of M.                           *)
LEMMA WrapCongruent ==
  ASSUME NEW n \in Int
  PROVE  \E q \in Int : Wrap(n) = n + M * q
<1>1. M \in Nat \ {0}
  BY HAssumption DEF M
<1> DEFINE d == (n + H) \div M
<1>2. /\ d \in Int
      /\ n + H = M * d + ((n + H) % M)
  BY <1>1, HAssumption, DivMod
<1>3. Wrap(n) = n + M * (-d)
  BY <1>1, <1>2, HAssumption, DivMod DEF Wrap
<1> QED
  BY <1>2, <1>3

(* It is the only number of the register's range that does so.             *)
LEMMA WrapUnique ==
  ASSUME NEW n \in Int, NEW w \in SWord, NEW q \in Int, w = n + M * q
  PROVE  Wrap(n) = w
<1>1. M \in Nat \ {0}
  BY HAssumption DEF M
<1>2. w + H \in 0 .. M - 1
  BY HAssumption DEF SWord, M
<1> DEFINE k == n + H
           r == w + H
           z == -q
<1>3. /\ k \in Int
      /\ r \in 0 .. M - 1
      /\ z \in Int
      /\ k = M * z + r
  BY <1>1, <1>2, HAssumption DEF SWord
<1>4. k % M = r
  <2> HIDE DEF k, r, z
  <2> QED BY <1>1, <1>3, ModUnique
<1> QED
  BY <1>4, HAssumption DEF Wrap, SWord

(* Wrapping early or late makes no difference to a sum.                    *)
LEMMA WrapSum ==
  ASSUME NEW p \in Int, NEW q \in Int
  PROVE  Wrap(Wrap(p) + Wrap(q)) = Wrap(p + q)
<1>1. M \in Nat \ {0}
  BY HAssumption DEF M
<1>2. PICK e \in Int : Wrap(p) = p + M * e
  BY WrapCongruent
<1>3. PICK f \in Int : Wrap(q) = q + M * f
  BY WrapCongruent
<1>4. PICK g \in Int : Wrap(p + q) = (p + q) + M * g
  BY WrapCongruent
<1>5. Wrap(p + q) \in SWord
  BY WrapType
<1>6. Wrap(p) + Wrap(q) \in Int
  BY <1>1, <1>2, <1>3
<1>7. Wrap(p + q) = (Wrap(p) + Wrap(q)) + M * (g - e - f)
  BY <1>1, <1>2, <1>3, <1>4
<1> QED
  BY <1>5, <1>6, <1>7, WrapUnique

(* A number that fits the register is left alone.                          *)
LEMMA WrapId ==
  ASSUME NEW w \in SWord
  PROVE  Wrap(w) = w
<1>1. w \in Int /\ M \in Int
  BY HAssumption DEF SWord, M
<1>2. w = w + M * 0
  BY <1>1
<1> QED
  BY <1>1, <1>2, WrapUnique
-----------------------------------------------------------------------------
(* The type of the registers.                                              *)

(* The two's complement reading of a register is in the range of v, a, j.  *)
LEMMA SignedType ==
  ASSUME NEW w \in Word
  PROVE  Signed(w) \in SWord
  BY HAssumption DEF Word, SWord, Signed, M

(* What the bus presents has the type of a write; so does an idle clock.   *)
LEMMA WritesType == \A wr \in BusWrites \cup {NoWrite} : wr \in BusWrite
<1>1. NoWrite \in BusWrite
  BY HAssumption DEF NoWrite, BusWrite, Word, M
<1> QED
  BY <1>1, BusAssumption

(* A clock of the core keeps every register in its range, for any write of *)
(* the right type: the counters wrap, the sums wrap, a load copies.        *)
LEMMA ClockType ==
  ASSUME HwTypeOK, NEW wr \in BusWrite, HwClock(wr)
  PROVE  HwTypeOK'
<1> USE DEF HwTypeOK, TimerTypeOK, ProfileTypeOK
<1>0. /\ M \in Nat \ {0}
      /\ 0 \in Word
      /\ \A n \in Int : n % M \in Word
  BY HAssumption, DivMod DEF M, Word
<1>1. reg' \in [Regs -> Word]
  BY DEF HwClock, RegWrite, BusWrite
<1>2. reg_cmd' \in SUBSET CmdBits
  BY DEF HwClock, CmdWrite, BusWrite
<1>3. CASE SegmentLoad
  <2>1. /\ Signed(reg["NEXT_V"]) \in SWord
        /\ Signed(reg["NEXT_A"]) \in SWord
        /\ Signed(reg["NEXT_J"]) \in SWord
    BY SignedType DEF Regs
  <2>2. TimerTypeOK'
    BY <1>0, <1>3, Zenon DEF SegmentLoad, TimerLoad, Regs
  <2>3. ProfileTypeOK'
    BY <1>3, <2>1 DEF SegmentLoad, ProfileLoad
  <2> QED
    BY <1>1, <1>2, <1>3, <2>2, <2>3 DEF SegmentLoad
<1>4. CASE SegmentRun
  <2>1. TimerTypeOK'
    <3>1. (dt + 1) % M \in Word /\ (steps + 1) % M \in Word
      BY <1>0 DEF Word
    <3>2. stopped' \in BOOLEAN
      BY <1>4 DEF SegmentRun, TimerCount, done, step_stb
    <3> QED
      BY <1>0, <1>4, <3>1, <3>2 DEF SegmentRun, TimerCount
  <2>2. ProfileTypeOK'
    <3>1. Wrap(v + a) \in SWord /\ Wrap(a + j) \in SWord
      BY WrapType, HAssumption DEF SWord
    <3> QED
      BY <1>4, <3>1 DEF SegmentRun, ProfileStep, profileVars
  <2> QED
    BY <1>1, <1>2, <1>4, <2>1, <2>2 DEF SegmentRun
<1>5. CASE SegmentRest
  BY <1>0, <1>1, <1>2, <1>5 DEF SegmentRest, TimerHold, profileVars
<1> QED
  BY <1>3, <1>4, <1>5 DEF HwClock

(* The registers start in their ranges, and a reset puts them back.        *)
LEMMA ResetType == (HwInit => HwTypeOK) /\ (HwReset => HwTypeOK')
<1>1. 0 \in Word /\ 0 \in SWord
  BY HAssumption DEF Word, SWord, M
<1>2. HwInit => HwTypeOK
  BY <1>1 DEF HwInit, HwTypeOK, TimerInit, TimerTypeOK, ProfileInit,
       ProfileTypeOK
<1>3. HwReset => HwTypeOK'
  BY <1>1 DEF HwReset, HwTypeOK, TimerReset, TimerTypeOK, ProfileReset,
       ProfileTypeOK
<1> QED
  BY <1>2, <1>3

(* Type correctness: no sequence of bus writes and resets takes a register *)
(* of user_logic, acc_step_gen or acc_profile_gen out of its range.        *)
THEOREM HwTypeCorrect == HwSpec => []HwTypeOK
<1>1. HwInit => HwTypeOK
  BY ResetType
<1>2. HwTypeOK /\ [HwNext]_hwVars => HwTypeOK'
  <2> SUFFICES ASSUME HwTypeOK, [HwNext]_hwVars PROVE HwTypeOK'
    OBVIOUS
  <2>1. CASE HwReset
    BY <2>1, ResetType
  <2>2. ASSUME NEW wr \in BusWrites \cup {NoWrite}, HwClock(wr)
        PROVE  HwTypeOK'
    BY <2>2, WritesType, ClockType
  <2>3. CASE UNCHANGED hwVars
    BY <2>3 DEF hwVars, timerVars, profileVars, HwTypeOK, TimerTypeOK,
         ProfileTypeOK
  <2> QED
    BY <2>1, <2>2, <2>3 DEF HwNext
<1> QED
  BY <1>1, <1>2, PTL DEF HwSpec
-----------------------------------------------------------------------------
(* The length of a segment.                                                *)

(* The inductive form of SegmentLength and IncrementCount: the two         *)
(* counters are the digits of the time since the load.  SegmentLength does *)
(* not mention them and is not inductive by itself.                        *)
TimerInv ==
  /\ ~stopped => /\ dt < Span(dt_limit)
                 /\ steps < Span(steps_limit)
                 /\ elapsed = steps * Span(dt_limit) + dt
                 /\ applied = steps
  /\ stopped => \/ elapsed = 0 /\ applied = 0
                \/ elapsed = SegmentClocks /\ applied = Span(steps_limit)

(* A limit stands for 1 to M counts, and "limit - 1" is the last of them,  *)
(* the wrapped limit 0 included.                                           *)
LEMMA LastOfSpan ==
  ASSUME NEW limit \in Word
  PROVE  /\ Span(limit) \in 1 .. M
         /\ LastOf(limit) = Span(limit) - 1
<1>1. M \in Nat /\ M > 1
  BY HAssumption DEF M
<1>2. CASE limit = 0
  <2>1. (-1) % M = M - 1
    <3>1. -1 = M * (-1) + (M - 1)
      BY <1>1
    <3>2. /\ -1 \in Int
          /\ M \in Nat \ {0}
          /\ M - 1 \in 0 .. M - 1
      BY <1>1
    <3> QED
      BY <3>1, <3>2, ModUnique
  <2>2. limit - 1 = -1
    BY <1>2
  <2> QED
    BY <1>1, <1>2, <2>1, <2>2 DEF LastOf, Span
<1>3. CASE limit # 0
  <2>1. limit - 1 \in 0 .. M - 1
    BY <1>1, <1>3 DEF Word
  <2>2. limit - 1 = M * 0 + (limit - 1)
    BY <1>1 DEF Word
  <2> DEFINE k == limit - 1
  <2>3. k % M = k
    <3>1. k \in Int /\ k \in 0 .. M - 1 /\ k = M * 0 + k /\ M \in Nat \ {0}
      BY <1>1, <2>1, <2>2
    <3> HIDE DEF k
    <3> QED BY <3>1, ModUnique
  <2> QED
    BY <1>1, <1>3, <2>3 DEF LastOf, Span, Word
<1> QED
  BY <1>2, <1>3

(* Two digits are largest together exactly when the number they form is    *)
(* the last before the next power.                                         *)
LEMMA LastDigits ==
  ASSUME NEW D \in Nat \ {0}, NEW S \in Nat \ {0},
         NEW d \in 0 .. D - 1, NEW s \in 0 .. S - 1
  PROVE  /\ s * D + d < S * D
         /\ (s * D + d = S * D - 1) <=> (s = S - 1 /\ d = D - 1)
<1>1. S * D = (S - 1) * D + D
  OBVIOUS
<1>2. CASE s = S - 1
  BY <1>1, <1>2
<1>3. CASE s < S - 1
  <2> DEFINE e == S - 1 - s
  <2>1. e \in Nat \ {0}
    BY <1>3
  <2>2. (S - 1) * D = s * D + e * D
    OBVIOUS
  <2>3. e * D >= D
    <3>1. e * D = (e - 1) * D + D
      BY <2>1
    <3>2. (e - 1) * D >= 0
      BY <2>1
    <3>3. (e - 1) * D \in Int /\ e * D \in Int
      BY <2>1
    <3> QED
      BY <3>1, <3>2, <3>3
  <2>4. s * D \in Int /\ e * D \in Int /\ S * D \in Int
    BY <2>1
  <2> HIDE DEF e
  <2> QED
    BY <1>1, <1>3, <2>2, <2>3, <2>4
<1> QED
  BY <1>2, <1>3

(* On a counting clock the strobes say where the two digits are.           *)
LEMMA Strobes ==
  ASSUME HwTypeOK, TimerInv, ~stopped
  PROVE  /\ step_stb <=> dt = Span(dt_limit) - 1
         /\ done <=> (dt = Span(dt_limit) - 1 /\ steps = Span(steps_limit) - 1)
<1>1. dt \in Nat /\ steps \in Nat
  BY DEF HwTypeOK, TimerTypeOK, Word
<1>2. /\ Span(dt_limit) \in 1 .. M /\ LastOf(dt_limit) = Span(dt_limit) - 1
      /\ Span(steps_limit) \in 1 .. M
      /\ LastOf(steps_limit) = Span(steps_limit) - 1
  BY LastOfSpan DEF HwTypeOK, TimerTypeOK
<1>3. dt < Span(dt_limit) /\ steps < Span(steps_limit)
  BY DEF TimerInv
<1>4. M \in Nat
  BY HAssumption DEF M
<1> QED
  BY <1>1, <1>2, <1>3, <1>4 DEF step_stb, done

(* A clock of the core keeps the digits right: a load starts them at zero, *)
(* a count carries from dt into steps, and the carry out of steps stops    *)
(* the timer.                                                              *)
LEMMA ClockTimerInv ==
  ASSUME HwTypeOK, TimerInv, NEW wr \in BusWrite, HwClock(wr)
  PROVE  TimerInv'
<1> DEFINE D == Span(dt_limit)
           S == Span(steps_limit)
<1>0. /\ M \in Nat /\ M > 1
      /\ dt \in 0 .. M - 1 /\ steps \in 0 .. M - 1
      /\ D \in 1 .. M /\ S \in 1 .. M
  BY HAssumption, LastOfSpan DEF M, HwTypeOK, TimerTypeOK, Word
<1>1. CASE SegmentLoad
  <2>1. dt_limit' \in Word /\ steps_limit' \in Word
    BY ClockType DEF HwTypeOK, TimerTypeOK
  <2>2. Span(dt_limit') \in 1 .. M /\ Span(steps_limit') \in 1 .. M
    BY <2>1, LastOfSpan
  <2>3. /\ dt' = 0 /\ steps' = 0 /\ elapsed' = 0 /\ applied' = 0
        /\ stopped' = FALSE
    BY <1>1 DEF SegmentLoad, TimerLoad
  <2>4. Span(dt_limit)' = Span(dt_limit') /\ Span(steps_limit)' = Span(steps_limit')
    BY DEF Span
  <2> QED
    BY <1>0, <2>2, <2>3, <2>4 DEF TimerInv
<1>2. CASE SegmentRun
  <2>0. /\ ~stopped
        /\ dt < D /\ steps < S /\ elapsed = steps * D + dt /\ applied = steps
        /\ SegmentClocks = D * S
    BY <1>2 DEF SegmentRun, TimerCount, TimerInv, SegmentClocks
  <2>1. /\ step_stb <=> dt = D - 1
        /\ done <=> (dt = D - 1 /\ steps = S - 1)
    BY <2>0, Strobes
  <2>2. /\ Span(dt_limit)' = D /\ Span(steps_limit)' = S
        /\ SegmentClocks' = SegmentClocks
    BY <1>2 DEF SegmentRun, TimerCount, Span, SegmentClocks
  <2>3. elapsed' = elapsed + 1
    BY <1>2 DEF SegmentRun
  <2>4. CASE ~step_stb
    <3>1. (dt + 1) % M = dt + 1
      <4> DEFINE k == dt + 1
      <4>1. k \in Int /\ k \in 0 .. M - 1 /\ M \in Nat \ {0} /\ k = M * 0 + k
        BY <1>0, <2>0, <2>1, <2>4
      <4> HIDE DEF k
      <4>2. k % M = k
        BY <4>1, ModUnique
      <4> QED
        BY <4>2 DEF k
    <3>2. dt' = dt + 1 /\ steps' = steps /\ ~stopped' /\ applied' = applied
      BY <1>2, <2>4, <3>1, Zenon DEF SegmentRun, TimerCount, done
    <3>3. dt + 1 < D
      BY <1>0, <2>0, <2>1, <2>4
    <3>4. elapsed + 1 = steps * D + (dt + 1)
      BY <1>0, <2>0
    <3> HIDE DEF D, S
    <3> QED
      BY <2>0, <2>2, <2>3, <3>2, <3>3, <3>4 DEF TimerInv
  <2>5. CASE step_stb /\ ~done
    <3>1. steps + 1 < S
      BY <1>0, <2>0, <2>1, <2>5
    <3>2. (steps + 1) % M = steps + 1
      <4> DEFINE k == steps + 1
      <4>1. k \in Int /\ k \in 0 .. M - 1 /\ M \in Nat \ {0} /\ k = M * 0 + k
        BY <1>0, <3>1
      <4> HIDE DEF k
      <4>2. k % M = k
        BY <4>1, ModUnique
      <4> QED
        BY <4>2 DEF k
    <3>3. /\ dt' = 0 /\ steps' = steps + 1 /\ ~stopped'
          /\ applied' = applied + 1
      BY <1>2, <2>5, <3>2 DEF SegmentRun, TimerCount
    <3>4. elapsed + 1 = (steps + 1) * D + 0 /\ 0 < D
      BY <1>0, <2>0, <2>1, <2>5
    <3> HIDE DEF D, S
    <3> QED
      BY <2>0, <2>2, <2>3, <3>1, <3>3, <3>4 DEF TimerInv
  <2>6. CASE done
    <3>1. stopped' /\ applied' = applied + 1
      BY <1>2, <2>6, Zenon DEF SegmentRun, TimerCount, done
    <3>2. elapsed + 1 = D * S /\ applied + 1 = S
      BY <1>0, <2>0, <2>1, <2>6
    <3> HIDE DEF D, S
    <3> QED
      BY <2>0, <2>2, <2>3, <3>1, <3>2 DEF TimerInv
  <2> QED
    BY <2>4, <2>5, <2>6 DEF done
<1>3. CASE SegmentRest
  BY <1>3 DEF SegmentRest, TimerHold, TimerInv, SegmentClocks, Span
<1> QED
  BY <1>1, <1>2, <1>3 DEF HwClock

(* The digits are right initially and after a reset.                       *)
LEMMA ResetTimerInv == (HwInit => TimerInv) /\ (HwReset => TimerInv')
  BY DEF HwInit, HwReset, TimerInit, TimerReset, TimerInv

(* The digits say what SegmentLength and IncrementCount promise.           *)
LEMMA TimerInvSuffices == HwTypeOK /\ TimerInv => SegmentLength /\ IncrementCount
<1> SUFFICES ASSUME HwTypeOK, TimerInv
             PROVE  SegmentLength /\ IncrementCount
  OBVIOUS
<1> DEFINE D == Span(dt_limit)
           S == Span(steps_limit)
<1>0. /\ M \in Nat /\ M > 1
      /\ dt \in 0 .. M - 1 /\ steps \in 0 .. M - 1
      /\ D \in 1 .. M /\ S \in 1 .. M
  BY HAssumption, LastOfSpan DEF M, HwTypeOK, TimerTypeOK, Word
<1>1. CASE stopped
  BY <1>1 DEF TimerInv, SegmentLength, IncrementCount, done, step_stb
<1>2. CASE ~stopped
  <2>0. /\ dt < D /\ steps < S /\ elapsed = steps * D + dt /\ applied = steps
        /\ SegmentClocks = D * S
    BY <1>2 DEF TimerInv, SegmentClocks
  <2>1. done <=> (dt = D - 1 /\ steps = S - 1)
    BY <1>2, Strobes
  <2>2. D * S = S * D
    BY <1>0
  <2>3. /\ steps * D + dt < S * D
        /\ (steps * D + dt = S * D - 1) <=> (steps = S - 1 /\ dt = D - 1)
    <3>1. /\ D \in Nat \ {0} /\ S \in Nat \ {0}
          /\ dt \in 0 .. D - 1 /\ steps \in 0 .. S - 1
      BY <1>0, <2>0
    <3> HIDE DEF D, S
    <3> QED BY <3>1, LastDigits
  <2>4. SegmentLength
    <3> HIDE DEF D, S
    <3> QED BY <1>2, <2>0, <2>1, <2>2, <2>3 DEF SegmentLength
  <2>5. IncrementCount
    BY <1>2, <2>0, <2>1 DEF IncrementCount
  <2> QED
    BY <2>4, <2>5
<1> QED
  BY <1>1, <1>2

(* Every step of the core, whatever the bus does, keeps the digits right.  *)
LEMMA TimerInvStep ==
  HwTypeOK /\ TimerInv /\ [HwNext]_hwVars => HwTypeOK' /\ TimerInv'
<1> SUFFICES ASSUME HwTypeOK, TimerInv, [HwNext]_hwVars
             PROVE  HwTypeOK' /\ TimerInv'
  OBVIOUS
<1>1. CASE HwReset
  BY <1>1, ResetType, ResetTimerInv
<1>2. ASSUME NEW wr \in BusWrites \cup {NoWrite}, HwClock(wr)
      PROVE  HwTypeOK' /\ TimerInv'
  BY <1>2, WritesType, ClockType, ClockTimerInv
<1>3. CASE UNCHANGED hwVars
  BY <1>3 DEF hwVars, timerVars, profileVars, HwTypeOK, TimerTypeOK,
       ProfileTypeOK, TimerInv, SegmentClocks, Span
<1> QED
  BY <1>1, <1>2, <1>3 DEF HwNext

(* A segment lasts exactly Span(dt_limit) * Span(steps_limit) clocks and   *)
(* applies one increment per acceleration step, less one if it is chained, *)
(* whatever the bus does: acc_step_gen for every width, limit and load.    *)
THEOREM SegmentTiming == HwSpec => [](SegmentLength /\ IncrementCount)
<1>1. HwInit => HwTypeOK /\ TimerInv
  BY ResetType, ResetTimerInv
<1>2. (HwTypeOK /\ TimerInv) /\ [HwNext]_hwVars => (HwTypeOK /\ TimerInv)'
  BY TimerInvStep
<1>3. HwTypeOK /\ TimerInv => SegmentLength /\ IncrementCount
  BY TimerInvSuffices
<1> QED
  BY <1>1, <1>2, <1>3, PTL DEF HwSpec

(* Nothing but a reset cuts a running segment short or retimes it: while   *)
(* clocks remain, done is low, so that the load of user_logic waits.       *)
THEOREM SegmentUninterrupted == HwSpec => RunsToTheEnd
<1> DEFINE Inv == HwTypeOK /\ TimerInv
           Early == ~stopped /\ elapsed < SegmentClocks - 1 /\ ~HwReset
           Goes == elapsed' = elapsed + 1 /\ UNCHANGED <<dt_limit, steps_limit>>
<1>1. Inv /\ HwNext => (Early => Goes)
  <2> SUFFICES ASSUME Inv, HwNext, Early PROVE Goes
    OBVIOUS
  <2>1. PICK wr \in BusWrites \cup {NoWrite} : HwClock(wr)
    BY DEF HwNext
  <2>2. SegmentLength
    BY TimerInvSuffices
  <2>3. ~done
    <3>1. SegmentClocks \in Int /\ elapsed \in Int
      <4>1. Span(dt_limit) \in Int /\ Span(steps_limit) \in Int
        BY LastOfSpan, HAssumption DEF HwTypeOK, TimerTypeOK, M
      <4> QED
        BY <4>1 DEF SegmentClocks, HwTypeOK
    <3> QED
      BY <2>2, <3>1 DEF SegmentLength
  <2>4. ~load
    BY <2>3 DEF load
  <2>5. SegmentRun
    BY <2>1, <2>4 DEF HwClock, SegmentLoad, SegmentRest, TimerHold
  <2> QED
    BY <2>5 DEF SegmentRun, TimerCount
<1>2. Inv /\ [HwNext]_hwVars
        => [~stopped /\ elapsed < SegmentClocks - 1 /\ ~HwReset
            => (/\ elapsed' = elapsed + 1
                /\ UNCHANGED <<dt_limit, steps_limit>>)]_hwVars
  BY <1>1
<1>3. HwSpec => []Inv
  <2>1. HwInit => Inv
    BY ResetType, ResetTimerInv
  <2>2. Inv /\ [HwNext]_hwVars => Inv'
    BY TimerInvStep
  <2> QED
    BY <2>1, <2>2, PTL DEF HwSpec
<1> QED
  BY <1>2, <1>3, PTL DEF HwSpec, RunsToTheEnd
-----------------------------------------------------------------------------
(* The trajectory of a segment.                                            *)

(* The next triangular number.                                             *)
LEMMA Triangle ==
  ASSUME NEW k \in Nat
  PROVE  /\ (k * (k - 1)) \div 2 \in Int
         /\ ((k + 1) * ((k + 1) - 1)) \div 2 = (k * (k - 1)) \div 2 + k
<1>1. \A n, m \in Int : n \div 2 \in Int /\ (n + 2 * m) \div 2 = n \div 2 + m
  BY SMT
<1>2. (k + 1) * ((k + 1) - 1) = k * (k - 1) + 2 * k
  OBVIOUS
<1>3. k * (k - 1) \in Int
  OBVIOUS
<1> QED
  BY <1>1, <1>2, <1>3

(* A step of the profile is one more term of the polynomials; a load makes *)
(* the loaded values their constant terms.                                 *)
LEMMA ClockTrajectory ==
  ASSUME HwTypeOK, Trajectory, NEW wr \in BusWrite, HwClock(wr)
  PROVE  Trajectory'
<1>0. /\ v \in Int /\ a \in Int /\ j \in Int /\ j \in SWord
      /\ start.v \in Int /\ start.a \in Int /\ start.j \in Int
      /\ applied \in Nat
  BY HAssumption DEF HwTypeOK, ProfileTypeOK, SWord
<1>1. CASE SegmentLoad
  <2>1. applied' = 0 /\ start' = [v |-> v', a |-> a', j |-> j']
    BY <1>1 DEF SegmentLoad
  <2>2. v' \in SWord /\ a' \in SWord /\ j' \in SWord
    BY ClockType DEF HwTypeOK, ProfileTypeOK
  <2>3. v' \in Int /\ a' \in Int /\ j' \in Int
    BY <2>2, HAssumption DEF SWord
  <2>4. /\ start'.j = j'
        /\ start'.a + applied' * start'.j = a'
        /\ start'.v + applied' * start'.a
             + ((applied' * (applied' - 1)) \div 2) * start'.j = v'
    <3>1. /\ start'.v = v' /\ start'.a = a' /\ start'.j = j'
      BY <2>1
    <3>2. \A p, q, r \in Int :
            /\ q + 0 * r = q
            /\ p + 0 * q + ((0 * (0 - 1)) \div 2) * r = p
      BY SMT
    <3>3. /\ a' + 0 * j' = a'
          /\ v' + 0 * a' + ((0 * (0 - 1)) \div 2) * j' = v'
      BY <2>3, <3>2, Zenon
    <3> QED
      BY <2>1, <3>1, <3>3, Zenon
  <2>5. Wrap(a') = a' /\ Wrap(v') = v'
    BY <2>2, WrapId
  <2> QED
    BY <2>4, <2>5 DEF Trajectory, Wrap
<1>2. CASE SegmentRun /\ step_stb
  <2> DEFINE k == applied
             sv == start.v
             sa == start.a
             sj == start.j
             T == (k * (k - 1)) \div 2
             P == sv + k * sa + T * sj
             Q == sa + k * sj
  <2>1. /\ v' = Wrap(v + a) /\ a' = Wrap(a + j) /\ j' = j
        /\ applied' = k + 1 /\ start' = start
    BY <1>2 DEF SegmentRun, ProfileStep
  <2>2. j = sj /\ a = Wrap(Q) /\ v = Wrap(P)
    BY DEF Trajectory
  <2>3. k \in Nat /\ sv \in Int /\ sa \in Int /\ sj \in Int /\ sj \in SWord
    BY <1>0, <2>2
  <2>4. T \in Int /\ ((k + 1) * ((k + 1) - 1)) \div 2 = T + k
    BY <2>3, Triangle
  <2>5. P \in Int /\ Q \in Int
    <3> HIDE DEF T, k, sv, sa, sj
    <3> QED BY <2>3, <2>4
  <2>6. /\ P + Q = sv + (k + 1) * sa + (T + k) * sj
        /\ Q + sj = sa + (k + 1) * sj
    <3> HIDE DEF T, k, sv, sa, sj
    <3> QED BY <2>3, <2>4
  <2>7. v' = Wrap(P + Q)
    BY <2>1, <2>2, <2>5, WrapSum
  <2>8. a' = Wrap(Q + sj)
    <3>1. Wrap(Wrap(Q) + Wrap(sj)) = Wrap(Q + sj)
      BY <2>3, <2>5, WrapSum, Zenon
    <3>2. Wrap(sj) = sj
      BY <2>3, WrapId
    <3> HIDE DEF Q, sj
    <3> QED
      BY <2>1, <2>2, <3>1, <3>2
  <2>9. Trajectory' <=> /\ j' = sj
                        /\ a' = Wrap(sa + (k + 1) * sj)
                        /\ v' = Wrap(sv + (k + 1) * sa
                                  + (((k + 1) * ((k + 1) - 1)) \div 2) * sj)
    BY <2>1 DEF Trajectory, Wrap
  <2> QED
    BY <2>1, <2>2, <2>4, <2>6, <2>7, <2>8, <2>9
<1>3. CASE SegmentRun /\ ~step_stb
  BY <1>3 DEF SegmentRun, Trajectory, profileVars, Wrap
<1>4. CASE SegmentRest
  BY <1>4 DEF SegmentRest, Trajectory, profileVars, Wrap
<1> QED
  BY <1>1, <1>2, <1>3, <1>4 DEF HwClock

(* At reset the polynomials are zero.                                      *)
LEMMA ResetTrajectory == (HwInit => Trajectory) /\ (HwReset => Trajectory')
<1>1. Wrap(0) = 0
  BY HAssumption, WrapId DEF SWord
<1>2. 0 + 0 * 0 = 0 /\ 0 + 0 * 0 + ((0 * (0 - 1)) \div 2) * 0 = 0
  BY SMT
<1>3. HwInit => Trajectory
  BY <1>1, <1>2 DEF HwInit, ProfileInit, Trajectory
<1>4. HwReset => Trajectory'
  <2> SUFFICES ASSUME HwReset PROVE Trajectory'
    OBVIOUS
  <2>1. /\ v' = 0 /\ a' = 0 /\ j' = 0 /\ applied' = 0
        /\ start' = [v |-> 0, a |-> 0, j |-> 0]
    BY DEF HwReset, ProfileReset
  <2> QED
    BY <1>1, <1>2, <2>1 DEF Trajectory, Wrap
<1> QED
  BY <1>3, <1>4

(* Between two loads v, a and j are polynomials of the number of           *)
(* increments, modulo the word: acc_profile_gen computes the motion the    *)
(* driver planned, for every width and every coefficient.                  *)
THEOREM TrajectoryExact == HwSpec => []Trajectory
<1>1. HwInit => HwTypeOK /\ Trajectory
  BY ResetType, ResetTrajectory
<1>2. (HwTypeOK /\ Trajectory) /\ [HwNext]_hwVars => (HwTypeOK /\ Trajectory)'
  <2> SUFFICES ASSUME HwTypeOK, Trajectory, [HwNext]_hwVars
               PROVE  HwTypeOK' /\ Trajectory'
    OBVIOUS
  <2>1. CASE HwReset
    BY <2>1, ResetType, ResetTrajectory
  <2>2. ASSUME NEW wr \in BusWrites \cup {NoWrite}, HwClock(wr)
        PROVE  HwTypeOK' /\ Trajectory'
    BY <2>2, WritesType, ClockType, ClockTrajectory
  <2>3. CASE UNCHANGED hwVars
    BY <2>3 DEF hwVars, timerVars, profileVars, HwTypeOK, TimerTypeOK,
         ProfileTypeOK, Trajectory, Wrap
  <2> QED
    BY <2>1, <2>2, <2>3 DEF HwNext
<1> QED
  BY <1>1, <1>2, PTL DEF HwSpec

-----------------------------------------------------------------------------
\* The routines that hand a command to the core.
Moves == {MoveProg(n, ca, cj) : n \in Word, ca \in Coefs, cj \in Coefs}

Handing == prog \in Moves \/ prog = StopProg

\* What a routine that hands over a command is like, whatever its values: it
\* writes a register at most once, reads the command before it sets a bit of
\* it, sets START last, and leaves the configuration alone.
Commanding(p) ==
  /\ p \in Seq(Ops) /\ Len(p) > 0
  /\ p[Len(p)].do = "or" /\ p[Len(p)].bit = "START"
  /\ \A i \in 1 .. Len(p) :
       /\ p[i].do = "write" =>
            p[i].reg \in {"NEXT_STEPS", "NEXT_V", "NEXT_A", "NEXT_J"}
       /\ p[i].do = "or" =>
            /\ i > 1 /\ p[i - 1].do = "read"
            /\ p[i].bit = "START" => i = Len(p)
  /\ \A i, k \in 1 .. Len(p) :
       p[i].do = "write" /\ p[k].do = "write" /\ p[i].reg = p[k].reg => i = k

\* The bits set by the accesses before access n.
BitsBefore(p, n) == {p[i].bit : i \in {k \in 1 .. n - 1 : p[k].do = "or"}}

\* The registers hold what the accesses before access n wrote.
Written(p, n) ==
  \A i \in 1 .. n - 1 :
    i <= Len(p) /\ p[i].do = "write" => reg[p[i].reg] = p[i].val

Configured ==
  /\ reg["NEXT_DT"] = STEP_FREQ \div ACC_FREQ
  /\ reg["PRE_N"] = PRE_N /\ reg["PULSE_N"] = PULSE_N
  /\ reg["POST_N"] = POST_N /\ reg["STEP_BIT"] = H + STEP_BIT

Standing == v = 0 /\ a = 0 /\ j = 0

AtRest == stopped /\ reg_cmd = {} /\ Standing /\ flight = <<>>

\* The driver is in a routine, or has left the core with the command of one.
Busy == loc = "run" \/ state \in {"ACTIVE", "STOPPING"}

\* The command register while the routine runs, and after it: the routine's
\* bits or, once the core has loaded it, none.
CommandInv ==
  /\ pc <= Len(prog) =>
       /\ reg_cmd = BitsBefore(prog, pc)
       /\ prog[pc].do = "or" => tmp = reg_cmd
  /\ pc > Len(prog) => reg_cmd \in {{}, BitsBefore(prog, pc)}

\* What the driver knows of the core, by where it is.
DriverInv ==
  /\ ~Busy => AtRest /\ cur_v = 0
  /\ state = "IDLE" => Configured
  /\ Busy => /\ Handing \/ prog = InitProg
             /\ Written(prog, pc)
  /\ (Busy /\ Handing) =>
       /\ Commanding(prog) /\ Configured /\ CommandInv
       /\ flight # <<>> => prog \in Moves /\ (pc <= Len(prog) \/ reg_cmd # {})
       /\ (prog = StopProg /\ pc > Len(prog) /\ reg_cmd = {}) => Standing
  /\ (Busy /\ prog = InitProg) => loc = "run" /\ state = "OFF" /\ AtRest
  /\ (loc = "run" /\ state = "OFF") => prog = InitProg
  /\ loc = "run" =>
       /\ prog = InitProg => then = [state |-> "IDLE", v |-> 0]
       /\ prog = StopProg => then = [state |-> "STOPPING", v |-> 0]
       /\ prog \in Moves => then.state = "ACTIVE"
  /\ (loc # "run" /\ state \in {"ACTIVE", "STOPPING"}) => pc = Len(prog) + 1
  /\ (loc # "run" /\ state = "ACTIVE") => prog \in Moves
  /\ (loc # "run" /\ state = "STOPPING") => prog = StopProg /\ cur_v = 0
  /\ loc = "status" => state \in {"ACTIVE", "STOPPING"} /\ reg_cmd = {}

DriveInv == TypeOK /\ DriverInv
-----------------------------------------------------------------------------
(* Sequences: the bus accesses of a routine and the targets of the queue.  *)

(* The length and the domain of a sequence.                                *)
LEMMA SeqLen ==
  ASSUME NEW S, NEW s \in Seq(S)
  PROVE  Len(s) \in Nat /\ DOMAIN s = 1 .. Len(s) /\ s \in [1 .. Len(s) -> S]
  OBVIOUS

(* The elements of a sequence.                                             *)
LEMMA SeqElement ==
  ASSUME NEW S, NEW s \in Seq(S), NEW n \in 1 .. Len(s)
  PROVE  s[n] \in S
  OBVIOUS

(* A sequence that is not empty has a length.                              *)
LEMMA SeqNonEmpty ==
  ASSUME NEW S, NEW s \in Seq(S), s # <<>>
  PROVE  Len(s) \in Nat \ {0}
  OBVIOUS

(* Sequences with the same elements are the same.                          *)
LEMMA SameSeq ==
  ASSUME NEW S, NEW s \in Seq(S), NEW t \in Seq(S),
         Len(s) = Len(t), \A i \in 1 .. Len(s) : s[i] = t[i]
  PROVE  s = t
  OBVIOUS

(* The elements of a concatenation.                                        *)
LEMMA ConcatElements ==
  ASSUME NEW S, NEW s \in Seq(S), NEW t \in Seq(S)
  PROVE  /\ s \o t \in Seq(S)
         /\ Len(s \o t) = Len(s) + Len(t)
         /\ \A i \in 1 .. Len(s) + Len(t) :
              (s \o t)[i] = IF i <= Len(s) THEN s[i] ELSE t[i - Len(s)]
  OBVIOUS

(* The empty sequence adds nothing.                                        *)
LEMMA ConcatEmpty ==
  ASSUME NEW S, NEW s \in Seq(S)
  PROVE  s \o <<>> = s /\ <<>> \o s = s
  OBVIOUS

(* Concatenation is associative.                                           *)
LEMMA ConcatAssoc ==
  ASSUME NEW S, NEW s \in Seq(S), NEW t \in Seq(S), NEW u \in Seq(S)
  PROVE  (s \o t) \o u = s \o (t \o u)
  OBVIOUS

(* The first element and the others.                                       *)
LEMMA HeadTail ==
  ASSUME NEW S, NEW s \in Seq(S), s # <<>>
  PROVE  /\ Head(s) \in S /\ Tail(s) \in Seq(S) /\ Len(Tail(s)) = Len(s) - 1
         /\ \A i \in 1 .. Len(Tail(s)) : Tail(s)[i] = s[i + 1]
  OBVIOUS

(* The elements of a sequence with one more at its end.                    *)
LEMMA AppendElements ==
  ASSUME NEW S, NEW s \in Seq(S), NEW e \in S
  PROVE  /\ Append(s, e) \in Seq(S) /\ Len(Append(s, e)) = Len(s) + 1
         /\ \A i \in 1 .. Len(s) : Append(s, e)[i] = s[i]
         /\ Append(s, e)[Len(s) + 1] = e
  OBVIOUS

(* Appending is concatenating a sequence of one.                           *)
LEMMA AppendConcat ==
  ASSUME NEW S, NEW s \in Seq(S), NEW e \in S
  PROVE  Append(s, e) = s \o <<e>>
  OBVIOUS
-----------------------------------------------------------------------------
(* The driver's routines.                                                  *)

(* The elements of a concatenation.                                        *)
LEMMA Extended ==
  ASSUME NEW S, NEW s \in Seq(S), NEW t \in Seq(S), NEW w, w = s \o t
  PROVE  /\ w \in Seq(S) /\ Len(w) = Len(s) + Len(t)
         /\ \A i \in 1 .. Len(s) : w[i] = s[i]
         /\ \A i \in 1 .. Len(t) : w[Len(s) + i] = t[i]
<1>1. /\ w \in Seq(S) /\ Len(w) = Len(s) + Len(t)
      /\ \A i \in 1 .. Len(s) + Len(t) :
           w[i] = IF i <= Len(s) THEN s[i] ELSE t[i - Len(s)]
  BY ConcatElements
<1>2. Len(s) \in Nat /\ Len(t) \in Nat
  BY SeqLen
<1>3. \A i \in 1 .. Len(s) : w[i] = s[i]
  BY <1>1, <1>2
<1>4. ASSUME NEW i \in 1 .. Len(t)
      PROVE  w[Len(s) + i] = t[i]
  <2>1. /\ Len(s) + i \in 1 .. Len(s) + Len(t)
        /\ ~(Len(s) + i <= Len(s)) /\ (Len(s) + i) - Len(s) = i
    BY <1>2
  <2> QED BY <1>1, <2>1
<1> QED
  BY <1>1, <1>3, <1>4

(* The values the driver writes are words.                                 *)
LEMMA OpTypes ==
  /\ \A r \in Regs, x \in Word : WriteOp(r, x) \in Ops
  /\ ReadCmd \in Ops
  /\ \A b \in CmdBits : OrCmd(b) \in Ops
  /\ \A x \in Int : Unsigned(x) \in Word
<1>1. 0 \in Word /\ M \in Nat \ {0}
  BY HAssumption DEF Word, M
<1>2. \A x \in Int : Unsigned(x) \in Word
  BY <1>1, DivMod DEF Unsigned, Word
<1> QED
  BY <1>1, <1>2 DEF WriteOp, ReadCmd, OrCmd, Ops, CmdBits

(* The accesses of a move, in order.                                       *)
LEMMA MoveAccesses ==
  ASSUME NEW n \in Word, NEW ca \in Coefs, NEW cj \in Coefs,
         NEW p, p = MoveProg(n, ca, cj)
  PROVE  /\ p \in Seq(Ops) /\ Len(p) = 9
         /\ p[1] = WriteOp("NEXT_STEPS", n)
         /\ p[2] = WriteOp("NEXT_A", Unsigned(ca))
         /\ p[3] = ReadCmd
         /\ p[4] = OrCmd("SET_A")
         /\ p[5] = WriteOp("NEXT_J", Unsigned(cj))
         /\ p[6] = ReadCmd
         /\ p[7] = OrCmd("SET_J")
         /\ p[8] = ReadCmd
         /\ p[9] = OrCmd("START")
<1> DEFINE w1 == WriteOp("NEXT_STEPS", n)
           w2 == WriteOp("NEXT_A", Unsigned(ca))
           w3 == WriteOp("NEXT_J", Unsigned(cj))
           oa == OrCmd("SET_A")
           oj == OrCmd("SET_J")
           os == OrCmd("START")
           rd == ReadCmd
           t1 == <<w1>>
           t2 == <<w2, rd, oa>>
           t3 == <<w3, rd, oj>>
           t4 == <<rd, os>>
           p2 == t1 \o t2
           p3 == p2 \o t3
           p4 == p3 \o t4
<1>1. ca \in Int /\ cj \in Int
  BY DriverAssumption, HAssumption DEF SWord
<1>2. /\ w1 \in Ops
      /\ w2 \in Ops
      /\ w3 \in Ops
      /\ oa \in Ops
      /\ oj \in Ops
      /\ os \in Ops
      /\ rd \in Ops
  BY <1>1, OpTypes, DriverAssumption DEF Regs, CmdBits
<1>3. p = p4
  BY DEF MoveProg, MOTION_SetSteps, MOTION_SetA, MOTION_SetJ, MOTION_Start
<1> HIDE DEF w1, w2, w3, oa, oj, os, rd
<1>4. /\ t1 \in Seq(Ops) /\ Len(t1) = 1 /\ t1[1] = w1
      /\ t2 \in Seq(Ops) /\ Len(t2) = 3 /\ t2[1] = w2 /\ t2[2] = rd /\ t2[3] = oa
      /\ t3 \in Seq(Ops) /\ Len(t3) = 3 /\ t3[1] = w3 /\ t3[2] = rd /\ t3[3] = oj
      /\ t4 \in Seq(Ops) /\ Len(t4) = 2 /\ t4[1] = rd /\ t4[2] = os
  BY <1>2
<1> HIDE DEF t1, t2, t3, t4, p2, p3, p4
<1>5. /\ p2 \in Seq(Ops) /\ Len(p2) = 4
      /\ p2[1] = w1 /\ p2[2] = w2 /\ p2[3] = rd /\ p2[4] = oa
  <2>0. p2 = t1 \o t2
    BY DEF p2
  <2>a. t1 \in Seq(Ops) /\ t2 \in Seq(Ops)
    BY <1>4
  <2>1. /\ p2 \in Seq(Ops) /\ Len(p2) = Len(t1) + Len(t2)
        /\ \A i \in 1 .. Len(t1) : p2[i] = t1[i]
        /\ \A i \in 1 .. Len(t2) : p2[Len(t1) + i] = t2[i]
    BY <2>a, <2>0, Extended
  <2> QED BY <1>4, <2>1
<1>6. /\ p3 \in Seq(Ops) /\ Len(p3) = 7
      /\ p3[1] = w1 /\ p3[2] = w2 /\ p3[3] = rd /\ p3[4] = oa /\ p3[5] = w3
      /\ p3[6] = rd /\ p3[7] = oj
  <2>0. p3 = p2 \o t3
    BY DEF p3
  <2>a. p2 \in Seq(Ops) /\ t3 \in Seq(Ops)
    BY <1>4, <1>5
  <2>1. /\ p3 \in Seq(Ops) /\ Len(p3) = Len(p2) + Len(t3)
        /\ \A i \in 1 .. Len(p2) : p3[i] = p2[i]
        /\ \A i \in 1 .. Len(t3) : p3[Len(p2) + i] = t3[i]
    BY <2>a, <2>0, Extended
  <2> QED BY <1>4, <1>5, <2>1
<1>7. /\ p4 \in Seq(Ops) /\ Len(p4) = 9
      /\ p4[1] = w1 /\ p4[2] = w2 /\ p4[3] = rd /\ p4[4] = oa /\ p4[5] = w3
      /\ p4[6] = rd /\ p4[7] = oj /\ p4[8] = rd /\ p4[9] = os
  <2>0. p4 = p3 \o t4
    BY DEF p4
  <2>a. p3 \in Seq(Ops) /\ t4 \in Seq(Ops)
    BY <1>4, <1>6
  <2>1. /\ p4 \in Seq(Ops) /\ Len(p4) = Len(p3) + Len(t4)
        /\ \A i \in 1 .. Len(p3) : p4[i] = p3[i]
        /\ \A i \in 1 .. Len(t4) : p4[Len(p3) + i] = t4[i]
    BY <2>a, <2>0, Extended
  <2> QED BY <1>4, <1>6, <2>1
<1> QED
  BY <1>3, <1>7 DEF w1, w2, w3, oa, oj, os, rd

(* The accesses of a stop, in order.                                       *)
LEMMA StopAccesses ==
  ASSUME NEW p, p = StopProg
  PROVE  /\ p \in Seq(Ops) /\ Len(p) = 12
         /\ p[1] = WriteOp("NEXT_STEPS", ACC_FREQ \div 10)
         /\ p[2] = WriteOp("NEXT_V", Unsigned(0))
         /\ p[3] = ReadCmd
         /\ p[4] = OrCmd("SET_V")
         /\ p[5] = WriteOp("NEXT_A", Unsigned(0))
         /\ p[6] = ReadCmd
         /\ p[7] = OrCmd("SET_A")
         /\ p[8] = WriteOp("NEXT_J", Unsigned(0))
         /\ p[9] = ReadCmd
         /\ p[10] = OrCmd("SET_J")
         /\ p[11] = ReadCmd
         /\ p[12] = OrCmd("START")
<1> DEFINE w1 == WriteOp("NEXT_STEPS", ACC_FREQ \div 10)
           w2 == WriteOp("NEXT_V", Unsigned(0))
           w3 == WriteOp("NEXT_A", Unsigned(0))
           w4 == WriteOp("NEXT_J", Unsigned(0))
           ov == OrCmd("SET_V")
           oa == OrCmd("SET_A")
           oj == OrCmd("SET_J")
           os == OrCmd("START")
           rd == ReadCmd
           t1 == <<w1>>
           t2 == <<w2, rd, ov>>
           t3 == <<w3, rd, oa>>
           t4 == <<w4, rd, oj>>
           t5 == <<rd, os>>
           p2 == t1 \o t2
           p3 == p2 \o t3
           p4 == p3 \o t4
           p5 == p4 \o t5
<1>1. 0 \in Int
  OBVIOUS
<1>2. /\ w1 \in Ops
      /\ w2 \in Ops
      /\ w3 \in Ops
      /\ w4 \in Ops
      /\ ov \in Ops
      /\ oa \in Ops
      /\ oj \in Ops
      /\ os \in Ops
      /\ rd \in Ops
  BY <1>1, OpTypes, DriverAssumption DEF Regs, CmdBits
<1>3. p = p5
  BY DEF StopProg, MOTION_SetSteps, MOTION_SetV, MOTION_SetA, MOTION_SetJ, MOTION_Start
<1> HIDE DEF w1, w2, w3, w4, ov, oa, oj, os, rd
<1>4. /\ t1 \in Seq(Ops) /\ Len(t1) = 1 /\ t1[1] = w1
      /\ t2 \in Seq(Ops) /\ Len(t2) = 3 /\ t2[1] = w2 /\ t2[2] = rd /\ t2[3] = ov
      /\ t3 \in Seq(Ops) /\ Len(t3) = 3 /\ t3[1] = w3 /\ t3[2] = rd /\ t3[3] = oa
      /\ t4 \in Seq(Ops) /\ Len(t4) = 3 /\ t4[1] = w4 /\ t4[2] = rd /\ t4[3] = oj
      /\ t5 \in Seq(Ops) /\ Len(t5) = 2 /\ t5[1] = rd /\ t5[2] = os
  BY <1>2
<1> HIDE DEF t1, t2, t3, t4, t5, p2, p3, p4, p5
<1>5. /\ p2 \in Seq(Ops) /\ Len(p2) = 4
      /\ p2[1] = w1 /\ p2[2] = w2 /\ p2[3] = rd /\ p2[4] = ov
  <2>0. p2 = t1 \o t2
    BY DEF p2
  <2>a. t1 \in Seq(Ops) /\ t2 \in Seq(Ops)
    BY <1>4
  <2>1. /\ p2 \in Seq(Ops) /\ Len(p2) = Len(t1) + Len(t2)
        /\ \A i \in 1 .. Len(t1) : p2[i] = t1[i]
        /\ \A i \in 1 .. Len(t2) : p2[Len(t1) + i] = t2[i]
    BY <2>a, <2>0, Extended
  <2> QED BY <1>4, <2>1
<1>6. /\ p3 \in Seq(Ops) /\ Len(p3) = 7
      /\ p3[1] = w1 /\ p3[2] = w2 /\ p3[3] = rd /\ p3[4] = ov /\ p3[5] = w3
      /\ p3[6] = rd /\ p3[7] = oa
  <2>0. p3 = p2 \o t3
    BY DEF p3
  <2>a. p2 \in Seq(Ops) /\ t3 \in Seq(Ops)
    BY <1>4, <1>5
  <2>1. /\ p3 \in Seq(Ops) /\ Len(p3) = Len(p2) + Len(t3)
        /\ \A i \in 1 .. Len(p2) : p3[i] = p2[i]
        /\ \A i \in 1 .. Len(t3) : p3[Len(p2) + i] = t3[i]
    BY <2>a, <2>0, Extended
  <2> QED BY <1>4, <1>5, <2>1
<1>7. /\ p4 \in Seq(Ops) /\ Len(p4) = 10
      /\ p4[1] = w1 /\ p4[2] = w2 /\ p4[3] = rd /\ p4[4] = ov /\ p4[5] = w3
      /\ p4[6] = rd /\ p4[7] = oa /\ p4[8] = w4 /\ p4[9] = rd /\ p4[10] = oj
  <2>0. p4 = p3 \o t4
    BY DEF p4
  <2>a. p3 \in Seq(Ops) /\ t4 \in Seq(Ops)
    BY <1>4, <1>6
  <2>1. /\ p4 \in Seq(Ops) /\ Len(p4) = Len(p3) + Len(t4)
        /\ \A i \in 1 .. Len(p3) : p4[i] = p3[i]
        /\ \A i \in 1 .. Len(t4) : p4[Len(p3) + i] = t4[i]
    BY <2>a, <2>0, Extended
  <2> QED BY <1>4, <1>6, <2>1
<1>8. /\ p5 \in Seq(Ops) /\ Len(p5) = 12
      /\ p5[1] = w1 /\ p5[2] = w2 /\ p5[3] = rd /\ p5[4] = ov /\ p5[5] = w3
      /\ p5[6] = rd /\ p5[7] = oa /\ p5[8] = w4 /\ p5[9] = rd /\ p5[10] = oj
      /\ p5[11] = rd /\ p5[12] = os
  <2>0. p5 = p4 \o t5
    BY DEF p5
  <2>a. p4 \in Seq(Ops) /\ t5 \in Seq(Ops)
    BY <1>4, <1>7
  <2>1. /\ p5 \in Seq(Ops) /\ Len(p5) = Len(p4) + Len(t5)
        /\ \A i \in 1 .. Len(p4) : p5[i] = p4[i]
        /\ \A i \in 1 .. Len(t5) : p5[Len(p4) + i] = t5[i]
    BY <2>a, <2>0, Extended
  <2> QED BY <1>4, <1>7, <2>1
<1> QED
  BY <1>3, <1>8 DEF w1, w2, w3, w4, ov, oa, oj, os, rd

(* The accesses of the initialization, in order.                           *)
LEMMA InitAccesses ==
  ASSUME NEW p, p = InitProg
  PROVE  /\ p \in Seq(Ops) /\ Len(p) = 5
         /\ p[1] = WriteOp("PRE_N", PRE_N)
         /\ p[2] = WriteOp("PULSE_N", PULSE_N)
         /\ p[3] = WriteOp("POST_N", POST_N)
         /\ p[4] = WriteOp("STEP_BIT", H + STEP_BIT)
         /\ p[5] = WriteOp("NEXT_DT", STEP_FREQ \div ACC_FREQ)
<1> DEFINE w1 == WriteOp("PRE_N", PRE_N)
           w2 == WriteOp("PULSE_N", PULSE_N)
           w3 == WriteOp("POST_N", POST_N)
           w4 == WriteOp("STEP_BIT", H + STEP_BIT)
           w5 == WriteOp("NEXT_DT", STEP_FREQ \div ACC_FREQ)
           t1 == <<w1, w2, w3, w4>>
           t2 == <<w5>>
           p2 == t1 \o t2
<1>1. 0 \in Int
  OBVIOUS
<1>2. /\ w1 \in Ops
      /\ w2 \in Ops
      /\ w3 \in Ops
      /\ w4 \in Ops
      /\ w5 \in Ops
  BY <1>1, OpTypes, DriverAssumption DEF Regs, CmdBits
<1>3. p = p2
  BY DEF InitProg, MOTION_SetDT
<1> HIDE DEF w1, w2, w3, w4, w5
<1>4. /\ t1 \in Seq(Ops) /\ Len(t1) = 4 /\ t1[1] = w1 /\ t1[2] = w2 /\ t1[3] = w3 /\ t1[4] = w4
      /\ t2 \in Seq(Ops) /\ Len(t2) = 1 /\ t2[1] = w5
  BY <1>2
<1> HIDE DEF t1, t2, p2
<1>5. /\ p2 \in Seq(Ops) /\ Len(p2) = 5
      /\ p2[1] = w1 /\ p2[2] = w2 /\ p2[3] = w3 /\ p2[4] = w4 /\ p2[5] = w5
  <2>0. p2 = t1 \o t2
    BY DEF p2
  <2>a. t1 \in Seq(Ops) /\ t2 \in Seq(Ops)
    BY <1>4, SMTT(20)
  <2>1. /\ p2 \in Seq(Ops) /\ Len(p2) = Len(t1) + Len(t2)
        /\ \A i \in 1 .. Len(t1) : p2[i] = t1[i]
        /\ \A i \in 1 .. Len(t2) : p2[Len(t1) + i] = t2[i]
    BY <2>a, <2>0, Extended
  <2> QED BY <1>4, <2>1
<1> QED
  BY <1>3, <1>5 DEF w1, w2, w3, w4, w5

(* A move is a routine that hands over a command.                          *)
LEMMA MoveCommands ==
  ASSUME NEW p \in Moves
  PROVE  Commanding(p)
<1>1. PICK n \in Word, ca \in Coefs, cj \in Coefs : p = MoveProg(n, ca, cj)
  BY DEF Moves
<1>2. /\ p \in Seq(Ops) /\ Len(p) = 9
      /\ p[1] = WriteOp("NEXT_STEPS", n)
      /\ p[2] = WriteOp("NEXT_A", Unsigned(ca))
      /\ p[3] = ReadCmd /\ p[4] = OrCmd("SET_A")
      /\ p[5] = WriteOp("NEXT_J", Unsigned(cj))
      /\ p[6] = ReadCmd /\ p[7] = OrCmd("SET_J")
      /\ p[8] = ReadCmd /\ p[9] = OrCmd("START")
  BY <1>1, MoveAccesses
<1>3. /\ p[1].do = "write" /\ p[2].do = "write" /\ p[5].do = "write"
      /\ p[3].do = "read" /\ p[6].do = "read" /\ p[8].do = "read"
      /\ p[4].do = "or" /\ p[7].do = "or" /\ p[9].do = "or"
      /\ p[1].reg = "NEXT_STEPS" /\ p[2].reg = "NEXT_A" /\ p[5].reg = "NEXT_J"
      /\ p[4].bit = "SET_A" /\ p[7].bit = "SET_J" /\ p[9].bit = "START"
  BY <1>2 DEF WriteOp, ReadCmd, OrCmd
<1>4. \A i \in 1 .. Len(p) : i \in {1, 2, 3, 4, 5, 6, 7, 8, 9}
  BY <1>2
<1>5. \A i \in 1 .. Len(p) : p[i].do = "write" => i \in {1, 2, 5}
  BY <1>3, <1>4, SMTT(20)
<1>6. \A i \in 1 .. Len(p) : p[i].do = "or" => i \in {4, 7, 9}
  BY <1>3, <1>4, SMTT(30)
<1>7. ASSUME NEW i \in 1 .. Len(p)
      PROVE  /\ p[i].do = "write" =>
                  p[i].reg \in {"NEXT_STEPS", "NEXT_V", "NEXT_A", "NEXT_J"}
             /\ p[i].do = "or" =>
                  /\ i > 1 /\ p[i - 1].do = "read"
                  /\ p[i].bit = "START" => i = Len(p)
  BY <1>2, <1>3, <1>5, <1>6
<1>8. ASSUME NEW i \in 1 .. Len(p), NEW k \in 1 .. Len(p),
             p[i].do = "write", p[k].do = "write", p[i].reg = p[k].reg
      PROVE  i = k
  BY <1>3, <1>5, <1>8
<1>9. p \in Seq(Ops) /\ Len(p) > 0 /\ p[Len(p)].do = "or" /\ p[Len(p)].bit = "START"
  BY <1>2, <1>3
<1> QED
  BY <1>7, <1>8, <1>9, Zenon DEF Commanding

(* So is a stop.                                                           *)
LEMMA StopCommands == Commanding(StopProg)
<1> DEFINE p == StopProg
<1>2. /\ p \in Seq(Ops) /\ Len(p) = 12
      /\ p[1] = WriteOp("NEXT_STEPS", ACC_FREQ \div 10)
      /\ p[2] = WriteOp("NEXT_V", Unsigned(0))
      /\ p[3] = ReadCmd /\ p[4] = OrCmd("SET_V")
      /\ p[5] = WriteOp("NEXT_A", Unsigned(0))
      /\ p[6] = ReadCmd /\ p[7] = OrCmd("SET_A")
      /\ p[8] = WriteOp("NEXT_J", Unsigned(0))
      /\ p[9] = ReadCmd /\ p[10] = OrCmd("SET_J")
      /\ p[11] = ReadCmd /\ p[12] = OrCmd("START")
  BY StopAccesses
<1> HIDE DEF p
<1>3. /\ p[1].do = "write" /\ p[2].do = "write" /\ p[5].do = "write" /\ p[8].do = "write"
      /\ p[3].do = "read" /\ p[6].do = "read" /\ p[9].do = "read" /\ p[11].do = "read"
      /\ p[4].do = "or" /\ p[7].do = "or" /\ p[10].do = "or" /\ p[12].do = "or"
      /\ p[1].reg = "NEXT_STEPS" /\ p[2].reg = "NEXT_V" /\ p[5].reg = "NEXT_A"
      /\ p[8].reg = "NEXT_J"
      /\ p[4].bit = "SET_V" /\ p[7].bit = "SET_A" /\ p[10].bit = "SET_J"
      /\ p[12].bit = "START"
  BY <1>2 DEF WriteOp, ReadCmd, OrCmd
<1>4. \A i \in 1 .. Len(p) : i \in {1, 2, 3, 4, 5, 6, 7, 8, 9, 10, 11, 12}
  BY <1>2
<1>5. \A i \in 1 .. Len(p) : p[i].do = "write" => i \in {1, 2, 5, 8}
  BY <1>3, <1>4, SMTT(20)
<1>6. \A i \in 1 .. Len(p) : p[i].do = "or" => i \in {4, 7, 10, 12}
  BY <1>3, <1>4
<1>7. ASSUME NEW i \in 1 .. Len(p)
      PROVE  /\ p[i].do = "write" =>
                  p[i].reg \in {"NEXT_STEPS", "NEXT_V", "NEXT_A", "NEXT_J"}
             /\ p[i].do = "or" =>
                  /\ i > 1 /\ p[i - 1].do = "read"
                  /\ p[i].bit = "START" => i = Len(p)
  BY <1>2, <1>3, <1>5, <1>6
<1>8. ASSUME NEW i \in 1 .. Len(p), NEW k \in 1 .. Len(p),
             p[i].do = "write", p[k].do = "write", p[i].reg = p[k].reg
      PROVE  i = k
  <2>1. i \in {1, 2, 5, 8} /\ k \in {1, 2, 5, 8}
    BY <1>5, <1>8
  <2> QED BY <1>3, <1>8, <2>1, SMTT(30)
<1>9. Commanding(p)
  <2>1. /\ p \in Seq(Ops) /\ Len(p) > 0
        /\ p[Len(p)].do = "or" /\ p[Len(p)].bit = "START"
    BY <1>2, <1>3
  <2> QED BY <1>7, <1>8, <2>1, Zenon DEF Commanding
<1> QED
  BY <1>9 DEF p

(* The initialization only writes, each register once, and writes the      *)
(* whole configuration.                                                    *)
LEMMA InitWrites ==
  /\ InitProg \in Seq(Ops) /\ Len(InitProg) = 5
  /\ \A i \in 1 .. 5 : InitProg[i].do = "write"
  /\ \A i, k \in 1 .. 5 : InitProg[i].reg = InitProg[k].reg => i = k
  /\ \A n \in Nat : n > 5 /\ Written(InitProg, n) => Configured
<1> DEFINE p == InitProg
<1>1. /\ p \in Seq(Ops) /\ Len(p) = 5
      /\ p[1] = WriteOp("PRE_N", PRE_N) /\ p[2] = WriteOp("PULSE_N", PULSE_N)
      /\ p[3] = WriteOp("POST_N", POST_N) /\ p[4] = WriteOp("STEP_BIT", H + STEP_BIT)
      /\ p[5] = WriteOp("NEXT_DT", STEP_FREQ \div ACC_FREQ)
  BY InitAccesses
<1> HIDE DEF p
<1>2. /\ p[1].do = "write" /\ p[2].do = "write" /\ p[3].do = "write"
      /\ p[4].do = "write" /\ p[5].do = "write"
      /\ p[1].reg = "PRE_N" /\ p[2].reg = "PULSE_N" /\ p[3].reg = "POST_N"
      /\ p[4].reg = "STEP_BIT" /\ p[5].reg = "NEXT_DT"
      /\ p[1].val = PRE_N /\ p[2].val = PULSE_N /\ p[3].val = POST_N
      /\ p[4].val = H + STEP_BIT /\ p[5].val = STEP_FREQ \div ACC_FREQ
  BY <1>1 DEF WriteOp
<1>3. \A i \in 1 .. 5 : i \in {1, 2, 3, 4, 5}
  OBVIOUS
<1>4. \A i \in 1 .. 5 : p[i].do = "write"
  BY <1>2, <1>3
<1>5. \A i, k \in 1 .. 5 : p[i].reg = p[k].reg => i = k
  BY <1>2, <1>3
<1>6. ASSUME NEW n \in Nat, n > 5, Written(p, n)
      PROVE  Configured
  <2>1. \A i \in {1, 2, 3, 4, 5} : reg[p[i].reg] = p[i].val
    BY <1>1, <1>2, <1>6, SMTT(30) DEF Written
  <2> QED
    BY <1>2, <2>1 DEF Configured
<1> QED
  BY <1>1, <1>4, <1>5, <1>6 DEF p

(* The bits a routine has set: START only when it is through, and one more *)
(* with each access that sets one.                                         *)
LEMMA BitsOf ==
  ASSUME NEW p, Commanding(p), NEW n \in 1 .. Len(p)
  PROVE  /\ BitsBefore(p, 1) = {}
         /\ "START" \notin BitsBefore(p, n)
         /\ p[n].do # "or" => BitsBefore(p, n + 1) = BitsBefore(p, n)
         /\ p[n].do = "or" => BitsBefore(p, n + 1) = BitsBefore(p, n) \cup {p[n].bit}
<1>1. Len(p) \in Nat
  BY SeqLen DEF Commanding
<1>2. \A k \in 1 .. (n + 1) - 1 : k \in 1 .. n - 1 \/ k = n
  BY <1>1
<1>3. \A k \in 1 .. n - 1 : k \in 1 .. (n + 1) - 1 /\ k \in 1 .. Len(p) /\ k # Len(p)
  BY <1>1
<1>4. n \in 1 .. (n + 1) - 1
  BY <1>1
<1>5. "START" \notin BitsBefore(p, n)
  BY <1>3 DEF BitsBefore, Commanding
<1>6. 1 .. 1 - 1 = {}
  OBVIOUS
<1>7. BitsBefore(p, 1) = {}
  BY <1>6 DEF BitsBefore
<1> QED
  BY <1>2, <1>3, <1>4, <1>5, <1>7 DEF BitsBefore

(* Once a routine is through, its bits are all of them, START among them.  *)
LEMMA BitsAll ==
  ASSUME NEW p, Commanding(p)
  PROVE  /\ BitsBefore(p, Len(p) + 1) = OpsBits(p)
         /\ "START" \in BitsBefore(p, Len(p) + 1)
<1>1. Len(p) \in Nat /\ DOMAIN p = 1 .. Len(p) /\ Len(p) > 0
  BY SeqLen DEF Commanding
<1>2. 1 .. (Len(p) + 1) - 1 = 1 .. Len(p) /\ Len(p) \in 1 .. Len(p)
  BY <1>1, SMTT(30)
<1> QED
  BY <1>1, <1>2, Zenon DEF BitsBefore, OpsBits, Commanding
-----------------------------------------------------------------------------
(* What a clock of the core does to what the driver knows.                 *)

(* The writes of the driver have the type of a bus write.                  *)
LEMMA DriverWrites ==
  ASSUME TypeOK, NEW i \in 1 .. Len(prog)
  PROVE  /\ prog[i].do = "write" /\ prog[i].reg \in Regs
               => Wr(prog[i].reg, prog[i].val) \in BusWrite
         /\ WrCmd(tmp \cup {prog[i].bit}) \in BusWrite
         /\ NoWrite \in BusWrite
<1>1. prog[i] \in Ops /\ tmp \in SUBSET CmdBits
  BY SeqElement DEF TypeOK
<1>2. 0 \in Word
  BY HAssumption DEF Word, M
<1> QED
  BY <1>1, <1>2 DEF Ops, Wr, WrCmd, NoWrite, BusWrite

(* An axis at rest without a command stays so, whatever register is        *)
(* written.                                                                *)
LEMMA RestKept ==
  ASSUME AtRest, NEW wr, wr.reg # "CMD", Clock(wr)
  PROVE  AtRest'
<1>1. ~load
  BY DEF AtRest, load
<1>2. reg_cmd' = {} /\ flight' = <<>>
  BY <1>1 DEF Clock, HwClock, CmdWrite, Track, AtRest
<1>3. SegmentRest
  BY <1>1 DEF Clock, HwClock, SegmentLoad, SegmentRun, TimerCount, AtRest
<1> QED
  BY <1>2, <1>3 DEF SegmentRest, TimerHold, AtRest, Standing, profileVars

(* Without a load an axis that stands still goes on standing still: there  *)
(* is nothing to add.                                                      *)
LEMMA StandingKept ==
  ASSUME Standing, NEW wr, HwClock(wr), ~load
  PROVE  Standing'
<1>1. Wrap(v + a) = 0 /\ Wrap(a + j) = 0
  <2>1. v + a = 0 /\ a + j = 0 /\ v + a \in SWord /\ a + j \in SWord
    BY HAssumption DEF SWord, Standing
  <2> QED BY <2>1, WrapId
<1>2. CASE SegmentRun /\ step_stb
  BY <1>1, <1>2 DEF SegmentRun, ProfileStep, Standing
<1>3. CASE (SegmentRun /\ ~step_stb) \/ SegmentRest
  BY <1>3 DEF SegmentRun, SegmentRest, profileVars, Standing
<1> QED
  BY <1>2, <1>3 DEF HwClock, SegmentLoad

(* Unless it is written or loaded, the command register keeps its value,   *)
(* and with it the move on its way.                                        *)
LEMMA CommandKept ==
  ASSUME NEW wr, Clock(wr), ~load
  PROVE  /\ reg_cmd' = IF wr.reg = "CMD" THEN wr.bits ELSE reg_cmd
         /\ flight' = flight
  BY DEF Clock, HwClock, CmdWrite, Track

(* The load of a stop zeroes the whole profile.                            *)
LEMMA StopLoaded ==
  ASSUME load, reg_cmd = OpsBits(StopProg), Written(StopProg, Len(StopProg) + 1),
         NEW wr, HwClock(wr)
  PROVE  Standing'
<1> DEFINE p == StopProg
<1>1. /\ p \in Seq(Ops) /\ Len(p) = 12
      /\ p[2] = WriteOp("NEXT_V", Unsigned(0)) /\ p[4] = OrCmd("SET_V")
      /\ p[5] = WriteOp("NEXT_A", Unsigned(0)) /\ p[7] = OrCmd("SET_A")
      /\ p[8] = WriteOp("NEXT_J", Unsigned(0)) /\ p[10] = OrCmd("SET_J")
      /\ Written(p, Len(p) + 1)
  BY StopAccesses
<1>2. reg_cmd = OpsBits(p)
  BY SMTT(30)
<1> HIDE DEF p
<1>3. /\ p[2].do = "write" /\ p[5].do = "write" /\ p[8].do = "write"
      /\ p[2].reg = "NEXT_V" /\ p[5].reg = "NEXT_A" /\ p[8].reg = "NEXT_J"
      /\ p[2].val = Unsigned(0) /\ p[5].val = Unsigned(0) /\ p[8].val = Unsigned(0)
      /\ p[4].do = "or" /\ p[7].do = "or" /\ p[10].do = "or"
      /\ p[4].bit = "SET_V" /\ p[7].bit = "SET_A" /\ p[10].bit = "SET_J"
  BY <1>1 DEF WriteOp, OrCmd
<1>4. Unsigned(0) = 0
  BY HAssumption DEF Unsigned, M
<1>5. reg["NEXT_V"] = 0 /\ reg["NEXT_A"] = 0 /\ reg["NEXT_J"] = 0
  <2>1. \A i \in {2, 5, 8} : reg[p[i].reg] = p[i].val
    BY <1>1, <1>3 DEF Written
  <2> QED BY <1>3, <1>4, <2>1, SMTT(30)
<1>6. {"SET_V", "SET_A", "SET_J"} \subseteq reg_cmd
  <2>1. DOMAIN p = 1 .. 12
    BY <1>1, SeqLen
  <2>2. 4 \in DOMAIN p /\ 7 \in DOMAIN p /\ 10 \in DOMAIN p
    BY <2>1
  <2>3. \A i \in DOMAIN p : p[i].do = "or" => p[i].bit \in OpsBits(p)
    BY DEF OpsBits
  <2>4. p[4].bit \in OpsBits(p) /\ p[7].bit \in OpsBits(p) /\ p[10].bit \in OpsBits(p)
    BY <1>3, <2>2, <2>3
  <2> QED BY <1>2, <1>3, <2>4
<1>7. Signed(0) = 0
  BY HAssumption DEF Signed
<1>8. SegmentLoad
  BY DEF HwClock, SegmentRun, SegmentRest
<1> QED
  BY <1>5, <1>6, <1>7, <1>8 DEF SegmentLoad, ProfileLoad, Standing

(* A register write disturbs neither the other registers nor, unless it is *)
(* to one of them, the configuration.                                      *)
LEMMA RegistersKept ==
  ASSUME TypeOK, NEW wr, HwClock(wr)
  PROVE  /\ \A r \in Regs : r # wr.reg => reg'[r] = reg[r]
         /\ wr.reg \in Regs => reg'[wr.reg] = wr.val
         /\ wr.reg \notin Regs => reg' = reg
  BY DEF TypeOK, HwTypeOK, HwClock, RegWrite

(* The routines are told apart.                                            *)
LEMMA Kinds ==
  /\ \A p \in Moves : Commanding(p) /\ p # InitProg /\ p # StopProg
  /\ Commanding(StopProg) /\ StopProg # InitProg
<1>1. ASSUME NEW p, Commanding(p) PROVE p # InitProg
  <2>1. p[Len(p)].do = "or"
    BY <1>1 DEF Commanding
  <2>2. InitProg[Len(InitProg)].do = "write"
    BY InitWrites
  <2> QED BY <2>1, <2>2
<1>2. ASSUME NEW p \in Moves PROVE p # StopProg
  <2>1. PICK n \in Word, ca \in Coefs, cj \in Coefs : p = MoveProg(n, ca, cj)
    BY DEF Moves
  <2>2. Len(p) = 9
    BY <2>1, MoveAccesses
  <2>3. Len(StopProg) = 12
    BY StopAccesses
  <2> QED BY <2>2, <2>3
<1> QED
  BY <1>1, <1>2, MoveCommands, StopCommands
-----------------------------------------------------------------------------
(* The core, from one bus access to the next.                              *)

(* A clock keeps the types of the core and of the history.                 *)
LEMMA ClockTyped ==
  ASSUME TypeOK, NEW wr \in BusWrite, Clock(wr)
  PROVE  /\ HwTypeOK'
         /\ flight' \in Seq(Targets) /\ Len(flight') <= 1
         /\ running' \in Seq(Targets) /\ Len(running') <= 1
<1>1. HwTypeOK'
  BY ClockType DEF TypeOK, Clock
<1>2. <<>> \in Seq(Targets) /\ Len(<<>>) <= 1
  OBVIOUS
<1> QED
  BY <1>1, <1>2 DEF TypeOK, Clock, Track

(* The core's clock between two accesses of the driver.                    *)
LEMMA TickKept ==
  ASSUME DriveInv, Tick
  PROVE  DriveInv'
<1>0. /\ TypeOK /\ DriverInv /\ Clock(NoWrite) /\ HwClock(NoWrite)
      /\ UNCHANGED <<state, queue, cur_v, loc, prog, pc, tmp, then>>
      /\ NoWrite \in BusWrite /\ NoWrite.reg = "none" /\ NoWrite.reg \notin Regs
  BY WritesType DEF DriveInv, Tick, Clock, swVars, NoWrite, Regs
<1>1. TypeOK'
  BY <1>0, ClockTyped DEF TypeOK
<1>2. reg' = reg
  BY <1>0, RegistersKept
<1>3. AtRest => AtRest'
  BY <1>0, RestKept
<1>4. ~load => reg_cmd' = reg_cmd /\ flight' = flight /\ (Standing => Standing')
  BY <1>0, CommandKept, StandingKept
<1>5. load => reg_cmd' = {} /\ flight' = <<>>
  BY <1>0 DEF Clock, HwClock, CmdWrite, Track
<1>6. reg_cmd = {} => ~load
  BY DEF load
<1>7. Configured => Configured'
  BY <1>2 DEF Configured
<1>8. Written(prog, pc) => Written(prog, pc)'
  BY <1>0, <1>2 DEF Written
<1>9. ASSUME Busy, Handing
      PROVE  /\ CommandInv'
             /\ flight' # <<>> => prog \in Moves /\ (pc <= Len(prog) \/ reg_cmd' # {})
             /\ (prog = StopProg /\ pc > Len(prog) /\ reg_cmd' = {}) => Standing'
  <2>0. /\ flight # <<>> => prog \in Moves /\ (pc <= Len(prog) \/ reg_cmd # {})
        /\ (prog = StopProg /\ pc > Len(prog) /\ reg_cmd = {}) => Standing
        /\ Written(prog, pc)
    BY <1>0, <1>9, Zenon DEF DriverInv
  <2>c. Commanding(prog)
    BY <1>0, <1>9, Zenon DEF DriverInv
  <2>i. CommandInv
    BY <1>0, <1>9, Zenon DEF DriverInv
  <2>t. Len(prog) \in Nat /\ pc \in 1 .. Len(prog) + 1
    BY <1>0, SeqLen DEF TypeOK
  <2>1. CASE pc <= Len(prog)
    <3>1. "START" \notin BitsBefore(prog, pc)
      BY <2>c, <2>1, <2>t, BitsOf
    <3>2. reg_cmd = BitsBefore(prog, pc) /\ (prog[pc].do = "or" => tmp = reg_cmd)
      BY <2>i, <2>1, Zenon DEF CommandInv
    <3>3. ~load
      BY <3>1, <3>2, Zenon DEF load
    <3>4. reg_cmd' = reg_cmd /\ flight' = flight
      BY <1>4, <3>3
    <3>5. ~(pc > Len(prog))
      BY <2>1, <2>t, SMTT(30)
    <3>6. BitsBefore(prog, pc)' = BitsBefore(prog, pc)
      BY <1>0 DEF BitsBefore
    <3>7. CommandInv'
      BY <1>0, <3>2, <3>4, <3>5, <3>6, Zenon DEF CommandInv
    <3> QED
      BY <1>0, <2>0, <3>4, <3>5, <3>7, Zenon
  <2>2. CASE pc > Len(prog) /\ ~load
    <3>1. reg_cmd' = reg_cmd /\ flight' = flight /\ (Standing => Standing')
      BY <1>4, <2>2
    <3>2. BitsBefore(prog, pc)' = BitsBefore(prog, pc)
      BY <1>0 DEF BitsBefore
    <3>3. ~(pc <= Len(prog))
      BY <2>2, <2>t
    <3>4. CommandInv'
      BY <1>0, <2>i, <2>2, <3>1, <3>2, <3>3, Zenon DEF CommandInv
    <3> QED
      BY <1>0, <2>0, <2>2, <3>1, <3>3, <3>4, Zenon
  <2>3. CASE pc > Len(prog) /\ load
    <3>1. pc = Len(prog) + 1
      BY <2>3, <2>t
    <3>2. reg_cmd # {}
      BY <2>3 DEF load
    <3>3. reg_cmd = OpsBits(prog)
      <4>1. reg_cmd = BitsBefore(prog, pc)
        BY <2>i, <2>3, <3>2, Zenon DEF CommandInv
      <4> QED
        BY <2>c, <3>1, <4>1, BitsAll
    <3>4. prog = StopProg => Standing'
      BY <1>0, <2>0, <2>3, <3>1, <3>3, StopLoaded
    <3>5. ~(pc <= Len(prog))
      BY <2>3, <2>t
    <3>6. reg_cmd' = {} /\ flight' = <<>>
      BY <1>5, <2>3
    <3> QED
      BY <1>0, <3>4, <3>5, <3>6, Zenon DEF CommandInv
  <2> QED
    BY <2>1, <2>2, <2>3, <2>t
<1>10. /\ Busy' = Busy /\ Handing' = Handing
  BY <1>0 DEF Busy, Handing
<1>11. DriverInv'
  <2>1. (~Busy => AtRest /\ cur_v = 0)' /\ (state = "IDLE" => Configured)'
    BY <1>0, <1>3, <1>7, <1>10, Zenon DEF DriverInv
  <2>2. (Busy => (Handing \/ prog = InitProg) /\ Written(prog, pc))'
    BY <1>0, <1>8, <1>10, Zenon DEF DriverInv
  <2>3. Busy /\ Handing => Commanding(prog)' /\ Configured'
    BY <1>0, <1>7, Zenon DEF DriverInv, Commanding
  <2>4. Busy /\ Handing =>
          /\ CommandInv'
          /\ (flight # <<>> => prog \in Moves /\ (pc <= Len(prog) \/ reg_cmd # {}))'
          /\ ((prog = StopProg /\ pc > Len(prog) /\ reg_cmd = {}) => Standing)'
    BY <1>0, <1>9, Zenon
  <2>5. ((Busy /\ prog = InitProg) => loc = "run" /\ state = "OFF" /\ AtRest)'
    BY <1>0, <1>3, <1>10, Zenon DEF DriverInv
  <2>6. loc = "status" => reg_cmd' = {}
    BY <1>0, <1>4, <1>6, Zenon DEF DriverInv
  <2> QED
    BY <1>0, <1>10, <2>1, <2>2, <2>3, <2>4, <2>5, <2>6, Zenon DEF DriverInv
<1> QED
  BY <1>1, <1>11 DEF DriveInv

(* The register a routine is about to write is one the core has, and none  *)
(* it wrote before.  A routine that hands over a command leaves the        *)
(* configuration alone and does not end with a write.                      *)
LEMMA RunWrites ==
  ASSUME TypeOK, DriverInv, loc = "run", pc <= Len(prog), prog[pc].do = "write"
  PROVE  /\ prog[pc].reg \in Regs
         /\ \A i \in 1 .. pc - 1 :
              prog[i].do = "write" => prog[i].reg # prog[pc].reg
         /\ Handing =>
              /\ prog[pc].reg \in {"NEXT_STEPS", "NEXT_V", "NEXT_A", "NEXT_J"}
              /\ pc + 1 <= Len(prog) /\ prog[pc + 1].do # "or"
<1>0. /\ Len(prog) \in Nat /\ pc \in 1 .. Len(prog) /\ pc \in Nat
      /\ \A i \in 1 .. pc - 1 : i \in 1 .. Len(prog) /\ i # pc
  BY SeqLen, SMTT(30) DEF TypeOK
<1>1. Handing \/ prog = InitProg
  BY DEF DriverInv, Busy
<1>2. CASE Handing
  <2>1. Commanding(prog)
    BY <1>2, Kinds DEF Handing
  <2>2. pc # Len(prog)
    BY <2>1 DEF Commanding
  <2>3. pc + 1 \in 1 .. Len(prog) /\ (pc + 1) - 1 = pc
    BY <1>0, <2>2
  <2>4. prog[pc + 1].do # "or"
    BY <2>1, <2>3, Zenon DEF Commanding
  <2>5. prog[pc].reg \in {"NEXT_STEPS", "NEXT_V", "NEXT_A", "NEXT_J"}
    BY <1>0, <2>1 DEF Commanding
  <2>6. \A i \in 1 .. pc - 1 : prog[i].do = "write" => prog[i].reg # prog[pc].reg
    BY <1>0, <2>1 DEF Commanding
  <2> QED
    BY <2>3, <2>4, <2>5, <2>6 DEF Regs
<1>3. CASE prog = InitProg /\ ~Handing
  <2>1. /\ Len(prog) = 5
        /\ \A i, k \in 1 .. 5 : prog[i].reg = prog[k].reg => i = k
    BY <1>3, InitWrites
  <2>2. \A i \in 1 .. 5 : prog[i].reg \in Regs
    <3>1. /\ prog[1] = WriteOp("PRE_N", PRE_N) /\ prog[2] = WriteOp("PULSE_N", PULSE_N)
          /\ prog[3] = WriteOp("POST_N", POST_N)
          /\ prog[4] = WriteOp("STEP_BIT", H + STEP_BIT)
          /\ prog[5] = WriteOp("NEXT_DT", STEP_FREQ \div ACC_FREQ)
      BY <1>3, InitAccesses
    <3>2. \A i \in 1 .. 5 : i \in {1, 2, 3, 4, 5}
      OBVIOUS
    <3> QED BY <3>1, <3>2, SMTT(30) DEF WriteOp, Regs
  <2> QED
    BY <1>0, <1>3, <2>1, <2>2
<1> QED
  BY <1>1, <1>2, <1>3, Zenon
=============================================================================
