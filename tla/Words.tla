-------------------------------- MODULE Words --------------------------------
(***************************************************************************)
(* The 32-bit words of the motion core, with the width as a parameter.     *)
(* A register holds an unsigned word; the profile generator reads some of  *)
(* them as two's complement numbers.                                       *)
(***************************************************************************)
EXTENDS Integers

CONSTANT H          \* half the number of values of a word: 2^31 in the code

ASSUME HAssumption == H \in Nat \ {0}

M == 2 * H

Word == 0 .. M - 1

SWord == (-H) .. (H - 1)

\* A sum of two's complement numbers, cut to the width of a word.
Wrap(n) == ((n + H) % M) - H

\* The two readings of the same bits.
Signed(w) == IF w < H THEN w ELSE w - M

Unsigned(n) == n % M
=============================================================================
