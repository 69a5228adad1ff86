-------------------------------- MODULE Bits --------------------------------
(***************************************************************************)
(* Integers as sets of bits: what C's &, | and ^ do to words of WIDTH      *)
(* bits, and what the bits of a negative number are.                       *)
(***************************************************************************)
EXTENDS Integers

CONSTANT WIDTH   \* bits of word_t (32)

Pow2[k \in Nat] == IF k = 0 THEN 1 ELSE 2 * Pow2[k - 1]

\* Bit k of v's two's complement, the set bits of v, the number with bits B.
Bit(v, k) == (v \div Pow2[k]) % 2
Bits(v) == {k \in 0..(WIDTH - 1) : Bit(v, k) = 1}
FromBits(B) ==
  LET sum[k \in Nat] ==
        IF k = 0 THEN 0
        ELSE sum[k - 1] + (IF k - 1 \in B THEN Pow2[k - 1] ELSE 0)
  IN  sum[WIDTH]
=============================================================================
