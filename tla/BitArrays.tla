----------------------------- MODULE BitArrays -----------------------------
(* Arrays of bits as the sets of the positions that are set, and the       *)
(* numbers bits stand for (math/bits, common/bitutil/select.go).           *)
EXTENDS Integers, FiniteSets

BitsBelow(n, w) == {b \in 0..w - 1 : (n \div 2^b) % 2 = 1}

RECURSIVE Number(_)
Number(bits) == IF bits = {} THEN 0
                ELSE LET b == CHOOSE x \in bits : TRUE IN 2^b + Number(bits \ {b})

LeadingBit(n) == IF n = 0 THEN 0 ELSE CHOOSE b \in 0..n : 2^b <= n /\ n < 2^(b + 1)

(* The d-th bit that is set from position from on.                         *)
Select(bits, from, d) ==
    CHOOSE b \in bits : b >= from /\ Cardinality({x \in bits : from <= x /\ x < b}) = d

(* The bits of the word that starts at position at, shifted down.          *)
Word(bits, at, width) == {b - at : b \in {x \in bits : at <= x /\ x < at + width}}
=============================================================================
