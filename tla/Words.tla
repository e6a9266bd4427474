-------------------------------- MODULE Words --------------------------------
(***************************************************************************)
(* Words of so many bits as natural numbers: powers of 2, and the bitwise  *)
(* operations bit by bit.  They are recursive functions, about which can   *)
(* be proved what they compute for words of any width.                     *)
(***************************************************************************)
EXTENDS Integers

Pow2[n \in Nat] == IF n = 0 THEN 1 ELSE 2 * Pow2[n - 1]

\* What an operation makes of two bits.
AndBits == [xy \in {0, 1} \X {0, 1} |-> xy[1] * xy[2]]
OrBits  == [xy \in {0, 1} \X {0, 1} |-> IF xy = <<0, 0>> THEN 0 ELSE 1]
XorBits == [xy \in {0, 1} \X {0, 1} |-> IF xy[1] = xy[2] THEN 0 ELSE 1]

\* Combined[n][<<table, a, b>>]: the lower n bits of a and b, combined by table.
BitTables == [{0, 1} \X {0, 1} -> {0, 1}]
Combined[n \in Nat] ==
    [w \in BitTables \X Nat \X Nat |->
        IF n = 0 THEN 0
        ELSE 2 * Combined[n - 1][<<w[1], w[2] \div 2, w[3] \div 2>>]
               + w[1][<<w[2] % 2, w[3] % 2>>]]
=============================================================================
