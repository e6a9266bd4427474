----------------------------- MODULE MCLibrary -----------------------------
(***************************************************************************)
(* Every topic of Library at a small size: registers of a few bytes, words *)
(* of 256 values where only their wrapping matters.                        *)
(***************************************************************************)
EXTENDS Library, Bitwise

\* The bitwise operations are those of the library.
ASSUME BitwiseRight ==
    \A a, b \in 0..Size - 1 :
        AmoAnd(a, b) = a & b /\ AmoOr(a, b) = a | b /\ AmoXor(a, b) = a ^^ b
ASSUME Pow2Right == \A n \in 0..30 : Pow2[n] = 2 ^ n

\* A device, a block of the keywords or not, their ends with the semicolon
\* and without it, and items with a number, a hexadecimal one and a negative
\* one, one over 2^64 in its last digit and one far over.
MCFragments ==
    {<<"interface", "quoted", ";">>, <<"k", "{">>, <<"k", "{", "interface", "quoted", ";">>,
     <<"mem", "{">>, <<"}", ";">>, <<"}">>,
     <<"mem", "n", ";">>, <<"k", "w", ";", "n", "m", ";">>, <<"k", "x">>}

MCNumerals == {"n", "m", "w", "x"}
MCSign  == [w \in MCNumerals |-> IF w = "m" THEN -1 ELSE 1]
MCRadix == [w \in MCNumerals |-> IF w = "m" THEN 16 ELSE 10]
MCDigits == [n |-> <<7>>, m |-> <<1, 2>>, w |-> <<2, 5, 9>>, x |-> <<3, 0, 0>>]
=============================================================================
