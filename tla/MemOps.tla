------------------------------- MODULE MemOps -------------------------------
(***************************************************************************)
(* lib/memset.S and lib/memcpy.S: bytes up to the first aligned address,   *)
(* then whole words, then the bytes that are left.  The word loop of       *)
(* memset stores UNROLL words in a round and is entered in its middle; the *)
(* one of memcpy copies blocks of BLOCK words.  The byte at a source       *)
(* address is that address, as in UserCopy.                                *)
(***************************************************************************)
EXTENDS Integers

CONSTANTS
    WordSize,   \* SZREG
    UNROLL,     \* 32: words of a round of memset
    BLOCK,      \* 16: words of a round of memcpy
    SetMin,     \* 16: fewer bytes are set one by one
    CopyMin,    \* 128: fewer bytes are copied one by one
    Places,     \* addresses a call may be given, natural numbers
    Counts      \* lengths it may be given, natural numbers

\* An aligned word is left after the first bytes of memset, and memcpy is long
\* enough to have them.
ASSUME MemOpsAssumption ==
    /\ WordSize \in Nat \ {0} /\ UNROLL \in Nat \ {0} /\ BLOCK \in Nat \ {0}
    /\ SetMin \in Nat /\ SetMin >= 2 * WordSize - 1
    /\ CopyMin \in Nat /\ CopyMin >= WordSize - 1
    /\ Places \subseteq Nat /\ Counts \subseteq Nat

VARIABLES
    memfn,   \* "memset" or "memcpy"
    line,    \* the label the code is at
    arg,     \* the arguments [to, from, n]
    to,      \* t0 of memset, t6 of memcpy
    src,     \* a1 of memcpy
    count,   \* a2
    until,   \* a3; the end of a byte loop, as a destination address
    bytes    \* bytes[a]: what has been stored at a, or Unset

memVars == <<memfn, line, arg, to, src, count, until, bytes>>

Unset == -1
Fill  == -2
Area  == UNION {a..a + n - 1 : a \in Places, n \in Counts}

MemInit ==
    /\ memfn \in {"memset", "memcpy"}
    /\ arg \in [to : Places, from : Places, n : Counts]
    /\ memfn = "memset" => arg.from = arg.to
    /\ line = "entry"
    /\ to = arg.to /\ src = arg.from /\ count = arg.n /\ until = 0
    /\ bytes = [a \in Area |-> Unset]

MemOff ==
    /\ memfn = "none" /\ line = "off" /\ arg = [to |-> 0, from |-> 0, n |-> 0]
    /\ to = 0 /\ src = 0 /\ count = 0 /\ until = 0
    /\ bytes = [a \in Area |-> Unset]

Aligned(a)  == a % WordSize = 0
NextWordAt(a) == ((a + WordSize - 1) \div WordSize) * WordSize

-----------------------------------------------------------------------------
\* Small counts and, for memcpy, different low-order bits go to label 4.
Direct ==
    \/ memfn = "memset" /\ count < SetMin
    \/ memfn = "memcpy" /\ (count < CopyMin \/ to % WordSize # src % WordSize)

Entry ==
    /\ line = "entry"
    /\ IF Direct
       THEN line' = "4" /\ UNCHANGED <<until, count>>
       ELSE IF Aligned(to)
       THEN line' = "2" /\ UNCHANGED <<until, count>>
       ELSE /\ line' = "1"
            /\ until' = NextWordAt(to)
            /\ count' = count - (NextWordAt(to) - to)
    /\ UNCHANGED <<memfn, arg, to, src, bytes>>

\* n bytes at address a, from the source or from the register.
Put(a, n) ==
    bytes' = [b \in Area \cup a..a + n - 1 |->
        IF b \in a..a + n - 1
        THEN IF memfn = "memset" THEN Fill ELSE src + (b - a)
        ELSE bytes[b]]

\* Labels 1 and 5: one byte.
Bytes(here, next) ==
    /\ line = here
    /\ Put(to, 1)
    /\ to' = to + 1 /\ src' = src + 1
    /\ line' = IF to' < until THEN here ELSE next
    /\ UNCHANGED <<memfn, arg, count, until>>

\* Mutant: the rest of the division by a round is itself the offset.
OffsetOfRest(a4) == a4 % (UNROLL * WordSize)

\* How far into its round memset starts.
InitialOffset(a4) ==
    LET rest == a4 % (UNROLL * WordSize)
    IN  IF rest = 0 THEN 0 ELSE UNROLL * WordSize - rest

\* Label 2 of memset: the start address goes back by the words skipped.
SetWords ==
    /\ line = "2" /\ memfn = "memset"
    /\ LET a4 == (count \div WordSize) * WordSize IN
       /\ until' = to + a4
       /\ to' = to - InitialOffset(a4)
       /\ src' = InitialOffset(a4) \div WordSize   \* the store jumped to
    /\ line' = "3"
    /\ UNCHANGED <<memfn, arg, count, bytes>>

\* Label 3 of memset: the stores of a round, the first from the one jumped to.
SetRound ==
    /\ line = "3" /\ memfn = "memset"
    /\ Put(to + src * WordSize, (UNROLL - src) * WordSize)
    /\ to' = to + UNROLL * WordSize
    /\ src' = 0
    /\ IF to' < until THEN UNCHANGED <<line, count>>
       ELSE line' = "4" /\ count' = count % WordSize
    /\ UNCHANGED <<memfn, arg, until>>

CopyWords ==
    /\ line = "2" /\ memfn = "memcpy"
    /\ LET a4 == (count \div (BLOCK * WordSize)) * BLOCK * WordSize IN
       IF a4 = 0 THEN line' = "4" /\ UNCHANGED until
       ELSE line' = "3" /\ until' = src + a4
    /\ UNCHANGED <<memfn, arg, to, src, count, bytes>>

CopyBlock ==
    /\ line = "3" /\ memfn = "memcpy"
    /\ Put(to, BLOCK * WordSize)
    /\ to' = to + BLOCK * WordSize /\ src' = src + BLOCK * WordSize
    /\ IF src' < until THEN UNCHANGED <<line, count>>
       ELSE line' = "4" /\ count' = count % (BLOCK * WordSize)
    /\ UNCHANGED <<memfn, arg, until>>

\* Label 4: the bytes that are left.
Rest ==
    /\ line = "4"
    /\ IF count = 0 THEN line' = "ret" /\ UNCHANGED until
       ELSE line' = "5" /\ until' = to + count
    /\ UNCHANGED <<memfn, arg, to, src, count, bytes>>

MemNext ==
    \/ Entry
    \/ Bytes("1", "2")
    \/ SetWords
    \/ SetRound
    \/ CopyWords
    \/ CopyBlock
    \/ Rest
    \/ Bytes("5", "ret")

-----------------------------------------------------------------------------
\* However the words and bytes are split up, memset and memcpy store to every
\* byte of the range, the right value, and to no other byte at any time.
MemExact ==
    LET Written == {a \in DOMAIN bytes : bytes[a] # Unset}
        Whole   == arg.to..arg.to + arg.n - 1
    IN  /\ Written \subseteq Whole
        /\ \A a \in Written :
              bytes[a] = IF memfn = "memset" THEN Fill ELSE arg.from + (a - arg.to)
        /\ line = "ret" => Written = Whole
=============================================================================
