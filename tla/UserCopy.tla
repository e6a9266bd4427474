------------------------------ MODULE UserCopy ------------------------------
(***************************************************************************)
(* Copies between user and kernel memory: __copy_user and __clear_user of  *)
(* lib/uaccess.S with the fixup they share, one step for every access, and *)
(* get_user, put_user and the wrappers of include/asm/uaccess.h around     *)
(* them.  Any access may fault.  The byte at a source address is that      *)
(* address: a destination byte tells where it came from.                   *)
(***************************************************************************)
EXTENDS Integers

CONSTANTS
    SZREG,      \* bytes of a register
    Addresses,  \* addresses a call may be given
    Lengths,    \* lengths it may be given, natural numbers
    AddrLimit,  \* get_fs()
    XlenSize    \* 2^XLEN: addresses are taken modulo it

ASSUME UserCopyAssumption ==
    /\ SZREG \in Nat \ {0} /\ XlenSize \in Nat \ {0} /\ AddrLimit \in 0..XlenSize - 1
    /\ Addresses \subseteq 0..XlenSize - 1 /\ Lengths \subseteq Nat

VARIABLES
    call,    \* the call: [fn, to, from, n]
    label,   \* where it is in the code
    a0, a1,  \* pointers to the next byte of destination and source
    dst,     \* dst[a]: what the call has stored at destination address a
    ret,     \* what it returned
    access   \* SR_PUM is clear: supervisor code may touch user memory

copyVars == <<call, label, a0, a1, dst, ret, access>>

Blocks  == {"copy_from_user", "copy_to_user", "clear_user"}
Singles == {"get_user", "put_user"}
Fault == -14   \* -EFAULT
Zero  == -1    \* a byte of zeroes, and one not stored to: no addresses
Old   == -2
NoCall == [fn |-> "none", to |-> 0, from |-> 0, n |-> 0]

Reach == UNION {a..a + n - 1 : a \in Addresses, n \in Lengths}

CopyInit ==
    /\ call \in [fn : Blocks \cup Singles, to : Addresses, from : Addresses, n : Lengths]
    /\ call.fn = "clear_user" => call.from = call.to
    /\ call.fn \in Singles =>
          call.n \in {SZREG, 2 * SZREG} /\ call.to % SZREG = 0 /\ call.from % SZREG = 0
    /\ label = "call"
    /\ a0 = call.to /\ a1 = call.from
    /\ dst = [a \in Reach |-> Old]
    /\ ret = 0
    /\ access = FALSE

CopyOff ==
    /\ call = NoCall /\ label = "off" /\ a0 = 0 /\ a1 = 0
    /\ dst = [a \in Reach |-> Old] /\ ret = 0 /\ access = FALSE

-----------------------------------------------------------------------------
Clears == call.fn = "clear_user"

\* The range of the call in user memory.
UserAddr == IF call.fn \in {"copy_from_user", "get_user"} THEN call.from ELSE call.to

\* The words of a single value: two for one of 64 bits in a 32-bit build.
Units == {call.to, call.to + call.n - SZREG}

\* The value that belongs at destination address a.
Right(a) == IF Clears THEN Zero ELSE call.from + (a - call.to)

access_ok(addr, size) == size <= AddrLimit /\ addr <= AddrLimit - size

\* a3, firstWord (t0) and lastWord (t1): the end of the region the loops walk
\* along, which is the destination of a clear and the source of a copy, and the
\* aligned addresses next to its start and end.
Up(a)   == ((a + SZREG - 1) \div SZREG) * SZREG
Down(a) == (a \div SZREG) * SZREG

Start == IF Clears THEN call.to ELSE call.from
a3 == Start + call.n
firstWord == Up(Start)
lastWord == Down(a3)

Returns(r) == label' = "returned" /\ ret' = r /\ access' = FALSE
StoreUnits(value) == dst' = [a \in Reach |-> IF a \in Units THEN value ELSE dst[a]]

Remainder(p) == IF p < a3 THEN "tail" ELSE "exit"

\* Words only if the low-order bits match and there is an aligned word.
FirstLabel ==
    IF \/ ~Clears /\ call.to % SZREG # call.from % SZREG
       \/ firstWord >= lastWord
    THEN Remainder(Start)
    ELSE IF Start < firstWord THEN "head" ELSE "word"

\* The wrappers: nothing is done to a range that is not the user's.
Enter ==
    /\ label = "call"
    /\ \/ /\ access_ok(UserAddr, call.n)
          /\ label' = IF call.fn \in Singles THEN "single" ELSE FirstLabel
          /\ access' = TRUE
          /\ UNCHANGED <<ret, dst>>
       \/ /\ ~access_ok(UserAddr, call.n)
          /\ Returns(IF call.fn \in Singles THEN Fault ELSE call.n)
          /\ IF call.fn = "get_user" THEN StoreUnits(Zero) ELSE UNCHANGED dst
    /\ UNCHANGED <<call, a0, a1>>

\* size bytes go from a1 (or from the zero register) to a0.
Move(size) ==
    /\ dst' = [a \in Reach |->
          IF a \in a0..a0 + size - 1
          THEN IF Clears THEN Zero ELSE a1 + (a - a0)
          ELSE dst[a]]
    /\ a0' = a0 + size
    /\ a1' = a1 + size
    /\ UNCHANGED <<call, ret, access>>

Cursor == IF Clears THEN a0' ELSE a1'

HeadBytes ==
    /\ label = "head" /\ Move(1)
    /\ label' = IF Cursor < firstWord THEN "head" ELSE "word"

Words ==
    /\ label = "word" /\ Move(SZREG)
    /\ label' = IF Cursor < lastWord THEN "word" ELSE Remainder(Cursor)

TailBytes ==
    /\ label = "tail" /\ Move(1)
    /\ label' = Remainder(Cursor)

Exit ==
    /\ label = "exit"
    /\ Returns(0)
    /\ UNCHANGED <<call, a0, a1, dst>>

\* Mutant: user memory stays accessible after a fault.
FixupKeepsAccess ==
    /\ label \in {"head", "word", "tail"}
    /\ label' = "returned"
    /\ ret' = (a3 - a0) % XlenSize
    /\ UNCHANGED <<call, a0, a1, dst, access>>

\* Any load or store of the loops may fault; a0 is left as it is.
Fixup ==
    /\ label \in {"head", "word", "tail"}
    /\ Returns((a3 - a0) % XlenSize)
    /\ UNCHANGED <<call, a0, a1, dst>>

\* __get_user_asm and __get_user_8: the fixup clears all of the value.
GetUser ==
    /\ label = "single" /\ call.fn = "get_user"
    /\ \/ /\ Returns(0)
          /\ dst' = [a \in Reach |-> IF a \in Units THEN Right(a) ELSE dst[a]]
       \/ /\ Returns(Fault)
          /\ StoreUnits(Zero)
    /\ UNCHANGED <<call, a0, a1>>

\* __put_user_asm, or the first store of __put_user_8.
PutUser ==
    /\ label = "single" /\ call.fn = "put_user"
    /\ \E faults \in BOOLEAN :
          /\ dst' = IF faults THEN dst ELSE [dst EXCEPT ![call.to] = call.from]
          /\ IF call.n = SZREG THEN Returns(IF faults THEN Fault ELSE 0)
             ELSE /\ label' = IF faults THEN "put_fixup" ELSE "second"
                  /\ UNCHANGED <<ret, access>>
    /\ UNCHANGED <<call, a0, a1>>

PutSecond ==
    /\ label = "second"
    /\ \/ /\ Returns(ret)
          /\ dst' = [dst EXCEPT ![call.to + SZREG] = call.from + SZREG]
       \/ label' = "put_fixup" /\ UNCHANGED <<ret, dst, access>>
    /\ UNCHANGED <<call, a0, a1>>

\* The fixup of either store sets the error and jumps to the second store.
PutFixup ==
    /\ label = "put_fixup"
    /\ ret' = Fault /\ label' = "second"
    /\ UNCHANGED <<call, a0, a1, dst, access>>

CopyNext ==
    \/ Enter
    \/ HeadBytes
    \/ Words
    \/ TailBytes
    \/ Exit
    \/ Fixup
    \/ GetUser
    \/ PutUser
    \/ PutSecond
    \/ PutFixup

-----------------------------------------------------------------------------
Stored  == {a \in Reach : dst[a] # Old}
Prefix(k) == call.to..call.to + k - 1

\* The source and the destination leave a gap between them, and neither
\* reaches the last address.
Apart ==
    \/ call.to + call.n < call.from /\ call.from + call.n < XlenSize
    \/ call.from + call.n < call.to /\ call.to + call.n < XlenSize

\* A block copy stores the right bytes, in order from the first, and none
\* outside its range.  One that is refused returns its length, one that has
\* stored everything zero, and a clear that has met a fault the number of bytes
\* it has not cleared; after a fault in a copy of ranges that are apart the
\* result is not zero (__copy_user takes it from the end of the source and the
\* pointer into the destination, so more is not claimed).  A single value is
\* read whole or as zero, and written whole if no error is returned; if one is,
\* half of a 64-bit value may have been written by a 32-bit build.  User memory
\* is within reach only inside a call that was checked.
CopiesExact ==
    LET block == call.fn \in Blocks
        k     == a0 - call.to
        left  == call.n - k
    IN  /\ block =>
              /\ Stored = Prefix(k) /\ left >= 0
              /\ \A a \in Stored : dst[a] = Right(a)
        /\ block /\ label = "returned" =>
              /\ Clears => ret = left
              /\ left = 0 => ret = 0
              /\ left > 0 /\ Apart => ret # 0
              /\ ~access_ok(UserAddr, call.n) => ret = call.n
        /\ label = "returned" /\ call.fn = "get_user" =>
              \A a \in Units : dst[a] = IF ret = 0 THEN Right(a) ELSE Zero
        /\ label = "returned" /\ call.fn = "put_user" =>
              /\ ret = 0 => \A a \in Units : dst[a] = Right(a)
              /\ call.n = SZREG /\ ret = Fault => Stored = {}
        /\ ~block => Stored \subseteq Units
        /\ access => label # "returned" /\ access_ok(UserAddr, call.n)

\* put_user as its comment has it: "Returns zero on success, or -EFAULT on
\* error" (uaccess.h:395).
PutUserReturns ==
    (label = "single" /\ call.fn = "put_user") ~> (label = "returned")
=============================================================================
