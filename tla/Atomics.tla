------------------------------- MODULE Atomics -------------------------------
(***************************************************************************)
(* The operations of include/asm/atomic.h, atomic64.h, bitops.h and        *)
(* cmpxchg.h on one word that several harts share: one AMO, or a loop of   *)
(* lr and sc, and what the inline function makes of the old value; against *)
(* what the comments above these functions promise.                        *)
(*                                                                         *)
(* Words are unsigned and have Size values.  Their halves matter only to   *)
(* atomic64_dec_if_positive, which has an sc.w after its lr.d.             *)
(***************************************************************************)
EXTENDS Words

CONSTANTS
    Harts,     \* the harts
    HalfBits,  \* bits of half a word
    Starts,    \* what the word begins with
    Operands,  \* operands, in two's complement
    MaxCalls   \* bound: calls in a behaviour

VARIABLES
    counter,   \* the word
    func,      \* func[h]: the call h is in, [op, i, u], or NoFunc
    insn,      \* insn[h]: "lr", "sc" or "again": where h is in its lr/sc loop
    prev,      \* prev[h]: what lr has loaded
    reserved,  \* the harts whose reservation is valid
    last,      \* the last call: its old and new value and the results it may have
    calls      \* calls so far

atomicVars == <<counter, func, insn, prev, reserved, last, calls>>

WordBits  == 2 * HalfBits
HalfSize  == Pow2[HalfBits]
Size      == Pow2[WordBits]
Wrap(x)   == x % Size
Signed(x) == IF x >= Size \div 2 THEN x - Size ELSE x
Complement(x) == Size - 1 - x
Truth(b)  == IF b THEN 1 ELSE 0
Mask(i)   == Pow2[i % WordBits]   \* BIT_MASK(nr)

\* What the hart computes for amoand, amoor and amoxor.
AmoAnd(a, b) == Combined[WordBits][<<AndBits, a, b>>]
AmoOr(a, b)  == Combined[WordBits][<<OrBits, a, b>>]
AmoXor(a, b) == Combined[WordBits][<<XorBits, a, b>>]

ASSUME AtomicsAssumption ==
    /\ HalfBits \in Nat \ {0} /\ MaxCalls \in Nat
    /\ Starts \subseteq 0..Size - 1 /\ Operands \subseteq 0..Size - 1

NoFunc == [op |-> "none", i |-> 0, u |-> 0]

Adds  == {"add", "add_return", "add_negative"}
Subs  == {"sub", "sub_return", "sub_and_test"}
Incs  == {"inc", "inc_return", "inc_and_test"}
Decs  == {"dec", "dec_return", "dec_and_test"}
BitOps  == {"test_and_set_bit", "test_and_clear_bit", "test_and_change_bit"}
AmoOps  == Adds \cup Subs \cup Incs \cup Decs \cup BitOps \cup {"and", "or", "xor", "xchg"}
LoopOps == {"cmpxchg", "add_unless", "atomic64_add_unless", "dec_if_positive"}

\* The calls, with 0 for an operand that the function has not.
Funcs ==
    LET Two == LoopOps \ {"dec_if_positive"}
        One == (AmoOps \ (Incs \cup Decs))
    IN  [op : Two, i : Operands, u : Operands] \cup [op : One, i : Operands, u : {0}]
          \cup [op : Incs \cup Decs \cup {"dec_if_positive"}, i : {0}, u : {0}]
NoLast == [func |-> NoFunc, old |-> 0, new |-> 0, results |-> {}]

AtomicInit ==
    /\ counter \in Starts
    /\ func = [h \in Harts |-> NoFunc]
    /\ insn = [h \in Harts |-> "lr"]
    /\ prev = [h \in Harts |-> 0]
    /\ reserved = {}
    /\ last = NoLast
    /\ calls = 0

AtomicOff ==
    /\ counter = 0
    /\ func = [h \in Harts |-> NoFunc] /\ insn = [h \in Harts |-> "lr"]
    /\ prev = [h \in Harts |-> 0] /\ reserved = {}
    /\ last = NoLast /\ calls = MaxCalls

-----------------------------------------------------------------------------
\* amoadd, amoand, amoor, amoxor, amoswap.

Negated == Subs \cup Decs

\* The operand that the functions hand to amoadd.
Addend(f) ==
    LET i == IF f.op \in Incs \cup Decs THEN 1 ELSE f.i
    IN  Wrap(IF f.op \in Negated THEN -i ELSE i)

Amo(f, v) ==
    CASE f.op \in Adds \cup Subs \cup Incs \cup Decs -> Wrap(v + Addend(f))
      [] f.op = "and"  -> AmoAnd(v, f.i)
      [] f.op = "or"   -> AmoOr(v, f.i)
      [] f.op = "xor"  -> AmoXor(v, f.i)
      [] f.op = "xchg" -> f.i
      [] f.op = "test_and_set_bit"    -> AmoOr(v, Mask(f.i))
      [] f.op = "test_and_clear_bit"  -> AmoAnd(v, Complement(Mask(f.i)))
      [] f.op = "test_and_change_bit" -> AmoXor(v, Mask(f.i))

\* What the function returns, 0 if nothing.
AmoResult(f, v) ==
    LET sum == Wrap(v + Addend(f)) IN
    CASE f.op \in {"add_return", "sub_return", "inc_return", "dec_return"} -> sum
      [] f.op \in {"sub_and_test", "inc_and_test", "dec_and_test"} -> Truth(sum = 0)
      [] f.op = "add_negative" -> Truth(Signed(sum) < 0)
      [] f.op \in BitOps -> Truth(AmoAnd(v, Mask(f.i)) # 0)
      [] f.op = "xchg" -> v
      [] OTHER -> 0

Completes(h, new, results) ==
    /\ last' = [func |-> func[h], old |-> counter, new |-> new, results |-> results]
    /\ func' = [func EXCEPT ![h] = NoFunc]
    /\ insn' = [insn EXCEPT ![h] = "lr"]

CallFunc(h) ==
    /\ func[h] = NoFunc /\ calls < MaxCalls
    /\ calls' = calls + 1
    /\ \E f \in Funcs : func' = [func EXCEPT ![h] = f]
    /\ last' = NoLast
    /\ UNCHANGED <<counter, insn, prev, reserved>>

ExecuteAmo(h) ==
    /\ func[h].op \in AmoOps
    /\ counter' = Amo(func[h], counter)
    /\ reserved' = {}
    /\ Completes(h, counter', {AmoResult(func[h], counter)})
    /\ UNCHANGED <<prev, calls>>

-----------------------------------------------------------------------------
\* Loops of lr and sc.

\* The loop ends without a store: bne, beq and bltz.
Leaves(f, v) ==
    CASE f.op = "cmpxchg" -> v # f.u
      [] f.op \in {"add_unless", "atomic64_add_unless"} -> v = f.u
      [] f.op = "dec_if_positive" -> Signed(Wrap(v - 1)) < 0

\* Result of the loop: prev, for dec_if_positive after the decrement; and !rc
\* for atomic64_add_unless.
LoopResult(f, v, rc) ==
    CASE f.op \in {"cmpxchg", "add_unless"} -> v
      [] f.op = "atomic64_add_unless" -> Truth(rc = 0)
      [] f.op = "dec_if_positive" -> Wrap(v - 1)

\* The initial value of rc is no input of the asm: until an sc has written it,
\* rc is whatever its register held.
Rc(h) == IF insn[h] = "again" THEN {1} ELSE {0, 1}

LoadReserved(h) ==
    /\ func[h].op \in LoopOps /\ insn[h] \in {"lr", "again"}
    /\ prev' = [prev EXCEPT ![h] = counter]
    /\ IF Leaves(func[h], counter)
       THEN /\ Completes(h, counter, {LoopResult(func[h], counter, rc) : rc \in Rc(h)})
            /\ UNCHANGED reserved
       ELSE /\ insn' = [insn EXCEPT ![h] = "sc"]
            /\ reserved' = reserved \cup {h}
            /\ UNCHANGED <<func, last>>
    /\ UNCHANGED <<counter, calls>>

\* What sc stores; sc.w stores the lower half.
Stores(f, v, now) ==
    CASE f.op = "cmpxchg" -> f.i
      [] f.op \in {"add_unless", "atomic64_add_unless"} -> Wrap(v + f.i)
      [] f.op = "dec_if_positive" ->
            (now \div HalfSize) * HalfSize + (Wrap(v - 1) % HalfSize)

\* Mutant: bnez after sc is missing, so that a failed sc counts as a store.
ScFailureIgnored(h) ==
    /\ insn[h] = "sc"
    /\ Completes(h, counter, {LoopResult(func[h], prev[h], 0)})
    /\ reserved' = reserved \ {h}
    /\ UNCHANGED <<counter, prev, calls>>

StoreConditional(h) ==
    /\ insn[h] = "sc" /\ h \in reserved
    /\ counter' = Stores(func[h], prev[h], counter)
    /\ reserved' = {}
    /\ Completes(h, counter', {LoopResult(func[h], prev[h], 0)})
    /\ UNCHANGED <<prev, calls>>

\* sc may fail with or without a reservation.
ScFails(h) ==
    /\ insn[h] = "sc"
    /\ insn' = [insn EXCEPT ![h] = "again"]
    /\ reserved' = reserved \ {h}
    /\ UNCHANGED <<counter, func, prev, last, calls>>

AtomicNext ==
    \E h \in Harts :
        \/ CallFunc(h)
        \/ ExecuteAmo(h)
        \/ LoadReserved(h)
        \/ StoreConditional(h)
        \/ ScFails(h)

-----------------------------------------------------------------------------
\* What the comments say: the new value and the result for an old value.
Promise(f, old) ==
    LET v == Signed(old)
        i == Signed(f.i)
        bit == (old \div Mask(f.i)) % 2
        P(new, res) == [new |-> Wrap(new), res |-> Wrap(res)]
    IN  CASE f.op \in {"add", "inc"} -> P(IF f.op = "inc" THEN v + 1 ELSE v + i, 0)
          [] f.op \in {"sub", "dec"} -> P(IF f.op = "dec" THEN v - 1 ELSE v - i, 0)
          [] f.op = "add_return"   -> P(v + i, v + i)
          [] f.op = "sub_return"   -> P(v - i, v - i)
          [] f.op = "inc_return"   -> P(v + 1, v + 1)
          [] f.op = "dec_return"   -> P(v - 1, v - 1)
          [] f.op = "sub_and_test" -> P(v - i, Truth(v = i))
          [] f.op = "inc_and_test" -> P(v + 1, Truth(v = -1))
          [] f.op = "dec_and_test" -> P(v - 1, Truth(v = 1))
          [] f.op = "add_negative" -> P(v + i, Truth(Signed(Wrap(v + i)) < 0))
          [] f.op = "test_and_set_bit"    -> P(IF bit = 1 THEN v ELSE v + Mask(f.i), bit)
          [] f.op = "test_and_clear_bit"  -> P(IF bit = 1 THEN v - Mask(f.i) ELSE v, bit)
          [] f.op = "test_and_change_bit" -> P(IF bit = 1 THEN v - Mask(f.i) ELSE v + Mask(f.i), bit)
          [] f.op = "and"  -> P(AmoAnd(old, f.i), 0)
          [] f.op = "or"   -> P(old + f.i - AmoAnd(old, f.i), 0)
          [] f.op = "xor"  -> P(old + f.i - 2 * AmoAnd(old, f.i), 0)
          [] f.op = "xchg" -> P(i, v)
          [] f.op = "cmpxchg"    -> P(IF old = f.u THEN i ELSE v, v)
          [] f.op = "add_unless" -> P(IF old = f.u THEN v ELSE v + i, v)
          [] f.op = "atomic64_add_unless" ->
                P(IF old = f.u THEN v ELSE v + i, Truth(old # f.u))
          [] f.op = "dec_if_positive" -> P(IF v > 0 THEN v - 1 ELSE v, v - 1)

\* Every call takes effect at one instant, as its comment says, whatever other
\* harts do during it.  Two claims are left out, because the code does not meet
\* them (AtomicAsCommented): what atomic64_dec_if_positive leaves in the word,
\* and what atomic64_add_unless returns.
AtomicAsPromised ==
    LET f == last.func
        p == Promise(f, last.old)
    IN  f # NoFunc =>
          /\ f.op # "dec_if_positive" => last.new = p.new
          /\ f.op # "atomic64_add_unless" => last.results = {p.res}

\* The same of every function, "Returns true if the addition occurred and false
\* otherwise" (atomic64.h:215) and "decrement by 1 if old value positive"
\* (atomic64.h:187) included.
AtomicAsCommented ==
    LET f == last.func
        p == Promise(f, last.old)
    IN  f # NoFunc => last.new = p.new /\ last.results = {p.res}
=============================================================================
