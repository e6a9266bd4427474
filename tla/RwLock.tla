------------------------------- MODULE RwLock -------------------------------
(***************************************************************************)
(* The reader/writer spin lock of include/asm/spinlock.h: a word that is   *)
(* -1 while a writer holds it and otherwise counts its readers, taken by   *)
(* load-reserved / store-conditional loops and given back by one amo.      *)
(*                                                                         *)
(* Every hart runs a task context <<h, 0>> and, on top of it, at most one  *)
(* interrupt context <<h, 1>> (interrupts stay off in a handler).  Both    *)
(* share the hart's single reservation.  As the kernel's users do, a       *)
(* handler only ever reads or tries, and a task that writes has interrupts *)
(* off; a task that reads may be interrupted anywhere, between its lr and  *)
(* its sc included.                                                        *)
(***************************************************************************)
EXTENDS Integers, FiniteSets

CONSTANT Cpus   \* the harts

ASSUME HartsAssumption == IsFiniteSet(Cpus)

VARIABLES
    lock,     \* arch_rwlock_t.lock
    res,      \* res[h]: hart h holds a reservation on the lock word
    tmp,      \* tmp[c]: at the sc, the register it will store (else dead: 0)
    at,       \* at[c]: where c is: "idle", "lr", "sc", "read", "write"
    op,       \* op[c]: the lock operation c runs, "none" outside one
    irq       \* irq[h]: hart h is in an interrupt handler

lockVars == <<lock, res, tmp, at, op, irq>>

Contexts == Cpus \X {0, 1}
Hart(c)  == c[1]

TaskOps    == {"read_lock", "write_lock", "read_trylock", "write_trylock"}
HandlerOps == TaskOps \ {"write_lock"}
OpsOf(c)   == IF c[2] = 1 THEN HandlerOps ELSE TaskOps

ReadOps == {"read_lock", "read_trylock"}
TryOps  == {"read_trylock", "write_trylock"}

\* The context the hart of c executes is c itself.
Running(c) == irq[Hart(c)] = (c[2] = 1)

LockInit ==
    /\ lock = 0
    /\ res = [h \in Cpus |-> FALSE]
    /\ tmp = [c \in Contexts |-> 0]
    /\ at = [c \in Contexts |-> "idle"]
    /\ op = [c \in Contexts |-> "none"]
    /\ irq = [h \in Cpus |-> FALSE]

-----------------------------------------------------------------------------
\* A store to the word by hart h ends the reservations of all other harts.
BreakReservations(h) == res' = [g \in Cpus |-> g = h /\ res[g]]

LockCall(c, o) ==
    /\ Running(c) /\ at[c] = "idle" /\ o \in OpsOf(c)
    /\ op' = [op EXCEPT ![c] = o]
    /\ at' = [at EXCEPT ![c] = "lr"]
    /\ UNCHANGED <<lock, res, tmp, irq>>

\* Mutant: the writer branches with bltz too.
MustWaitBltz(o, v) == v < 0

\* Mutant: the reader's branch is inverted.
MustWaitBgez(o, v) == IF o \in ReadOps THEN v >= 0 ELSE v # 0

\* The branch after lr: bltz for a reader, bnez for a writer.
MustWait(o, v) == IF o \in ReadOps THEN v < 0 ELSE v # 0

\* What the sc stores: addi tmp, tmp, 1 for a reader, li tmp, -1 for a writer.
NewValue(o, v) == IF o \in ReadOps THEN v + 1 ELSE -1

\* lr and the branch on the loaded value: a lock spins, a trylock gives up
\* (busy is the loaded, non-zero word) and leaves its reservation behind.
LockLoadReserved(c) ==
    /\ Running(c) /\ at[c] = "lr"
    /\ res' = [res EXCEPT ![Hart(c)] = TRUE]
    /\ \/ /\ ~MustWait(op[c], lock)
          /\ at' = [at EXCEPT ![c] = "sc"]
          /\ tmp' = [tmp EXCEPT ![c] = NewValue(op[c], lock)]
          /\ UNCHANGED op
       \/ /\ MustWait(op[c], lock) /\ op[c] \in TryOps
          /\ at' = [at EXCEPT ![c] = "idle"]
          /\ op' = [op EXCEPT ![c] = "none"]
          /\ UNCHANGED tmp
       \/ /\ MustWait(op[c], lock) /\ op[c] \notin TryOps
          /\ UNCHANGED <<at, op, tmp>>
    /\ UNCHANGED <<lock, irq>>

LockScSucceeds(c) ==
    /\ Running(c) /\ at[c] = "sc" /\ res[Hart(c)]
    /\ lock' = tmp[c]
    /\ res' = [h \in Cpus |-> FALSE]
    /\ at' = [at EXCEPT ![c] = IF op[c] \in ReadOps THEN "read" ELSE "write"]
    /\ tmp' = [tmp EXCEPT ![c] = 0]
    /\ op' = [op EXCEPT ![c] = "none"]
    /\ UNCHANGED irq

\* Mutant: the bnez after the sc is missing.
LockScFailureIgnored(c) ==
    /\ Running(c) /\ at[c] = "sc" /\ ~res[Hart(c)]
    /\ at' = [at EXCEPT ![c] = IF op[c] \in ReadOps THEN "read" ELSE "write"]
    /\ tmp' = [tmp EXCEPT ![c] = 0]
    /\ op' = [op EXCEPT ![c] = "none"]
    /\ UNCHANGED <<lock, res, irq>>

\* Without a reservation the sc writes nothing and the loop starts again.
LockScFails(c) ==
    /\ Running(c) /\ at[c] = "sc" /\ ~res[Hart(c)]
    /\ at' = [at EXCEPT ![c] = "lr"]
    /\ tmp' = [tmp EXCEPT ![c] = 0]
    /\ UNCHANGED <<lock, res, op, irq>>

\* amoadd.w.rl lock, -1
ReadUnlock(c) ==
    /\ Running(c) /\ at[c] = "read"
    /\ lock' = lock - 1
    /\ BreakReservations(Hart(c))
    /\ at' = [at EXCEPT ![c] = "idle"]
    /\ UNCHANGED <<tmp, op, irq>>

\* amoswap.w.rl lock, 0
WriteUnlock(c) ==
    /\ Running(c) /\ at[c] = "write"
    /\ lock' = 0
    /\ BreakReservations(Hart(c))
    /\ at' = [at EXCEPT ![c] = "idle"]
    /\ UNCHANGED <<tmp, op, irq>>

-----------------------------------------------------------------------------
\* The hardware around the loops.

\* A task that takes or holds the lock for writing has interrupts off.
IrqsOn(h) == at[<<h, 0>>] # "write" /\ op[<<h, 0>>] \in ReadOps \cup {"none"}

Interrupt(h) ==
    /\ ~irq[h] /\ IrqsOn(h)
    /\ irq' = [irq EXCEPT ![h] = TRUE]
    /\ UNCHANGED <<lock, res, tmp, at, op>>

\* Mutant: the handler's reservation survives the return from the trap.
InterruptReturnKeepsReservation(h) ==
    /\ irq[h] /\ at[<<h, 1>>] = "idle"
    /\ irq' = [irq EXCEPT ![h] = FALSE]
    /\ UNCHANGED <<lock, res, tmp, at, op>>

\* sret ends the hart's reservation: the trap path has no sc of its own, and
\* the interrupted loop must not pair its sc with an lr of the handler.
InterruptReturn(h) ==
    /\ irq[h] /\ at[<<h, 1>>] = "idle"
    /\ irq' = [irq EXCEPT ![h] = FALSE]
    /\ res' = [res EXCEPT ![h] = FALSE]
    /\ UNCHANGED <<lock, tmp, at, op>>

\* A reservation may be lost at any time (cache eviction, another store).
LoseReservation(h) ==
    /\ res[h]
    /\ res' = [res EXCEPT ![h] = FALSE]
    /\ UNCHANGED <<lock, tmp, at, op, irq>>

-----------------------------------------------------------------------------
LockStep(c) == \/ LockLoadReserved(c) \/ LockScSucceeds(c) \/ LockScFails(c)
           \/ ReadUnlock(c) \/ WriteUnlock(c)

LockNext ==
    \/ \E c \in Contexts : LockStep(c) \/ \E o \in TaskOps : LockCall(c, o)
    \/ \E h \in Cpus : Interrupt(h) \/ InterruptReturn(h) \/ LoseReservation(h)

\* A handler executes and returns, interrupts are not so frequent that the
\* task below them never executes an instruction, and the hart guarantees
\* that lr/sc loops of this form do not all fail for ever.  Nothing makes an
\* operation start or an interrupt arrive.
LockFairness ==
    /\ \A c \in Contexts : SF_lockVars(LockStep(c))
    /\ \A h \in Cpus : WF_lockVars(InterruptReturn(h))
    /\ SF_lockVars(\E c \in Contexts : LockScSucceeds(c))

LockSpec == LockInit /\ [][LockNext]_lockVars

-----------------------------------------------------------------------------
LockTypeOK ==
    /\ lock \in Int /\ lock >= -1
    /\ res \in [Cpus -> BOOLEAN]
    /\ tmp \in [Contexts -> Int]
    /\ at \in [Contexts -> {"idle", "lr", "sc", "read", "write"}]
    /\ op \in [Contexts -> TaskOps \cup {"none"}]
    /\ irq \in [Cpus -> BOOLEAN]

Readers == {c \in Contexts : at[c] = "read"}
Writers == {c \in Contexts : at[c] = "write"}

\* The lock word never disagrees with who holds the lock: -1 is exactly one
\* writer and no reader, a count v >= 0 is exactly v readers and no writer
\* (the encoding arch_read_lock and arch_write_lock branch on).
WordMatchesHolders ==
    \/ /\ lock = -1 /\ Readers = {}
       /\ \E c \in Contexts : Writers = {c}
    \/ lock = Cardinality(Readers) /\ Writers = {}

\* The sc of a running loop can only succeed when what it stores was computed
\* from the word as it is now: no update of another hart, and none of a
\* handler that ran between the lr and the sc, is ever overwritten.
NoStaleStore ==
    \A c \in Contexts :
        Running(c) /\ at[c] = "sc" /\ res[Hart(c)] =>
            ~MustWait(op[c], lock) /\ tmp[c] = NewValue(op[c], lock)

\* The loops implement the abstract lock: an operation takes effect in its
\* successful sc or its amo, every other step is invisible.
Abstract == INSTANCE RwExclusion WITH readers <- Readers, writers <- Writers
Implements == Abstract!Spec

\* A lock operation never makes everybody wait: while some context waits, one
\* gets (or has) the lock, or all have given up.  No single context is
\* promised to succeed ("no fairness guarantees").
Waiting == \E c \in Contexts : at[c] \in {"lr", "sc"}
SomebodyGetsIt == Waiting ~> (~Waiting \/ Readers \cup Writers # {})

=============================================================================
