------------------------------- MODULE FState -------------------------------
(***************************************************************************)
(* The floating-point state of include/asm/switch_to.h: who owns the FP    *)
(* registers of a hart, over context switches, signal frames               *)
(* (kernel/signal.c), fork and exec (kernel/process.c).                    *)
(*                                                                         *)
(* A register file, thread.fstate or sc_fpregs is a pair of its two        *)
(* halves, as a copy to or from user memory may sleep half way.  fs[t] and *)
(* sd[t] are the FS field and the SD bit of the sstatus in t's pt_regs; in *)
(* user mode fs[t] is the field of the register itself, and SD follows it  *)
(* at the next trap.  The kernel runs with FS off and leaves the registers *)
(* alone (entry.S:59-66).                                                  *)
(***************************************************************************)
EXTENDS Naturals, Sequences, SequencesExt

CONSTANTS
    Harts,
    Threads,    \* tasks that exist or may be forked
    First,      \* the kernel thread that execs the first program
    Swapper,    \* what a hart runs when it runs none of Threads
    Values,     \* what the registers can hold
    Reset,      \* the reset value, one of them
    Unset,      \* ghost: the program has been promised nothing
    MaxFrames   \* bound: signal frames on one stack

ASSUME FStateAssumption ==
    /\ First \in Threads /\ Swapper \notin Threads
    /\ Reset \in Values /\ Unset \notin Values
    /\ MaxFrames \in Nat

VARIABLES
    cur,      \* cur[h]: the current task of hart h
    reg,      \* reg[h]: the FP registers of hart h
    fstate,   \* fstate[t]: thread.fstate
    fs,       \* fs[t]: sstatus.FS of the user context
    sd,       \* sd[t]: sstatus.SD of the pt_regs
    where,    \* where[t]: "user", or where t is in the kernel
    child,    \* child[t]: the task t is forking
    sigframes, \* sigframes[t]: the signal frames on t's user stack
    mine,     \* ghost: what t's program last computed or was given
    torn      \* ghost: a switch saved registers into a half restored fstate

\* SR_FS >> 13
Off     == 0
Initial == 1
Clean   == 2
Dirty   == 3

ctx    == <<fs, sd>>
fpVars == <<cur, reg, fstate, fs, sd, where, child, sigframes, mine, torn>>

File(v) == <<v, v>>
Files   == Values \X Values
Promise == Values \cup {Unset}

KernelModes == {"kernel", "forking", "flushed", "delivering", "restoring"}

\* At boot the registers hold anything; First is about to exec.
FpInit ==
    /\ cur = [h \in Harts |-> Swapper]
    /\ reg \in [Harts -> {File(v) : v \in Values}]
    /\ fstate = [t \in Threads |-> File(Reset)]
    /\ fs = [t \in Threads |-> Off]
    /\ sd = [t \in Threads |-> FALSE]
    /\ where = [t \in Threads |-> IF t = First THEN "kernel" ELSE "none"]
    /\ child = [t \in Threads |-> t]
    /\ sigframes = [t \in Threads |-> <<>>]
    /\ mine = [t \in Threads |-> File(Unset)]
    /\ torn = [t \in Threads |-> FALSE]

At(h, m) == cur[h] \in Threads /\ where[cur[h]] = m
GoTo(t, m) == where' = [where EXCEPT ![t] = m]

-----------------------------------------------------------------------------
\* __fstate_clean ors SR_FS_CLEAN into the field and masks nothing: initial
\* becomes dirty and dirty stays dirty.
Cleaned(f) == IF f \in {Clean, Dirty} THEN f ELSE f + Clean

\* fstate_save stores the registers only when FS is dirty.
Saves(t) == fs[t] = Dirty

\* fstate_restore loads them unless FS is off.
Restores(t) == fs[t] # Off

\* The program computes; the hardware sets FS to dirty.
Compute(h, v) ==
    /\ At(h, "user")
    /\ reg' = [reg EXCEPT ![h] = File(v)]
    /\ fs' = [fs EXCEPT ![cur[h]] = Dirty]
    /\ mine' = [mine EXCEPT ![cur[h]] = File(v)]
    /\ UNCHANGED <<cur, fstate, sd, where, child, sigframes, torn>>

\* SAVE_ALL stores sstatus, whose SD bit the hardware derives from FS.
UserTrap(h) ==
    /\ At(h, "user")
    /\ GoTo(cur[h], "kernel")
    /\ sd' = [sd EXCEPT ![cur[h]] = fs[cur[h]] = Dirty]
    /\ UNCHANGED <<cur, reg, fstate, fs, child, sigframes, mine, torn>>

\* RESTORE_ALL; a kernel thread has FS off and no user mode to go to.
RestoreAll(h) ==
    /\ At(h, "kernel") /\ fs[cur[h]] # Off
    /\ GoTo(cur[h], "user")
    /\ UNCHANGED <<cur, reg, fstate, ctx, child, sigframes, mine, torn>>

-----------------------------------------------------------------------------
\* __switch_to_aux loads the next task's state whatever its SD says,
Loads(next) == next \in Threads /\ Restores(next)

\* and saves the previous one's first, if its pt_regs have SD set.
Stores(prev) == prev \in Threads /\ sd[prev] /\ Saves(prev)

\* switch_to: prev is anywhere in the kernel, next is runnable and nowhere else.
Switch(h, next) ==
    LET prev  == cur[h]
        saved == IF Stores(prev) THEN [fstate EXCEPT ![prev] = reg[h]] ELSE fstate
    IN  /\ prev \in Threads => where[prev] \in KernelModes
        /\ \/ next = Swapper /\ prev # Swapper
           \/ next \in Threads /\ where[next] \in KernelModes /\ \A g \in Harts : cur[g] # next
        /\ cur' = [cur EXCEPT ![h] = next]
        /\ fstate' = saved
        /\ reg' = IF Loads(next) THEN [reg EXCEPT ![h] = saved[next]] ELSE reg
        /\ fs' = [t \in Threads |->
              IF (t = prev /\ Stores(prev)) \/ (t = next /\ Loads(next))
              THEN Cleaned(fs[t]) ELSE fs[t]]
        /\ torn' = IF Stores(prev) /\ where[prev] = "restoring"
                   THEN [torn EXCEPT ![prev] = TRUE] ELSE torn
    /\ UNCHANGED <<sd, where, child, sigframes, mine>>

-----------------------------------------------------------------------------
\* arch_dup_task_struct saves the current task's state, whatever SD says, ...
SavedForFork(h) == IF Saves(cur[h]) THEN reg[h] ELSE fstate[cur[h]]

\* ... and copies it with the rest of the task_struct.
DupTaskStruct(h, c) ==
    LET t == cur[h] IN
    /\ At(h, "kernel") /\ where[c] = "none"
    /\ fstate' = [fstate EXCEPT ![t] = SavedForFork(h), ![c] = SavedForFork(h)]
    /\ fs' = IF Saves(t) THEN [fs EXCEPT ![t] = Cleaned(@)] ELSE fs
    /\ where' = [where EXCEPT ![t] = "forking", ![c] = "embryo"]
    /\ child' = [child EXCEPT ![t] = c]
    /\ UNCHANGED <<cur, reg, sd, sigframes, mine, torn>>

\* copy_thread: childregs is a copy of the parent's, zero for a kernel thread.
\* The child's program goes on as the parent's, with a copy of its stack.
CopyThread(h) ==
    LET t == cur[h]
        c == child[t]
    IN  /\ At(h, "forking")
        /\ fs' = [fs EXCEPT ![c] = fs[t]]
        /\ sd' = [sd EXCEPT ![c] = fs[t] # Off /\ sd[t]]
        /\ where' = [where EXCEPT ![t] = "kernel", ![c] = "kernel"]
        /\ child' = [child EXCEPT ![t] = t]
        /\ sigframes' = [sigframes EXCEPT ![c] = sigframes[t]]
        /\ mine' = [mine EXCEPT ![c] = mine[t]]
        /\ UNCHANGED <<cur, reg, fstate, torn>>

-----------------------------------------------------------------------------
\* exec, first flush_thread: the saved state is zeroed, the registers are not.
FlushThread(h) ==
    /\ At(h, "kernel")
    /\ fstate' = [fstate EXCEPT ![cur[h]] = File(Reset)]
    /\ GoTo(cur[h], "flushed")
    /\ UNCHANGED <<cur, reg, ctx, child, sigframes, mine, torn>>

\* Then start_thread: a new sstatus.  What the registers hold is promised to
\* the new program neither by this nor by a switch before it.
StartThreadFp(h) ==
    /\ At(h, "flushed")
    /\ fs' = [fs EXCEPT ![cur[h]] = Initial]
    /\ sd' = [sd EXCEPT ![cur[h]] = FALSE]
    /\ sigframes' = [sigframes EXCEPT ![cur[h]] = <<>>]
    /\ mine' = [mine EXCEPT ![cur[h]] = File(Unset)]
    /\ GoTo(cur[h], "kernel")
    /\ UNCHANGED <<cur, reg, fstate, child, torn>>

-----------------------------------------------------------------------------
\* Mutant: the frame is filled from fstate without fstate_save.
SetupSigcontextNoSave(h) ==
    LET t == cur[h] IN
    /\ At(h, "kernel") /\ fs[t] # Off /\ Len(sigframes[t]) < MaxFrames
    /\ sigframes' = [sigframes EXCEPT ![t] =
          Append(@, [fpregs |-> <<fstate[t][1], Reset>>, ctx |-> mine[t]])]
    /\ GoTo(t, "delivering")
    /\ UNCHANGED <<cur, reg, fstate, fs, sd, child, mine, torn>>

\* setup_sigcontext: fstate_save, then the copy of fstate to the frame, whose
\* second half may be written after a page fault.
SetupSigcontext(h) ==
    LET t == cur[h] IN
    /\ At(h, "kernel") /\ fs[t] # Off /\ Len(sigframes[t]) < MaxFrames
    /\ fstate' = IF Saves(t) THEN [fstate EXCEPT ![t] = reg[h]] ELSE fstate
    /\ fs' = IF Saves(t) THEN [fs EXCEPT ![t] = Cleaned(@)] ELSE fs
    /\ sigframes' = [sigframes EXCEPT ![t] =
          Append(@, [fpregs |-> <<fstate'[t][1], Reset>>, ctx |-> mine[t]])]
    /\ GoTo(t, "delivering")
    /\ UNCHANGED <<cur, reg, sd, child, mine, torn>>

SetupRest(h) ==
    LET t == cur[h] IN
    /\ At(h, "delivering")
    /\ sigframes' = [sigframes EXCEPT ![t][Len(sigframes[t])].fpregs[2] = fstate[t][2]]
    /\ GoTo(t, "kernel")
    /\ UNCHANGED <<cur, reg, fstate, ctx, child, mine, torn>>

\* restore_sigcontext copies sc_fpregs over fstate ...
RestoreSigcontext(h) ==
    LET t == cur[h] IN
    /\ At(h, "kernel") /\ sigframes[t] # <<>>
    /\ fstate' = [fstate EXCEPT ![t][1] = Last(sigframes[t]).fpregs[1]]
    /\ torn' = [torn EXCEPT ![t] = FALSE]
    /\ GoTo(t, "restoring")
    /\ UNCHANGED <<cur, reg, ctx, child, sigframes, mine>>

\* Mutant: the registers are left to the next context switch.
RestoreRestNoLoad(h) ==
    LET t == cur[h] IN
    /\ At(h, "restoring")
    /\ fstate' = [fstate EXCEPT ![t][2] = Last(sigframes[t]).fpregs[2]]
    /\ mine' = [mine EXCEPT ![t] =
          IF torn[t] THEN <<Unset, Last(sigframes[t]).ctx[2]>> ELSE Last(sigframes[t]).ctx]
    /\ sigframes' = [sigframes EXCEPT ![t] = Front(@)]
    /\ GoTo(t, "kernel")
    /\ UNCHANGED <<cur, reg, fs, sd, child, torn>>

\* ... and loads it.  If a switch came between, its fstate_save has put the
\* registers of the handler into the first half.
RestoreRest(h) ==
    LET t == cur[h]
        f == Last(sigframes[t])
    IN  /\ At(h, "restoring")
        /\ fstate' = [fstate EXCEPT ![t][2] = f.fpregs[2]]
        /\ reg' = IF Restores(t) THEN [reg EXCEPT ![h] = fstate'[t]] ELSE reg
        /\ fs' = IF Restores(t) THEN [fs EXCEPT ![t] = Cleaned(@)] ELSE fs
        /\ mine' = [mine EXCEPT ![t] = IF torn[t] THEN <<Unset, f.ctx[2]>> ELSE f.ctx]
        /\ sigframes' = [sigframes EXCEPT ![t] = Front(@)]
        /\ GoTo(t, "kernel")
        /\ UNCHANGED <<cur, sd, child, torn>>

\* A frame that cannot be read: fstate stays as it is and nothing is loaded.
BadFrame(h) ==
    /\ At(h, "restoring")
    /\ GoTo(cur[h], "kernel")
    /\ UNCHANGED <<cur, reg, fstate, ctx, child, sigframes, mine, torn>>

FpNext == \E h \in Harts :
    \/ \E v \in Values : Compute(h, v)
    \/ UserTrap(h)
    \/ RestoreAll(h)
    \/ \E t \in Threads \cup {Swapper} : Switch(h, t)
    \/ \E c \in Threads : DupTaskStruct(h, c)
    \/ CopyThread(h)
    \/ FlushThread(h)
    \/ StartThreadFp(h)
    \/ SetupSigcontext(h)
    \/ SetupRest(h)
    \/ RestoreSigcontext(h)
    \/ RestoreRest(h)
    \/ BadFrame(h)

FpSpec == FpInit /\ [][FpNext]_fpVars

-----------------------------------------------------------------------------
\* What a file must hold for a program that was promised p.
Keeps(file, p) == \A i \in 1..2 : p[i] # Unset => file[i] = p[i]

FpTypeOK ==
    /\ cur \in [Harts -> Threads \cup {Swapper}]
    /\ reg \in [Harts -> Files]
    /\ fstate \in [Threads -> Files]
    /\ fs \in [Threads -> Off..Dirty]
    /\ sd \in [Threads -> BOOLEAN]
    /\ where \in [Threads -> KernelModes \cup {"none", "embryo", "user"}]
    /\ child \in [Threads -> Threads]
    /\ sigframes \in [Threads -> Seq([fpregs : Files, ctx : Promise \X Promise])]
    /\ mine \in [Threads -> Promise \X Promise]
    /\ torn \in [Threads -> BOOLEAN]

\* A program computes with its own registers: whatever switches, signals, forks
\* and execs of others came between, in user mode the registers are what the
\* program last put there (or had there when the signal came), except for the
\* half overwritten by a switch inside restore_sigcontext.
OwnRegisters ==
    \A h \in Harts : At(h, "user") => Keeps(reg[h], mine[cur[h]])

\* FP state outside of the registers is whole: a task that runs nowhere has all
\* of its own in fstate, outside of exec and of the copy of a frame over it; and
\* a signal frame holds what the signal interrupted, even if its writer slept
\* half way, was switched out and went on on another hart.
SavedRight ==
    \A t \in Threads :
        /\ /\ where[t] \in {"kernel", "forking", "delivering"}
           /\ \A h \in Harts : cur[h] # t
           => Keeps(fstate[t], mine[t])
        /\ \A n \in 1..Len(sigframes[t]) :
              \/ where[t] = "delivering" /\ n = Len(sigframes[t])
              \/ Keeps(sigframes[t][n].fpregs, sigframes[t][n].ctx)
=============================================================================
