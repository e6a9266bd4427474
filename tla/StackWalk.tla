------------------------------ MODULE StackWalk ------------------------------
(***************************************************************************)
(* The stack traces of kernel/stacktrace.c: walk_stackframe, with frame    *)
(* pointers or without, and the two callers that end it, get_wchan and     *)
(* save_stack_trace_tsk.  A sleeping task may be woken and run on another  *)
(* hart during the walk, so every word read from its stack may hold        *)
(* anything.  Addresses count words; a frame is two of them.               *)
(***************************************************************************)
EXTENDS Integers

CONSTANTS
    THREAD_SIZE,   \* words of a stack
    FramePointer,  \* the settings of CONFIG_FRAME_POINTER to look at
    MaxEntries,    \* trace->max_entries
    MaxSkip        \* bound: trace->skip

ASSUME StackWalkAssumption ==
    /\ THREAD_SIZE \in Nat \ {0, 1} /\ FramePointer \subseteq BOOLEAN
    /\ MaxEntries \in Nat \ {0} /\ MaxSkip \in Nat

VARIABLES
    step,     \* where the walk is
    withFp,   \* CONFIG_FRAME_POINTER
    fn,       \* what is called for each pc: "save_wchan" or "save_trace"
    sp, fp,   \* the frame; without frame pointers, sp is ksp
    pc,       \* what its return address points to
    trace,    \* nr_entries and skip
    wchan     \* save_wchan has found its pc

walkVars == <<step, withFp, fn, sp, fp, pc, trace, wchan>>

\* The stack of the task, as addresses of words.
Base == THREAD_SIZE
Top  == 2 * THREAD_SIZE
Stack == Base..Top - 1

\* Words in and next to the stack, and an address that is not aligned.
Unaligned == -1
Pointers == (Base - 2..Top + 2) \cup {Unaligned}
\* Kernel text, the scheduler's own functions, or no text at all.
Texts == {"text", "sched", "none"}

\* ksp has reached the end of its stack, or the lowest word of it.
kstack_end(a) == a % THREAD_SIZE = 0

\* thread.sp is in the stack; task_pt_regs is above it.
WalkInit ==
    /\ withFp \in FramePointer /\ fn \in {"save_wchan", "save_trace"}
    /\ sp \in Base..Top - 2 /\ fp \in Pointers /\ pc \in Texts
    /\ step = IF ~withFp /\ kstack_end(sp) THEN "end" ELSE "call"
    /\ trace \in [nr : {0}, skip : 0..MaxSkip]
    /\ wchan = FALSE

WalkOff ==
    /\ step = "off" /\ withFp = FALSE /\ fn = "none" /\ sp = Base /\ fp = Base
    /\ pc = "none" /\ trace = [nr |-> 0, skip |-> 0] /\ wchan = FALSE

-----------------------------------------------------------------------------
\* save_wchan stops at the first function outside of the scheduler.
SaveWchan ==
    /\ fn = "save_wchan"
    /\ wchan' = (pc # "sched")
    /\ UNCHANGED trace

\* Mutant: the end of the buffer is tested before the entry is stored.
TraceIsFullLate == trace.nr >= MaxEntries

TraceIsFull == trace'.nr >= MaxEntries

\* __save_trace
SaveTrace ==
    /\ fn = "save_trace"
    /\ trace' = IF trace.skip > 0 THEN [trace EXCEPT !.skip = @ - 1]
                ELSE [trace EXCEPT !.nr = @ + 1]
    /\ UNCHANGED wchan

\* What fn returns: stop here.
Stops == IF fn = "save_wchan" THEN pc # "sched" ELSE trace.skip = 0 /\ TraceIsFull

\* One pc: the walk with frame pointers ends at what is no kernel text, the
\* other one passes over it.
Report ==
    /\ step = "call"
    /\ IF pc = "none"
       THEN /\ step' = IF withFp THEN "end" ELSE "next"
            /\ UNCHANGED <<trace, wchan>>
       ELSE /\ SaveWchan \/ SaveTrace
            /\ step' = IF Stops THEN "end" ELSE "next"
    /\ UNCHANGED <<withFp, fn, sp, fp, pc>>

\* low is the next frame above sp, high the end of the stack sp is in.
AlignUp(a) == ((a + THREAD_SIZE - 1) \div THREAD_SIZE) * THREAD_SIZE
ValidFrame(f) == f # Unaligned /\ f >= sp + 2 /\ f <= AlignUp(sp)

\* The two words below fp.
Unwind ==
    /\ step = "next" /\ withFp
    /\ IF ValidFrame(fp)
       THEN /\ step' = "call"
            /\ sp' = fp
            /\ fp' \in Pointers /\ pc' \in Texts
       ELSE step' = "end" /\ UNCHANGED <<sp, fp, pc>>
    /\ UNCHANGED <<withFp, fn, trace, wchan>>

\* Without frame pointers every word is taken for a return address.
NextWord ==
    /\ step = "next" /\ ~withFp
    /\ sp' = sp + 1
    /\ pc' \in Texts
    /\ step' = IF kstack_end(sp') THEN "end" ELSE "call"
    /\ UNCHANGED <<withFp, fn, fp, trace, wchan>>

\* save_stack_trace_tsk marks the end of a trace that leaves room for it.
Finish ==
    /\ step = "end"
    /\ step' = "done"
    /\ trace' = IF fn = "save_trace" /\ trace.nr < MaxEntries
                THEN [trace EXCEPT !.nr = @ + 1] ELSE trace
    /\ UNCHANGED <<withFp, fn, sp, fp, pc, wchan>>

WalkNext ==
    \/ Report
    \/ Unwind
    \/ NextWord
    \/ Finish

-----------------------------------------------------------------------------
\* The words the step just taken has read.
JustRead == IF withFp THEN {sp' - 2, sp' - 1} ELSE {sp}

\* Whatever the stack holds, and whoever writes to it meanwhile, a walk reads
\* words of that stack only, each of them at most once and going up, so that it
\* ends; and it stores no more entries than its buffer has.
WalkBounded ==
    [][/\ sp' # sp => /\ sp' > sp
                      /\ JustRead \subseteq Stack
                      /\ \A a \in JustRead : a >= sp
       /\ trace'.nr \in trace.nr..MaxEntries]_walkVars
=============================================================================
