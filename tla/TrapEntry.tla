----------------------------- MODULE TrapEntry -----------------------------
(***************************************************************************)
(* Trap entry and exit of one hart, kernel/entry.S: how SAVE_ALL finds the *)
(* kernel stack through sscratch, how nested traps stack their pt_regs,    *)
(* how ret_from_exception looks at the work flags before it goes back to   *)
(* user mode, and how __switch_to, fork and kernel threads (process.c)     *)
(* move the hart between kernel stacks.  Page faults come in any handler:  *)
(* do_page_fault (fault.c) does not take those of an interrupt, and copies *)
(* entries of the kernel's page table for addresses of vmalloc.            *)
(*                                                                         *)
(* A kernel stack is the sequence of the pt_regs pushed on it; a stack     *)
(* pointer <<t, n>> is just below the first n of them on the stack of t.   *)
(* A frame also holds the stage of the kernel code that runs below it and  *)
(* its preempt_count, so that an interrupted handler resumes where it was. *)
(***************************************************************************)
EXTENDS Integers, Sequences, FiniteSets

CONSTANTS
    Tasks,     \* the tasks of the system, the hart's idle task included
    Idle,      \* the idle task, which runs at boot
    Init1,     \* the first user task
    Raised     \* the work bits that are ever raised

ASSUME TrapAssumption ==
    /\ Idle \in Tasks /\ Init1 \in Tasks \ {Idle}
    /\ Raised \subseteq {"NOTIFY_RESUME", "SIGPENDING", "NEED_RESCHED"}  \* _TIF_WORK_MASK

VARIABLES
    priv,      \* the hart's privilege: "user" or "kernel"
    ie,        \* sstatus.IE
    sp,        \* the stack pointer
    sscratch,  \* the sscratch register
    tp,        \* the current task pointer
    stack,     \* stack[t]: the frames on the kernel stack of t
    thread,    \* thread[t].sp, saved by __switch_to and copy_thread
    flags      \* flags[t]: the pending work bits of thread_info.flags

hartRegs == <<priv, ie, sp, sscratch, tp>>
trapVars == <<priv, ie, sp, sscratch, tp, stack, thread, flags>>

Zero      == <<>>          \* sscratch or sp is 0
UserSp(t) == <<t, -1>>     \* a stack pointer of t's user program

\* pt_regs: user is ~SR_PS, pie is SR_PIE, sp the trapped stack pointer.  With
\* it go the stage of the code below, the interrupts its preempt_count counts,
\* and the work flags it read (s0).
Frame(user, pie, s, stage, level) ==
    [user |-> user, pie |-> pie, sp |-> s, stage |-> stage, level |-> level, s0 |-> {}]

\* trap_init ran on the boot hart (sscratch 0); task 1 was started by it and
\* is about to return to the program it has exec'ed.
TrapInit ==
    /\ priv = "kernel" /\ ie = TRUE
    /\ sp = <<Idle, 0>> /\ sscratch = Zero /\ tp = Idle
    /\ stack = [t \in Tasks |->
          IF t = Init1 THEN <<Frame(TRUE, TRUE, UserSp(t), "ret", 0)>> ELSE <<>>]
    /\ thread = [t \in Tasks |-> IF t = Init1 THEN <<t, 1>> ELSE Zero]
    /\ flags = [t \in Tasks |-> {}]

Owner == sp[1]
Depth == sp[2]
Stage == IF priv = "user" THEN "user" ELSE IF Depth = 0 THEN "idle" ELSE stack[Owner][Depth].stage
InKernel(stages) == priv = "kernel" /\ Stage \in stages
Level == IF priv = "user" \/ Depth = 0 THEN 0 ELSE stack[Owner][Depth].level
Goto(stage) == stack' = [stack EXCEPT ![Owner][Depth].stage = stage]

-----------------------------------------------------------------------------
\* handle_exception.  Interrupts are off from the trap to the handler.

Causes == {"irq", "syscall", "fault", "vmalloc"}

\* C code accesses user memory, in an interrupt where do_page_fault leaves it to
\* the fixup; and vmalloc memory, anywhere but in the fault that this makes.
MayTrap(cause) ==
    \/ priv = "user" /\ cause # "vmalloc"
    \/ cause = "irq" /\ ie
    \/ cause = "fault" /\ InKernel({"syscall", "notify", "kthread", "irq", "softirq"})
    \/ cause = "vmalloc" /\ InKernel({"syscall", "fault", "notify", "kthread", "irq", "softirq",
                                     "idle", "resched"})

\* Mutant: SAVE_ALL always starts at the bottom of the current task's stack.
StackOfCurrent == <<tp, 0>>

\* SAVE_ALL: a non-zero sscratch is the kernel stack to use.
StackToUse == IF sscratch # Zero THEN sscratch ELSE sp

\* Mutant: do_IRQ runs with the interrupts of the trapped code.
HandlerIeNested(cause) == cause = "syscall" \/ ie

\* Interrupts in the handler: on in a system call, as they were in do_page_fault
\* but for vmalloc memory.
HandlerIe(cause) == cause = "syscall" \/ (cause = "fault" /\ ie)

Trap(cause) ==
    /\ MayTrap(cause)
    /\ LET o == StackToUse[1]
           n == StackToUse[2]
       IN /\ stack' = [stack EXCEPT ![o] =
                Append(SubSeq(@, 1, n), Frame(priv = "user", ie, sp, cause,
                                                   IF cause = "irq" THEN Level + 1 ELSE Level))]
          /\ sp' = <<o, n + 1>>
          /\ tp' = o
    /\ sscratch' = Zero
    /\ priv' = "kernel"
    /\ ie' = HandlerIe(cause)
    /\ UNCHANGED <<thread, flags>>

-----------------------------------------------------------------------------
\* Kernel code below the frame.

\* A handler makes work: a signal or a callback for any task, a reschedule of
\* the current one.
RaiseWork(t, f) ==
    /\ InKernel({"irq", "softirq", "syscall", "fault"})
    /\ t = tp \/ (f # "NEED_RESCHED" /\ thread[t] # Zero)
    /\ flags' = [flags EXCEPT ![t] = @ \cup {f}]
    /\ UNCHANGED <<hartRegs, stack, thread>>

\* irq_exit of the outermost interrupt runs softirqs with interrupts on.
Softirq ==
    /\ InKernel({"irq"}) /\ Level = 1
    /\ ie' = TRUE
    /\ Goto("softirq")
    /\ UNCHANGED <<priv, sp, sscratch, tp, thread, flags>>

\* do_IRQ returns with interrupts off again, and out of the interrupt; the other
\* handlers just return.
HandlerReturns ==
    /\ InKernel({"irq", "softirq", "syscall", "fault", "vmalloc"})
    /\ LET inIrq == Stage \in {"irq", "softirq"}
       IN /\ ie' = (ie /\ ~inIrq)
          /\ stack' = [stack EXCEPT ![Owner][Depth].stage = "ret",
                                    ![Owner][Depth].level = IF inIrq THEN @ - 1 ELSE @]
    /\ UNCHANGED <<priv, sp, sscratch, tp, thread, flags>>

\* current_pt_regs: the frame at the top of the stack.
UserRegs(t) == stack[t][1]

\* fork: the child's frame is a copy of the parent's, ret_from_fork its start.
Fork(child) ==
    /\ InKernel({"syscall"}) /\ Depth = 1
    /\ child \in Tasks \ {Idle} /\ thread[child] = Zero /\ child # tp
    /\ stack' = [stack EXCEPT ![child] =
          <<[UserRegs(tp) EXCEPT !.sp = UserSp(child), !.stage = "ret"]>>]
    /\ thread' = [thread EXCEPT ![child] = <<child, 1>>]
    /\ UNCHANGED <<hartRegs, flags>>

\* Mutant: thread.sp is set above childregs.
KernelThreadAboveRegs(k) ==
    /\ InKernel({"syscall"})
    /\ k \in Tasks \ {Idle} /\ thread[k] = Zero /\ k # tp
    /\ stack' = [stack EXCEPT ![k] = <<Frame(FALSE, TRUE, Zero, "kthread", 0)>>]
    /\ thread' = [thread EXCEPT ![k] = <<k, 0>>]
    /\ UNCHANGED <<hartRegs, flags>>

\* kernel_thread: childregs say supervisor mode with interrupts on.
KernelThread(k) ==
    /\ InKernel({"syscall"})
    /\ k \in Tasks \ {Idle} /\ thread[k] = Zero /\ k # tp
    /\ stack' = [stack EXCEPT ![k] = <<Frame(FALSE, TRUE, Zero, "kthread", 0)>>]
    /\ thread' = [thread EXCEPT ![k] = <<k, 1>>]
    /\ UNCHANGED <<hartRegs, flags>>

\* start_thread: user mode, interrupts on.
StartThread(r) ==
    [r EXCEPT !.user = TRUE, !.pie = TRUE, !.sp = UserSp(tp), !.stage = "ret"]

\* The function of a kernel thread only returns after it has exec'ed.
Exec ==
    /\ InKernel({"kthread"}) /\ Depth = 1
    /\ stack' = [stack EXCEPT ![tp][1] = StartThread(@)]
    /\ UNCHANGED <<hartRegs, thread, flags>>

-----------------------------------------------------------------------------
\* Context switch.

\* Not in an interrupt, and interrupts are on or off only because of
\* work_pending.
MaySleep ==
    /\ InKernel({"syscall", "fault", "notify", "kthread", "idle", "resched"})
    /\ ie \/ Stage = "resched"
    /\ Level = 0

\* Mutant: work_resched returns to restore_all.
ResumedToRestore(stage) == IF stage = "resched" THEN "restore" ELSE stage

\* schedule() returns with interrupts on; a task that called it from
\* work_resched returns to ret_from_exception.
Resumed(stage) == IF stage = "resched" THEN "ret" ELSE stage

\* Mutant: __switch_to does not set tp.
SwitchToKeepsTp(next) ==
    /\ MaySleep /\ next # tp /\ thread[next] # Zero
    /\ IF Depth = 0 THEN UNCHANGED stack ELSE Goto(Resumed(Stage))
    /\ thread' = [thread EXCEPT ![tp] = sp, ![next] = Zero]
    /\ sp' = thread[next]
    /\ ie' = TRUE
    /\ flags' = [flags EXCEPT ![tp] = @ \ {"NEED_RESCHED"}]
    /\ UNCHANGED <<priv, sscratch, tp>>

\* schedule picks another task: __switch_to saves sp, loads the next task's,
\* and sets tp.
SwitchTo(next) ==
    /\ MaySleep /\ next # tp /\ thread[next] # Zero
    /\ IF Depth = 0 THEN UNCHANGED stack ELSE Goto(Resumed(Stage))
    /\ thread' = [thread EXCEPT ![tp] = sp, ![next] = Zero]
    /\ sp' = thread[next]
    /\ tp' = next
    /\ ie' = TRUE
    /\ flags' = [flags EXCEPT ![tp] = @ \ {"NEED_RESCHED"}]
    /\ UNCHANGED <<priv, sscratch>>

\* schedule picks the same task again.
ScheduleSame ==
    /\ InKernel({"resched"})
    /\ Goto(Resumed("resched"))
    /\ ie' = TRUE
    /\ flags' = [flags EXCEPT ![tp] = @ \ {"NEED_RESCHED"}]
    /\ UNCHANGED <<priv, sp, sscratch, tp, thread>>

-----------------------------------------------------------------------------
\* ret_from_exception.

\* csrc sstatus, SR_IE; a frame of the kernel is restored without more ado.
RetFromException ==
    /\ InKernel({"ret"})
    /\ ie' = FALSE
    /\ Goto(IF stack[Owner][Depth].user THEN "check" ELSE "restore")
    /\ UNCHANGED <<priv, sp, sscratch, tp, thread, flags>>

\* Mutant: sscratch is left as it was.
ResumeUserspaceKeepsSscratch ==
    /\ InKernel({"check"}) /\ flags[tp] = {}
    /\ Goto("restore")
    /\ UNCHANGED <<priv, ie, sp, sscratch, tp, thread, flags>>

\* resume_userspace without work: the stack pointer above the frame is where
\* the next trap from user mode will start.
ResumeUserspace ==
    /\ InKernel({"check"}) /\ flags[tp] = {}
    /\ sscratch' = <<Owner, Depth - 1>>
    /\ Goto("restore")
    /\ UNCHANGED <<priv, ie, sp, tp, thread, flags>>

\* work_resched goes to schedule with interrupts off.
WorkResched ==
    /\ InKernel({"check"}) /\ "NEED_RESCHED" \in flags[tp]
    /\ Goto("resched")
    /\ UNCHANGED <<hartRegs, thread, flags>>

WorkNotifysig ==
    /\ InKernel({"check"}) /\ flags[tp] # {} /\ "NEED_RESCHED" \notin flags[tp]
    /\ ie' = TRUE
    /\ stack' = [stack EXCEPT ![Owner][Depth].stage = "notify",
                              ![Owner][Depth].s0 = flags[tp]]
    /\ UNCHANGED <<priv, sp, sscratch, tp, thread, flags>>

\* do_notify_resume handles what s0 says; get_signal leaves the flag set when
\* a further signal is pending.  It returns to ret_from_exception.
NotifyResume(more) ==
    /\ InKernel({"notify"})
    /\ LET s0 == stack[Owner][Depth].s0
       IN flags' = [flags EXCEPT ![tp] =
             (@ \ s0) \cup IF more THEN s0 \cap {"SIGPENDING"} ELSE {}]
    /\ stack' = [stack EXCEPT ![Owner][Depth].stage = "ret", ![Owner][Depth].s0 = {}]
    /\ UNCHANGED <<hartRegs, thread>>

\* restore_all and sret.
Restore ==
    /\ InKernel({"restore"})
    /\ LET f == stack[Owner][Depth]
       IN /\ priv' = IF f.user THEN "user" ELSE "kernel"
          /\ ie' = f.pie
          /\ sp' = f.sp
    /\ stack' = [stack EXCEPT ![Owner] = SubSeq(@, 1, Depth - 1)]
    /\ UNCHANGED <<sscratch, tp, thread, flags>>

-----------------------------------------------------------------------------
TrapNext ==
    \/ \E cause \in Causes : Trap(cause)
    \/ \E t \in Tasks, f \in Raised : RaiseWork(t, f)
    \/ Softirq \/ HandlerReturns
    \/ \E t \in Tasks : Fork(t) \/ KernelThread(t) \/ SwitchTo(t)
    \/ Exec \/ ScheduleSame
    \/ RetFromException \/ ResumeUserspace \/ WorkResched \/ WorkNotifysig
    \/ \E more \in BOOLEAN : NotifyResume(more)
    \/ Restore

TrapSpec == TrapInit /\ [][TrapNext]_trapVars

-----------------------------------------------------------------------------
Stages == Causes \cup {"softirq", "kthread", "ret", "check", "resched", "notify", "restore"}
MaxNesting == 7
StackPointers == {Zero} \cup (Tasks \X (-1..MaxNesting))
TrapFrames == [user : BOOLEAN, pie : BOOLEAN, sp : StackPointers, stage : Stages, level : 0..2,
           s0 : SUBSET Raised]

TrapTypeOK ==
    /\ priv \in {"user", "kernel"} /\ ie \in BOOLEAN
    /\ sp \in StackPointers \ {Zero} /\ sscratch \in StackPointers
    /\ tp \in Tasks
    /\ stack \in [Tasks -> Seq(TrapFrames)]
    /\ thread \in [Tasks -> StackPointers]
    /\ flags \in [Tasks -> SUBSET Raised]

\* sscratch is the bottom of the current task's own, empty kernel stack
\* exactly while the hart is in user mode (or has interrupts off on its way
\* there), and 0 while it runs kernel code that can trap.
SscratchRight ==
    /\ priv = "user" => sscratch = <<tp, 0>> /\ stack[tp] = <<>>
    /\ priv = "kernel" /\ sscratch # Zero =>
          Stage = "restore" /\ ~ie /\ stack[tp][1].user /\ sscratch = <<tp, 0>>

\* The current pointer is the task on whose stack the hart runs.
CurrentOwnsStack ==
    IF priv = "user" THEN sp = UserSp(tp) ELSE Owner = tp /\ Depth = Len(stack[tp])

\* Every frame of every task leads back to exactly where its trap came from:
\* the first to the task's own user mode, each other one to the frame below,
\* with interrupts as this has them.  A task that is switched out left its
\* whole stack behind.
StacksWhole ==
    \A t \in Tasks :
        /\ \A n \in 1..Len(stack[t]) :
              LET f == stack[t][n]
              IN IF f.user THEN n = 1 /\ f.sp = UserSp(t) /\ f.pie
                 ELSE \/ n = 1 /\ f.pie /\ (f.stage = "kthread" \/ f.sp = <<t, 0>>)
                      \/ /\ n > 1 /\ f.sp = <<t, n - 1>>
                         /\ stack[t][n - 1].stage \in {"irq", "resched"} => ~f.pie
                         /\ stack[t][n - 1].stage \in {"softirq", "syscall", "notify", "kthread"}
                               => f.pie
        /\ t # tp /\ thread[t] # Zero => thread[t] = <<t, Len(stack[t])>>

\* User mode is never entered over work that is already pending: the flags are
\* looked at with interrupts off, in the same breath as the sret.
NoWorkLeftBehind == priv = "user" => flags[tp] = {} /\ ie

\* At most seven traps nest on a stack, two of them interrupts: the one from
\* user mode, a page fault of its handler, an interrupt, a fault in its softirqs
\* that is not taken, one more interrupt, a fault in this, and one of vmalloc.
\* No two interrupt handlers run on top of each other but for softirqs.
NestingBounded ==
    \A t \in Tasks :
        /\ Len(stack[t]) <= MaxNesting
        /\ Cardinality({n \in 1..Len(stack[t]) : stack[t][n].stage = "irq"}) <= 1

\* What a trap saved is what its return restores: while it is on a stack no
\* step changes it, exec of a kernel thread excepted, and only the top frame
\* of the current task moves on or goes.
FramesUntouched ==
    [][\A t \in Tasks : \A n \in 1..Len(stack[t]) :
          LET f == stack[t][n]
              top == t = tp /\ n = Len(stack[t])
          IN IF n <= Len(stack'[t])
             THEN LET g == stack'[t][n]
                  IN /\ top \/ g = f
                     /\ f.stage = "kthread" \/ <<g.user, g.pie, g.sp>> = <<f.user, f.pie, f.sp>>
             ELSE top /\ f.stage = "restore"]_trapVars
=============================================================================
