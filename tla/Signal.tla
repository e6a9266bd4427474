------------------------------- MODULE Signal -------------------------------
(***************************************************************************)
(* Signals and system-call restart of one thread: handle_syscall and the   *)
(* return path of kernel/entry.S, do_notify_resume, do_signal,             *)
(* handle_signal, setup_rt_frame and rt_sigreturn of kernel/signal.c.      *)
(*                                                                         *)
(* The program is a loop of an instruction that sets the arguments of a    *)
(* call, at pc "arguments", the instruction after it, the "ecall", and the *)
(* one after that, which uses the "result".  A handler is an instruction   *)
(* and the ecall of rt_sigreturn at "sigreturn".  The generic signal code  *)
(* is modelled from how signal.c uses it.                                  *)
(***************************************************************************)
EXTENDS Integers, Sequences

CONSTANTS
    Signals,      \* the signals with a handler
    SaRestart,    \* those whose handler has SA_RESTART
    Calls,        \* the system calls the program makes
    SuspendMask,  \* the mask sigsuspend waits with
    MaxSends      \* bound: signals sent

ASSUME SignalAssumption ==
    /\ SaRestart \subseteq Signals /\ SuspendMask \subseteq Signals
    /\ Calls \subseteq {"read", "futex", "pause", "sigsuspend", "nanosleep"}
    /\ MaxSends \in Nat

VARIABLES
    mode,      \* "user", "call" (in a system call), "exit" (returning), "dead"
    regs,      \* the user's registers: pt_regs while in the kernel
    frames,    \* the rt_sigframes on the user's stack
    pending, blocked,
    tif,       \* TIF_SIGPENDING
    restore,   \* TIF_RESTORE_SIGMASK
    saved,     \* saved_sigmask, empty without that flag
    fn,        \* restart_block.fn can still be called
    fresh,     \* the program has not executed "arguments" yet
    handled,   \* handlers run since then
    sends

mask == <<restore, saved>>
sigs == <<pending, blocked, tif, mask>>
prog == <<fresh, handled>>
signalVars == <<mode, regs, frames, sigs, fn, prog, sends>>

\* What a system call returns when a signal interrupts it.
RestartCode(call) ==
    CASE call = "read"       -> "ERESTARTSYS"
      [] call = "futex"      -> "ERESTARTNOINTR"
      [] call \in {"pause", "sigsuspend"} -> "ERESTARTNOHAND"
      [] call \in {"nanosleep", "restart_syscall"} -> "ERESTART_RESTARTBLOCK"
RestartCodes == {"ERESTARTSYS", "ERESTARTNOINTR", "ERESTARTNOHAND", "ERESTART_RESTARTBLOCK"}

SignalInit ==
    /\ mode = "user"
    /\ regs = [pc |-> "arguments", a0 |-> "any", a7 |-> "any", scause |-> "none"]
    /\ frames = <<>>
    /\ pending = {} /\ blocked = {} /\ tif = FALSE
    /\ restore = FALSE /\ saved = {}
    /\ fn = FALSE
    /\ fresh = TRUE /\ handled = {}
    /\ sends = 0

-----------------------------------------------------------------------------
\* User mode.

SetArguments ==
    /\ mode = "user" /\ regs.pc = "arguments"
    /\ \E call \in Calls : regs' = [regs EXCEPT !.pc = "ecall", !.a0 = "argument", !.a7 = call]
    /\ fresh' = FALSE /\ handled' = {}
    /\ UNCHANGED <<mode, frames, sigs, fn, sends>>

UseResult ==
    /\ mode = "user" /\ regs.pc = "result"
    /\ regs' = [regs EXCEPT !.pc = "arguments", !.a0 = "any", !.a7 = "any"]
    /\ fresh' = TRUE /\ handled' = {}
    /\ UNCHANGED <<mode, frames, sigs, fn, sends>>

RunHandler ==
    /\ mode = "user" /\ regs.pc = "handler"
    /\ regs' = [regs EXCEPT !.pc = "sigreturn", !.a0 = "any", !.a7 = "rt_sigreturn"]
    /\ UNCHANGED <<mode, frames, sigs, fn, prog, sends>>

\* handle_syscall: sepc is advanced past the ecall.
HandleSyscall ==
    /\ mode = "user" /\ regs.pc \in {"ecall", "sigreturn"}
    /\ regs' = [regs EXCEPT !.scause = "EXC_SYSCALL", !.pc = IF @ = "ecall" THEN "result" ELSE "after"]
    /\ mode' = "call"
    /\ UNCHANGED <<frames, sigs, fn, prog, sends>>

\* An interrupt anywhere; only one that finds work matters here.
HandleInterrupt ==
    /\ mode = "user" /\ tif
    /\ regs' = [regs EXCEPT !.scause = "interrupt"]
    /\ mode' = "exit"
    /\ UNCHANGED <<frames, sigs, fn, prog, sends>>

-----------------------------------------------------------------------------
\* System calls.  A call that is made again with other arguments does what it
\* did before.

Recalc(p, b) == p \ b # {}   \* recalc_sigpending

\* sigsuspend begins to wait with another mask.
SigSuspend ==
    /\ mode = "call" /\ regs.a7 = "sigsuspend" /\ ~restore
    /\ restore' = TRUE /\ saved' = blocked /\ blocked' = SuspendMask
    /\ tif' = Recalc(pending, SuspendMask)
    /\ UNCHANGED <<mode, regs, frames, pending, fn, prog, sends>>

\* ret_from_syscall: the kernel's a0 becomes the user's.
RetFromSyscall(result) ==
    /\ regs' = [regs EXCEPT !.a0 = result]
    /\ mode' = "exit"

CallDone ==
    /\ mode = "call" /\ regs.a7 \notin {"rt_sigreturn", "sigsuspend"}
    /\ RetFromSyscall(IF regs.a7 = "restart_syscall" /\ ~fn THEN "EINTR" ELSE "value")
    /\ UNCHANGED <<frames, sigs, fn, prog, sends>>

CallInterrupted ==
    /\ mode = "call" /\ regs.a7 # "rt_sigreturn" /\ tif
    /\ regs.a7 = "sigsuspend" => restore
    /\ regs.a7 = "restart_syscall" => fn
    /\ RetFromSyscall(RestartCode(regs.a7))
    /\ fn' = (fn \/ RestartCode(regs.a7) = "ERESTART_RESTARTBLOCK")
    /\ UNCHANGED <<frames, sigs, prog, sends>>

Top == frames[Len(frames)]

\* Mutant: the old mask is set without a look at what it unblocks.
RtSigreturnNoRecalc ==
    /\ mode = "call" /\ regs.a7 = "rt_sigreturn"
    /\ blocked' = Top.mask /\ UNCHANGED tif
    /\ regs' = [regs EXCEPT !.pc = Top.pc, !.a0 = Top.a0, !.a7 = Top.a7]
    /\ frames' = SubSeq(frames, 1, Len(frames) - 1)
    /\ fn' = FALSE
    /\ mode' = "exit"
    /\ UNCHANGED <<pending, mask, prog, sends>>

\* rt_sigreturn with a good frame: the mask, then the registers; scause is not
\* among them.
RtSigreturn ==
    /\ mode = "call" /\ regs.a7 = "rt_sigreturn"
    /\ blocked' = Top.mask /\ tif' = Recalc(pending, Top.mask)
    /\ regs' = [regs EXCEPT !.pc = Top.pc, !.a0 = Top.a0, !.a7 = Top.a7]
    /\ frames' = SubSeq(frames, 1, Len(frames) - 1)
    /\ fn' = FALSE
    /\ mode' = "exit"
    /\ UNCHANGED <<pending, mask, prog, sends>>

-----------------------------------------------------------------------------
\* The way back to user mode.

ReturnToUser ==
    /\ mode = "exit" /\ ~tif
    /\ mode' = "user"
    /\ UNCHANGED <<regs, frames, sigs, fn, prog, sends>>

\* sepc - 4, wherever the program is.
Rewind(r) == [r EXCEPT !.pc = CASE @ = "result" -> "ecall"
                                [] @ = "ecall"  -> "arguments"
                                [] OTHER        -> @]

\* Mutant: with a handler, only -ERESTARTSYS is looked at.
RestartForHandlerSysOnly(r, sig) ==
    IF r.a0 = "ERESTARTSYS"
    THEN IF sig \in SaRestart THEN Rewind(r) ELSE [r EXCEPT !.a0 = "EINTR"]
    ELSE r

\* handle_signal: "Are we from a system call?"
RestartForHandler(r, sig) ==
    CASE r.a0 \in {"ERESTART_RESTARTBLOCK", "ERESTARTNOHAND"} -> [r EXCEPT !.a0 = "EINTR"]
      [] r.a0 = "ERESTARTSYS" /\ sig \notin SaRestart -> [r EXCEPT !.a0 = "EINTR"]
      [] r.a0 = "ERESTARTSYS" /\ sig \in SaRestart -> Rewind(r)
      [] r.a0 = "ERESTARTNOINTR" -> Rewind(r)
      [] OTHER -> r

\* Mutant: a call that no handler may interrupt is not restarted.
RestartWithoutHandlerNohand(r) ==
    CASE r.a0 = "ERESTARTNOHAND" -> [r EXCEPT !.a0 = "EINTR"]
      [] r.a0 \in {"ERESTARTSYS", "ERESTARTNOINTR"} -> Rewind(r)
      [] r.a0 = "ERESTART_RESTARTBLOCK" -> [Rewind(r) EXCEPT !.a7 = "restart_syscall"]
      [] OTHER -> r

\* do_signal: "Restart the system call - no handlers present"
RestartWithoutHandler(r) ==
    CASE r.a0 \in {"ERESTARTNOHAND", "ERESTARTSYS", "ERESTARTNOINTR"} -> Rewind(r)
      [] r.a0 = "ERESTART_RESTARTBLOCK" -> [Rewind(r) EXCEPT !.a7 = "restart_syscall"]
      [] OTHER -> r

FromSyscall(r) == r.scause = "EXC_SYSCALL"

\* Mutant: the frame gets the mask that is in force.
BlockedToSave == blocked

\* sigmask_to_save
MaskToSave == IF restore THEN saved ELSE blocked

\* Mutant: the signal is not blocked while its handler runs.
NothingBlocked(sig) == blocked

\* signal_delivered
BlockedInHandler(sig) == blocked \cup {sig}

\* handle_signal; the frame may be bad, and then SIGSEGV kills the process.
HandleSignal(sig) ==
    /\ mode = "exit" /\ tif /\ sig \in pending \ blocked
    /\ pending' = pending \ {sig}
    /\ LET r == IF FromSyscall(regs) THEN RestartForHandler(regs, sig) ELSE regs
       IN \/ /\ frames' = Append(frames, [pc |-> r.pc, a0 |-> r.a0, a7 |-> r.a7,
                                          mask |-> MaskToSave, sig |-> sig])
             /\ regs' = [r EXCEPT !.pc = "handler", !.a0 = "signal number"]
             /\ blocked' = BlockedInHandler(sig)
             /\ restore' = FALSE /\ saved' = {}
             /\ handled' = handled \cup {sig}
             /\ UNCHANGED mode
          \/ /\ mode' = "dead" /\ regs' = r
             /\ UNCHANGED <<frames, blocked, mask, handled>>
    /\ tif' = Recalc(pending', blocked')
    /\ UNCHANGED <<fn, fresh, sends>>

\* do_signal when get_signal has nothing to deliver.
NoSignal ==
    /\ mode = "exit" /\ tif /\ pending \subseteq blocked
    /\ regs' = IF FromSyscall(regs) THEN RestartWithoutHandler(regs) ELSE regs
    /\ blocked' = MaskToSave /\ restore' = FALSE /\ saved' = {}
    /\ tif' = Recalc(pending, MaskToSave)
    /\ UNCHANGED <<mode, frames, pending, fn, prog, sends>>

-----------------------------------------------------------------------------
\* Other threads.

Send(sig) ==
    /\ mode # "dead" /\ sends < MaxSends /\ sends' = sends + 1
    /\ pending' = pending \cup {sig}
    /\ tif' = (tif \/ sig \notin blocked)
    /\ UNCHANGED <<mode, regs, frames, blocked, mask, fn, prog>>

\* Another thread of the process takes the signal; the flag stays as it is.
TakenByOther(sig) ==
    /\ mode # "dead" /\ sig \in pending
    /\ pending' = pending \ {sig}
    /\ UNCHANGED <<mode, regs, frames, blocked, tif, mask, fn, prog, sends>>

-----------------------------------------------------------------------------
SignalNext ==
    \/ SetArguments \/ UseResult \/ RunHandler
    \/ HandleSyscall \/ HandleInterrupt
    \/ SigSuspend \/ CallDone \/ CallInterrupted \/ RtSigreturn
    \/ ReturnToUser \/ NoSignal
    \/ \E sig \in Signals : HandleSignal(sig) \/ Send(sig) \/ TakenByOther(sig)

SignalSpec == SignalInit /\ [][SignalNext]_signalVars

-----------------------------------------------------------------------------
Places  == {"arguments", "ecall", "result", "handler", "sigreturn", "after"}
A0s     == RestartCodes \cup {"any", "argument", "value", "EINTR", "signal number"}
Numbers == Calls \cup {"any", "rt_sigreturn", "restart_syscall"}
Registers == [pc : Places, a0 : A0s, a7 : Numbers,
              scause : {"none", "EXC_SYSCALL", "interrupt"}]
Frames  == [pc : Places, a0 : A0s, a7 : Numbers, mask : SUBSET Signals, sig : Signals]

SignalTypeOK ==
    /\ mode \in {"user", "call", "exit", "dead"}
    /\ regs \in Registers
    /\ regs.pc = "after" => mode = "call"
    /\ frames \in Seq(Frames)
    /\ pending \in SUBSET Signals /\ blocked \in SUBSET Signals
    /\ tif \in BOOLEAN /\ restore \in BOOLEAN /\ saved \in SUBSET Signals
    /\ fn \in BOOLEAN /\ fresh \in BOOLEAN /\ handled \in SUBSET Signals
    /\ sends \in 0..MaxSends

\* The program never sees one of the kernel's own codes as a result: whatever
\* interrupts a call, it is rewound or its result becomes EINTR before the
\* program runs on after it, be it straight away or after handlers.
NoCodeLeaks ==
    /\ mode = "user" /\ regs.pc = "result" => regs.a0 \notin RestartCodes
    /\ \A n \in 1..Len(frames) : frames[n].pc = "result" => frames[n].a0 \notin RestartCodes

\* A call fails with EINTR only if a handler ran meanwhile, and a read only
\* if that of a signal without SA_RESTART did.
EintrMeansHandled ==
    mode = "user" /\ regs.pc = "result" /\ regs.a0 = "EINTR" =>
        /\ handled # {}
        /\ regs.a7 = "read" => ~ handled \subseteq SaRestart

\* Outside of handlers the program runs with its own mask again, whatever mask
\* sigsuspend waited with.
MaskRestored ==
    mode = "user" => ~restore /\ (frames = <<>> => blocked = {})

\* A signal is not delivered again while its handler runs, so the frames on
\* the user's stack are bounded.
NoReentry ==
    \A m, n \in 1..Len(frames) : frames[m].sig = frames[n].sig => m = n

\* A signal that can be delivered has the flag that makes the return path look.
PendingIsFlagged == mode # "dead" => (pending \subseteq blocked \/ tif)

\* "Restart the system call" (signal.c:201): a rewound ecall is executed with
\* the arguments the program gave it.
RestartsSameCall ==
    mode = "user" /\ regs.pc = "ecall" /\ regs.a7 # "restart_syscall" => regs.a0 = "argument"

\* "Did we come from a system call?" (signal.c:199): sepc is taken back over
\* the ecall that was interrupted and never over the instruction before it.
NeverBeforeTheCall == mode = "user" /\ regs.pc = "arguments" => fresh
=============================================================================
