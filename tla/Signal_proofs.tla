--------------------------- MODULE Signal_proofs ---------------------------
(***************************************************************************)
(* For every set of signals, handlers' flags, calls and masks, and any     *)
(* number of sends, the model of signal.c keeps its masks, its pending     *)
(* flag, its handlers and the program's results right.                     *)
(***************************************************************************)
EXTENDS Signal, SequenceTheorems, TLAPS

Main  == {"arguments", "ecall", "result"}
Inner == {"handler", "sigreturn", "after"}

\* Registers of the program proper, and of a handler.
InMain(r)    == /\ r.pc \in Main /\ r.a7 # "rt_sigreturn"
                /\ r.pc # "arguments" => r.a7 # "any"
InHandler(r) == /\ r.pc \in Inner /\ r.a0 \notin RestartCodes
                /\ r.pc # "handler" => r.a7 = "rt_sigreturn"

\* The oldest frame is the program's, each newer one that of the handler
\* below it, and the registers are those of the newest handler.
WhereInv ==
    /\ IF frames = <<>> THEN InMain(regs) ELSE InHandler(regs)
    /\ \A n \in 1..Len(frames) :
          IF n = 1 THEN InMain(frames[n]) ELSE InHandler(frames[n]) /\ frames[n].pc # "after"
    /\ mode = "call" => regs.pc \in {"result", "after"}

\* sigsuspend's mask is in force only until the first pass of do_signal, and
\* only in the program itself; below everything there is the empty mask.
MaskInv ==
    /\ restore => /\ frames = <<>>
                  /\ \/ mode = "call" /\ regs.a7 = "sigsuspend"
                     \/ mode = "exit" /\ tif
                     \/ mode = "dead"
    /\ IF frames = <<>> THEN MaskToSave = {} ELSE frames[1].mask = {}

\* What runs on top of a handler has its signal blocked.
ChainInv ==
    /\ \A n \in 1..Len(frames) : frames[n].sig \in blocked
    /\ \A m, n \in 1..Len(frames) : m < n =>
          frames[m].sig \in frames[n].mask /\ frames[n].sig \notin frames[n].mask

\* A restart code is in a0 after the ecall only until the first pass.
CodeInv ==
    /\ NoCodeLeaks
    /\ mode = "exit" /\ regs.pc = "result" /\ regs.a0 \in RestartCodes =>
          tif /\ FromSyscall(regs)
    /\ mode = "call" => FromSyscall(regs)

\* Why the registers of the program may say EINTR, or ask for restart_syscall.
Excused(r) ==
    /\ r.pc = "result" /\ r.a0 = "EINTR" =>
          handled # {} /\ (r.a7 = "read" => ~ handled \subseteq SaRestart)
    /\ r.a7 = "restart_syscall" /\ r.pc # "arguments" => fn \/ handled # {}

\* The program's registers, wherever they are, are excused, and a restart code
\* is that of the call it came from.
ResultInv ==
    /\ frames # <<>> => handled # {} /\ Excused(frames[1])
    /\ frames = <<>> /\ mode \in {"user", "exit"} => Excused(regs)
    /\ frames = <<>> /\ mode = "call" /\ regs.a7 = "restart_syscall" => fn \/ handled # {}
    /\ mode = "exit" /\ regs.pc = "result" /\ regs.a0 \in RestartCodes =>
          /\ regs.a0 = RestartCode(regs.a7)
          /\ regs.a0 = "ERESTART_RESTARTBLOCK" => fn

IInv == /\ SignalTypeOK /\ WhereInv /\ MaskInv /\ ChainInv /\ CodeInv /\ ResultInv
        /\ PendingIsFlagged

USE SignalAssumption DEF mask, sigs, prog

LEMMA InitIInv == SignalInit => IInv
  <1> SUFFICES ASSUME SignalInit PROVE IInv OBVIOUS
  <1> USE DEF SignalInit
  <1>1. SignalTypeOK
    <2>1. regs \in Registers /\ regs.pc # "after"
      BY DEF Registers, Places, A0s, Numbers
    <2>2. frames \in Seq(Frames) OBVIOUS
    <2>3. sends \in 0..MaxSends OBVIOUS
    <2>4. /\ mode \in {"user", "call", "exit", "dead"}
          /\ pending \in SUBSET Signals /\ blocked \in SUBSET Signals
          /\ tif \in BOOLEAN /\ restore \in BOOLEAN /\ saved \in SUBSET Signals
          /\ fn \in BOOLEAN /\ fresh \in BOOLEAN /\ handled \in SUBSET Signals
      OBVIOUS
    <2> QED BY ONLY <2>1, <2>2, <2>3, <2>4 DEF SignalTypeOK
  <1>2. WhereInv BY DEF WhereInv, InMain, Main
  <1>3. MaskInv /\ ChainInv /\ CodeInv /\ PendingIsFlagged
    BY DEF MaskInv, MaskToSave, ChainInv, CodeInv, NoCodeLeaks, PendingIsFlagged
  <1>4. ResultInv BY DEF ResultInv, Excused, RestartCodes
  <1> QED BY <1>1, <1>2, <1>3, <1>4 DEF IInv

-----------------------------------------------------------------------------
\* What the restart operators do to registers.

LEMMA RewindRegs ==
  ASSUME NEW r \in Registers
  PROVE  /\ Rewind(r) \in Registers
         /\ Rewind(r).a0 = r.a0 /\ Rewind(r).a7 = r.a7 /\ Rewind(r).scause = r.scause
         /\ r.pc \in Main => Rewind(r).pc \in {"arguments", "ecall"}
         /\ Rewind(r).pc = "ecall" => r.pc = "result"
         /\ r.pc \in Inner => Rewind(r).pc = r.pc
  BY DEF Rewind, Registers, Places, Main, Inner

\* handle_signal never leaves a restart code behind the ecall, nor touches a
\* handler's registers.
LEMMA RestartForHandlerRegs ==
  ASSUME NEW r \in Registers, NEW sig \in Signals
  PROVE  LET q == RestartForHandler(r, sig)
         IN /\ q \in Registers
            /\ InMain(r) => InMain(q) /\ (q.pc = "result" => q.a0 \notin RestartCodes)
            /\ InHandler(r) => q = r
  <1>1. CASE r.a0 \in {"ERESTART_RESTARTBLOCK", "ERESTARTNOHAND"}
             \/ (r.a0 = "ERESTARTSYS" /\ sig \notin SaRestart)
    <2>1. RestartForHandler(r, sig) = [r EXCEPT !.a0 = "EINTR"]
      BY <1>1 DEF RestartForHandler
    <2> QED BY <1>1, <2>1 DEF Registers, A0s, InMain, InHandler, Inner, Main, RestartCodes
  <1>2. CASE (r.a0 = "ERESTARTSYS" /\ sig \in SaRestart) \/ r.a0 = "ERESTARTNOINTR"
    <2>1. RestartForHandler(r, sig) = Rewind(r)
      BY <1>2 DEF RestartForHandler
    <2> QED BY <1>2, <2>1, RewindRegs DEF InMain, InHandler, Inner, Main, RestartCodes
  <1>3. CASE r.a0 \notin RestartCodes
    <2>1. RestartForHandler(r, sig) = r
      BY <1>3 DEF RestartForHandler, RestartCodes
    <2> QED BY <1>3, <2>1
  <1> QED BY <1>1, <1>2, <1>3 DEF RestartCodes

\* The same of do_signal without a handler.
LEMMA RestartWithoutHandlerRegs ==
  ASSUME NEW r \in Registers
  PROVE  LET q == RestartWithoutHandler(r)
         IN /\ q \in Registers
            /\ InMain(r) => InMain(q) /\ (q.pc = "result" => q.a0 \notin RestartCodes)
            /\ InHandler(r) => q = r
  <1>1. CASE r.a0 \in {"ERESTARTNOHAND", "ERESTARTSYS", "ERESTARTNOINTR"}
    <2>1. RestartWithoutHandler(r) = Rewind(r)
      BY <1>1 DEF RestartWithoutHandler
    <2> QED BY <1>1, <2>1, RewindRegs DEF InMain, InHandler, Inner, Main, RestartCodes
  <1>2. CASE r.a0 = "ERESTART_RESTARTBLOCK"
    <2>1. RestartWithoutHandler(r) = [Rewind(r) EXCEPT !.a7 = "restart_syscall"]
      BY <1>2 DEF RestartWithoutHandler
    <2> QED BY <1>2, <2>1, RewindRegs
        DEF Registers, Numbers, InMain, InHandler, Inner, Main, RestartCodes
  <1>3. CASE r.a0 \notin RestartCodes
    <2>1. RestartWithoutHandler(r) = r
      BY <1>3 DEF RestartWithoutHandler, RestartCodes
    <2> QED BY <1>3, <2>1
  <1> QED BY <1>1, <1>2, <1>3 DEF RestartCodes

-----------------------------------------------------------------------------
\* What the steps that touch the registers or the frames do, without their LETs.

LEMMA CallFacts ==
  ASSUME IInv, mode = "call", regs.a7 # "rt_sigreturn"
  PROVE  /\ frames = <<>> /\ regs.pc = "result" /\ InMain(regs)
         /\ regs.a7 \in Numbers \ {"rt_sigreturn", "any"}
         /\ RestartCode(regs.a7) \in RestartCodes
  <1>1. frames = <<>> /\ regs.pc = "result" /\ InMain(regs)
    BY DEF IInv, WhereInv, InHandler, InMain, Main, Inner
  <1>2. regs.a7 \in Numbers \ {"rt_sigreturn", "any"}
    BY <1>1 DEF IInv, SignalTypeOK, Registers, InMain
  <1>3. RestartCode(regs.a7) \in RestartCodes
    BY <1>2 DEF RestartCode, RestartCodes, Numbers
  <1> QED BY <1>1, <1>2, <1>3

LEMMA SigreturnFacts ==
  ASSUME IInv, mode = "call", regs.a7 = "rt_sigreturn"
  PROVE  /\ frames # <<>> /\ Len(frames) \in 1..Len(frames) /\ Len(frames) \in Nat
         /\ Top \in Frames /\ Top.pc # "after"
         /\ ~restore
  <1>1. frames # <<>> /\ ~restore /\ frames \in Seq(Frames)
    BY DEF IInv, WhereInv, MaskInv, InMain, SignalTypeOK
  <1>2. Len(frames) \in Nat /\ Len(frames) \in 1..Len(frames)
    BY <1>1
  <1>3. Top \in Frames BY <1>1, <1>2 DEF Top
  <1>4. Top.pc # "after"
    BY <1>1, <1>2 DEF Top, IInv, WhereInv, InMain, Main
  <1> QED BY <1>1, <1>2, <1>3, <1>4

\* The registers handle_signal saves in the frame.
Saved(sig) == IF FromSyscall(regs) THEN RestartForHandler(regs, sig) ELSE regs

NewFrame(sig) == [pc |-> Saved(sig).pc, a0 |-> Saved(sig).a0, a7 |-> Saved(sig).a7,
                  mask |-> MaskToSave, sig |-> sig]

Delivered(sig) ==
  /\ frames' = Append(frames, NewFrame(sig))
  /\ regs' = [Saved(sig) EXCEPT !.pc = "handler", !.a0 = "signal number"]
  /\ blocked' = blocked \cup {sig}
  /\ restore' = FALSE /\ saved' = {} /\ mode' = "exit"
  /\ handled' = handled \cup {sig}

Killed(sig) ==
  /\ mode' = "dead" /\ regs' = Saved(sig)
  /\ UNCHANGED <<frames, blocked, restore, saved, handled>>

LEMMA HandleSignalFacts ==
  ASSUME IInv, NEW sig \in Signals, HandleSignal(sig)
  PROVE  /\ mode = "exit" /\ tif /\ sig \in pending /\ sig \notin blocked
         /\ pending' = pending \ {sig}
         /\ tif' = Recalc(pending', blocked')
         /\ UNCHANGED <<fn, fresh, sends>>
         /\ Delivered(sig) \/ Killed(sig)
  BY DEF HandleSignal, Delivered, Killed, NewFrame, Saved, BlockedInHandler

LEMMA SavedFacts ==
  ASSUME IInv, mode = "exit", NEW sig \in Signals
  PROVE  /\ Saved(sig) \in Registers /\ Saved(sig).pc # "after"
         /\ frames = <<>> => /\ InMain(Saved(sig))
                             /\ Saved(sig).pc = "result" => Saved(sig).a0 \notin RestartCodes
         /\ frames # <<>> => Saved(sig) = regs /\ InHandler(regs)
         /\ NewFrame(sig) \in Frames
         /\ [Saved(sig) EXCEPT !.pc = "handler", !.a0 = "signal number"] \in Registers
  <1>1. /\ regs \in Registers /\ regs.pc # "after"
        /\ frames = <<>> => InMain(regs)
        /\ frames # <<>> => InHandler(regs)
        /\ regs.pc = "result" /\ regs.a0 \in RestartCodes => FromSyscall(regs)
        /\ MaskToSave \in SUBSET Signals
    BY DEF IInv, SignalTypeOK, WhereInv, CodeInv, MaskToSave
  <1>2. /\ Saved(sig) \in Registers
        /\ frames = <<>> => /\ InMain(Saved(sig))
                            /\ Saved(sig).pc = "result" => Saved(sig).a0 \notin RestartCodes
        /\ frames # <<>> => Saved(sig) = regs /\ InHandler(regs)
    <2>1. CASE FromSyscall(regs)
      BY <1>1, <2>1, RestartForHandlerRegs DEF Saved
    <2>2. CASE ~FromSyscall(regs)
      BY <1>1, <2>2 DEF Saved
    <2> QED BY <2>1, <2>2
  <1>3. Saved(sig).pc # "after"
    BY <1>1, <1>2 DEF InMain, Main
  <1>4. NewFrame(sig) \in Frames
    BY <1>1, <1>2 DEF NewFrame, Frames, Registers
  <1>5. [Saved(sig) EXCEPT !.pc = "handler", !.a0 = "signal number"] \in Registers
    BY <1>2 DEF Registers, Places, A0s
  <1> QED BY <1>1, <1>2, <1>3, <1>4, <1>5

LEMMA NoSignalFacts ==
  ASSUME IInv, NoSignal
  PROVE  /\ regs' \in Registers /\ regs'.pc # "after"
         /\ frames = <<>> => /\ InMain(regs')
                             /\ regs'.pc = "result" => regs'.a0 \notin RestartCodes
         /\ frames # <<>> => regs' = regs /\ InHandler(regs)
  <1>1. /\ regs \in Registers /\ regs.pc # "after"
        /\ frames = <<>> => InMain(regs)
        /\ frames # <<>> => InHandler(regs)
        /\ regs.pc = "result" /\ regs.a0 \in RestartCodes => FromSyscall(regs)
    BY DEF IInv, SignalTypeOK, WhereInv, CodeInv, NoSignal
  <1>2. /\ regs' \in Registers
        /\ frames = <<>> => /\ InMain(regs')
                            /\ regs'.pc = "result" => regs'.a0 \notin RestartCodes
        /\ frames # <<>> => regs' = regs /\ InHandler(regs)
    <2>1. CASE FromSyscall(regs)
      BY <1>1, <2>1, RestartWithoutHandlerRegs DEF NoSignal
    <2>2. CASE ~FromSyscall(regs)
      BY <1>1, <2>2 DEF NoSignal
    <2> QED BY <2>1, <2>2
  <1>3. regs'.pc # "after"
    BY <1>1, <1>2 DEF InMain, Main
  <1> QED BY <1>1, <1>2, <1>3

-----------------------------------------------------------------------------
LEMMA TypeStep == IInv /\ SignalNext => SignalTypeOK'
  <1> SUFFICES ASSUME IInv, SignalNext PROVE SignalTypeOK' OBVIOUS
  <1>0. SignalTypeOK BY DEF IInv
  <1>1. CASE SetArguments \/ UseResult \/ RunHandler
    <2>1. regs' \in Registers /\ regs'.pc # "after"
      BY <1>0, <1>1 DEF SignalTypeOK, SetArguments, UseResult, RunHandler,
                        Registers, Places, A0s, Numbers
    <2> QED BY <1>0, <1>1, <2>1 DEF SignalTypeOK, SetArguments, UseResult, RunHandler
  <1>2. CASE HandleSyscall \/ HandleInterrupt
    <2>1. regs' \in Registers /\ (regs'.pc = "after" => mode' = "call")
      BY <1>0, <1>2 DEF SignalTypeOK, HandleSyscall, HandleInterrupt, Registers, Places
    <2> QED BY <1>0, <1>2, <2>1 DEF SignalTypeOK, HandleSyscall, HandleInterrupt
  <1>3. CASE SigSuspend BY <1>0, <1>3 DEF SignalTypeOK, SigSuspend, Recalc
  <1>4. CASE CallDone \/ CallInterrupted
    <2>1. /\ regs.pc = "result" /\ RestartCode(regs.a7) \in RestartCodes
      BY <1>4, CallFacts DEF CallDone, CallInterrupted
    <2>2. /\ regs' \in Registers /\ regs'.pc = "result"
          /\ mode' = "exit" /\ fn' \in BOOLEAN
      BY <1>0, <1>4, <2>1 DEF SignalTypeOK, CallDone, CallInterrupted, RetFromSyscall,
                              Registers, A0s
    <2> QED BY <1>0, <1>4, <2>2 DEF SignalTypeOK, CallDone, CallInterrupted
  <1>5. CASE RtSigreturn
    <2>1. /\ Top \in Frames /\ Top.pc # "after"
          /\ frames # <<>> /\ Len(frames) \in Nat /\ Len(frames) \in 1..Len(frames)
      BY <1>5, SigreturnFacts DEF RtSigreturn
    <2>2. regs' \in Registers /\ regs'.pc # "after"
      BY <1>0, <1>5, <2>1 DEF SignalTypeOK, RtSigreturn, Frames, Registers
    <2>3. blocked' \in SUBSET Signals
      BY <1>5, <2>1 DEF RtSigreturn, Frames
    <2>4. frames' \in Seq(Frames)
      BY <1>0, <1>5, <2>1, SubSeqProperties DEF RtSigreturn, SignalTypeOK
    <2> QED BY <1>0, <1>5, <2>2, <2>3, <2>4 DEF SignalTypeOK, RtSigreturn, Recalc
  <1>6. CASE ReturnToUser
    <2>1. regs.pc # "after" BY <1>0, <1>6 DEF SignalTypeOK, ReturnToUser
    <2> QED BY <1>0, <1>6, <2>1 DEF SignalTypeOK, ReturnToUser
  <1>7. CASE NoSignal
    <2>1. regs' \in Registers /\ regs'.pc # "after" BY <1>7, NoSignalFacts
    <2> QED BY <1>0, <1>7, <2>1 DEF SignalTypeOK, NoSignal, MaskToSave, Recalc
  <1>8. ASSUME NEW sig \in Signals, HandleSignal(sig) PROVE SignalTypeOK'
    <2>1. /\ mode = "exit" /\ pending' = pending \ {sig}
          /\ tif' = Recalc(pending', blocked')
          /\ UNCHANGED <<fn, fresh, sends>>
          /\ Delivered(sig) \/ Killed(sig)
      BY <1>8, HandleSignalFacts
    <2>2. /\ Saved(sig) \in Registers /\ Saved(sig).pc # "after"
          /\ NewFrame(sig) \in Frames
          /\ [Saved(sig) EXCEPT !.pc = "handler", !.a0 = "signal number"] \in Registers
      BY <2>1, SavedFacts
    <2>3. CASE Delivered(sig)
      <3>1. regs' \in Registers /\ regs'.pc # "after"
        BY <2>2, <2>3 DEF Delivered, Registers
      <3>2. frames' \in Seq(Frames)
        BY <1>0, <2>2, <2>3, AppendProperties DEF Delivered, SignalTypeOK
      <3> QED BY <1>0, <2>1, <2>3, <3>1, <3>2 DEF SignalTypeOK, Delivered, Recalc
    <2>4. CASE Killed(sig)
      BY <1>0, <2>1, <2>2, <2>4 DEF SignalTypeOK, Killed, Recalc
    <2> QED BY <2>1, <2>3, <2>4
  <1>9. ASSUME NEW sig \in Signals, Send(sig) \/ TakenByOther(sig) PROVE SignalTypeOK'
    <2>1. sends' \in 0..MaxSends
      BY <1>0, <1>9 DEF SignalTypeOK, Send, TakenByOther
    <2>2. tif' \in BOOLEAN /\ pending' \in SUBSET Signals
      BY <1>0, <1>9 DEF SignalTypeOK, Send, TakenByOther
    <2> QED BY <1>0, <1>9, <2>1, <2>2 DEF SignalTypeOK, Send, TakenByOther
  <1> QED BY <1>1, <1>2, <1>3, <1>4, <1>5, <1>6, <1>7, <1>8, <1>9 DEF SignalNext

-----------------------------------------------------------------------------
\* What becomes of the stack of frames.

LEMMA Pushed ==
  ASSUME IInv, mode = "exit", NEW sig \in Signals, Delivered(sig)
  PROVE  /\ frames' # <<>> /\ Len(frames) \in Nat /\ Len(frames') = Len(frames) + 1
         /\ \A n \in 1..Len(frames) : n \in 1..Len(frames') /\ frames'[n] = frames[n]
         /\ frames'[Len(frames) + 1] = NewFrame(sig)
         /\ frames = <<>> <=> Len(frames) = 0
  <1>1. frames \in Seq(Frames) /\ NewFrame(sig) \in Frames
    BY SavedFacts DEF IInv, SignalTypeOK
  <1>2. frames' = Append(frames, NewFrame(sig)) BY DEF Delivered
  <1>3. Len(frames) \in Nat /\ (frames = <<>> <=> Len(frames) = 0) BY <1>1
  <1>4. /\ frames' # <<>> /\ Len(frames') = Len(frames) + 1
        /\ \A n \in 1..Len(frames) : frames'[n] = frames[n]
        /\ frames'[Len(frames) + 1] = NewFrame(sig)
    BY <1>1, <1>2, AppendProperties
  <1> QED BY <1>3, <1>4

LEMMA Popped ==
  ASSUME IInv, RtSigreturn
  PROVE  /\ Len(frames) \in Nat \ {0} /\ Len(frames') = Len(frames) - 1
         /\ \A n \in 1..Len(frames') : n \in 1..Len(frames) /\ frames'[n] = frames[n]
         /\ frames' = <<>> <=> Len(frames) = 1
         /\ Top = frames[Len(frames)]
  <1>1. frames \in Seq(Frames) /\ frames # <<>>
    BY SigreturnFacts DEF RtSigreturn, IInv, SignalTypeOK
  <1>2. Len(frames) \in Nat \ {0} BY <1>1
  <1>3. frames' = SubSeq(frames, 1, Len(frames) - 1) BY DEF RtSigreturn
  <1>4. \A n \in 1..Len(frames) - 1 : frames[n] \in Frames BY <1>1, <1>2
  <1>5. /\ frames' \in Seq(Frames) /\ Len(frames') = Len(frames) - 1
        /\ \A n \in 1..Len(frames) - 1 : frames'[n] = frames[n]
    <2> DEFINE k == Len(frames) - 1
    <2>1. k \in Nat /\ 1 \in Int /\ frames' = SubSeq(frames, 1, k) BY <1>2, <1>3
    <2>2. \A n \in 1..k : frames[n] \in Frames BY <1>4
    <2> HIDE DEF k
    <2>3. /\ frames' \in Seq(Frames) /\ Len(frames') = IF 1 <= k THEN k - 1 + 1 ELSE 0
          /\ \A n \in 1..k - 1 + 1 : frames'[n] = frames[1 + n - 1]
      BY <2>1, <2>2, SubSeqProperties
    <2>4. frames' \in Seq(Frames) /\ Len(frames') = k /\ \A n \in 1..k : frames'[n] = frames[n]
      BY <2>1, <2>3
    <2> QED BY <2>4 DEF k
  <1>6. frames' = <<>> <=> Len(frames') = 0 BY <1>5
  <1> QED BY <1>2, <1>5, <1>6 DEF Top

-----------------------------------------------------------------------------
LEMMA WhereStep == IInv /\ SignalNext => WhereInv'
  <1> SUFFICES ASSUME IInv, SignalNext PROVE WhereInv' OBVIOUS
  <1>0. WhereInv /\ SignalTypeOK BY DEF IInv
  <1> USE DEF InMain, InHandler, Main, Inner
  <1>1. CASE SetArguments \/ UseResult \/ RunHandler
    <2>1. /\ frames' = frames /\ mode' = "user"
          /\ IF frames = <<>> THEN InMain(regs') ELSE InHandler(regs')
      BY <1>0, <1>1 DEF WhereInv, SignalTypeOK, Registers, SetArguments, UseResult, RunHandler,
                        RestartCodes
    <2> QED BY <1>0, <2>1 DEF WhereInv
  <1>2. CASE HandleSyscall \/ HandleInterrupt
    <2>1. /\ frames' = frames /\ mode' \in {"call", "exit"}
          /\ mode' = "call" => regs'.pc \in {"result", "after"}
          /\ IF frames = <<>> THEN InMain(regs') ELSE InHandler(regs')
      BY <1>0, <1>2 DEF WhereInv, SignalTypeOK, Registers, HandleSyscall, HandleInterrupt
    <2> QED BY <1>0, <2>1 DEF WhereInv
  <1>3. CASE SigSuspend \/ ReturnToUser
    BY <1>0, <1>3 DEF WhereInv, SigSuspend, ReturnToUser
  <1>4. CASE CallDone \/ CallInterrupted
    <2>1. frames = <<>> /\ InMain(regs)
      BY <1>4, CallFacts DEF CallDone, CallInterrupted
    <2>2. /\ frames' = frames /\ mode' = "exit"
          /\ regs'.pc = regs.pc /\ regs'.a7 = regs.a7
      BY <1>0, <1>4 DEF SignalTypeOK, Registers, CallDone, CallInterrupted, RetFromSyscall
    <2> QED BY <1>0, <2>1, <2>2 DEF WhereInv
  <1>5. CASE RtSigreturn
    <2>1. /\ Len(frames) \in Nat \ {0} /\ Len(frames') = Len(frames) - 1
          /\ \A n \in 1..Len(frames') : n \in 1..Len(frames) /\ frames'[n] = frames[n]
          /\ frames' = <<>> <=> Len(frames) = 1
          /\ Top = frames[Len(frames)]
      BY <1>5, Popped
    <2>2. IF Len(frames) = 1 THEN InMain(Top) ELSE InHandler(Top) /\ Top.pc # "after"
      BY <1>0, <2>1 DEF WhereInv
    <2>3. regs'.pc = Top.pc /\ regs'.a0 = Top.a0 /\ regs'.a7 = Top.a7 /\ mode' = "exit"
      BY <1>0, <1>5 DEF RtSigreturn, SignalTypeOK, Registers
    <2>4. IF frames' = <<>> THEN InMain(regs') ELSE InHandler(regs')
      BY <2>1, <2>2, <2>3
    <2>5. \A n \in 1..Len(frames') :
             IF n = 1 THEN InMain(frames'[n])
             ELSE InHandler(frames'[n]) /\ frames'[n].pc # "after"
      BY <1>0, <2>1 DEF WhereInv
    <2> QED BY <2>3, <2>4, <2>5 DEF WhereInv
  <1>6. CASE NoSignal
    <2>1. frames' = frames /\ mode' = "exit" BY <1>6 DEF NoSignal
    <2>2. IF frames = <<>> THEN InMain(regs') ELSE InHandler(regs')
      BY <1>6, NoSignalFacts
    <2> QED BY <1>0, <2>1, <2>2 DEF WhereInv
  <1>7. ASSUME NEW sig \in Signals, HandleSignal(sig) PROVE WhereInv'
    <2>1. mode = "exit" /\ (Delivered(sig) \/ Killed(sig))
      BY <1>7, HandleSignalFacts
    <2>2. /\ Saved(sig) \in Registers /\ Saved(sig).pc # "after"
          /\ frames = <<>> => InMain(Saved(sig))
          /\ frames # <<>> => Saved(sig) = regs /\ InHandler(regs)
      BY <2>1, SavedFacts
    <2>3. CASE Delivered(sig)
      <3>1. /\ frames' # <<>> /\ Len(frames) \in Nat /\ Len(frames') = Len(frames) + 1
            /\ \A n \in 1..Len(frames) : n \in 1..Len(frames') /\ frames'[n] = frames[n]
            /\ frames'[Len(frames) + 1] = NewFrame(sig)
            /\ frames = <<>> <=> Len(frames) = 0
        BY <2>1, <2>3, Pushed
      <3>2. IF frames = <<>> THEN InMain(NewFrame(sig))
            ELSE InHandler(NewFrame(sig)) /\ NewFrame(sig).pc # "after"
        BY <2>2 DEF NewFrame
      <3>3. InHandler(regs') /\ mode' = "exit"
        BY <2>2, <2>3 DEF Delivered, Registers, RestartCodes
      <3>4. ASSUME NEW n \in 1..Len(frames')
            PROVE  IF n = 1 THEN InMain(frames'[n])
                   ELSE InHandler(frames'[n]) /\ frames'[n].pc # "after"
        <4>1. CASE n \in 1..Len(frames) BY <1>0, <3>1, <4>1 DEF WhereInv
        <4>2. CASE n = Len(frames) + 1 BY <3>1, <3>2, <4>2
        <4> QED BY <3>1, <4>1, <4>2
      <3> QED BY <3>1, <3>3, <3>4 DEF WhereInv
    <2>4. CASE Killed(sig)
      BY <1>0, <2>2, <2>4 DEF WhereInv, Killed
    <2> QED BY <2>1, <2>3, <2>4
  <1>8. ASSUME NEW sig \in Signals, Send(sig) \/ TakenByOther(sig) PROVE WhereInv'
    BY <1>0, <1>8 DEF WhereInv, Send, TakenByOther
  <1> QED BY <1>1, <1>2, <1>3, <1>4, <1>5, <1>6, <1>7, <1>8 DEF SignalNext

LEMMA MaskStep == IInv /\ SignalNext => MaskInv'
  <1> SUFFICES ASSUME IInv, SignalNext PROVE MaskInv' OBVIOUS
  <1>0. MaskInv BY DEF IInv
  <1>1. CASE SetArguments \/ UseResult \/ RunHandler \/ HandleSyscall \/ HandleInterrupt
    <2>1. mode = "user" /\ UNCHANGED <<frames, sigs>>
      BY <1>1 DEF SetArguments, UseResult, RunHandler, HandleSyscall, HandleInterrupt
    <2>2. ~restore BY <1>0, <2>1 DEF MaskInv
    <2> QED BY <1>0, <2>1, <2>2 DEF MaskInv, MaskToSave
  <1>2. CASE SigSuspend
    <2>1. frames = <<>> BY <1>2, CallFacts DEF SigSuspend
    <2> QED BY <1>0, <1>2, <2>1 DEF MaskInv, MaskToSave, SigSuspend
  <1>3. CASE CallDone \/ CallInterrupted
    <2>1. mode = "call" /\ (CallDone => regs.a7 # "sigsuspend") /\ (CallInterrupted => tif)
          /\ UNCHANGED <<frames, sigs>> /\ mode' = "exit"
      BY <1>3 DEF CallDone, CallInterrupted, RetFromSyscall
    <2>2. restore => frames = <<>> /\ tif
      BY <1>0, <1>3, <2>1 DEF MaskInv
    <2> QED BY <1>0, <2>1, <2>2 DEF MaskInv, MaskToSave
  <1>4. CASE RtSigreturn
    <2>1. ~restore /\ UNCHANGED mask /\ blocked' = Top.mask
      BY <1>4, SigreturnFacts DEF RtSigreturn
    <2>2. frames[1].mask = {}
      BY <1>0, <1>4, SigreturnFacts DEF MaskInv, RtSigreturn
    <2>3. CASE frames' = <<>>
      BY <1>4, <2>1, <2>2, <2>3, Popped DEF MaskInv, MaskToSave
    <2>4. CASE frames' # <<>>
      <3>1. frames'[1] = frames[1] BY <1>4, <2>4, Popped
      <3> QED BY <2>1, <2>2, <2>4, <3>1 DEF MaskInv
    <2> QED BY <2>3, <2>4
  <1>5. CASE ReturnToUser
    BY <1>0, <1>5 DEF MaskInv, MaskToSave, ReturnToUser
  <1>6. CASE NoSignal
    BY <1>0, <1>6 DEF MaskInv, MaskToSave, NoSignal
  <1>7. ASSUME NEW sig \in Signals, HandleSignal(sig) PROVE MaskInv'
    <2>1. mode = "exit" /\ (Delivered(sig) \/ Killed(sig))
      BY <1>7, HandleSignalFacts
    <2>2. CASE Delivered(sig)
      <3>1. /\ frames' # <<>> /\ ~restore'
            /\ frames'[1] = IF frames = <<>> THEN NewFrame(sig) ELSE frames[1]
        <4>1. /\ frames' # <<>> /\ Len(frames) \in Nat
              /\ \A n \in 1..Len(frames) : frames'[n] = frames[n]
              /\ frames'[Len(frames) + 1] = NewFrame(sig)
              /\ frames = <<>> <=> Len(frames) = 0
          BY <2>1, <2>2, Pushed
        <4>2. ~restore' BY <2>2 DEF Delivered
        <4>3. frames = <<>> => frames'[1] = NewFrame(sig) BY <4>1
        <4>4. frames # <<>> => frames'[1] = frames[1] BY <4>1
        <4> QED BY <4>1, <4>2, <4>3, <4>4
      <3>2. frames'[1].mask = {}
        BY <1>0, <3>1 DEF MaskInv, NewFrame
      <3> QED BY <3>1, <3>2 DEF MaskInv
    <2>3. CASE Killed(sig)
      BY <1>0, <2>3 DEF MaskInv, MaskToSave, Killed
    <2> QED BY <2>1, <2>2, <2>3
  <1>8. ASSUME NEW sig \in Signals, Send(sig) \/ TakenByOther(sig) PROVE MaskInv'
    <2>1. UNCHANGED <<mode, regs, frames, blocked, mask>> /\ (tif => tif')
      <3>1. CASE Send(sig) BY <3>1 DEF Send
      <3>2. CASE TakenByOther(sig) BY <3>2 DEF TakenByOther
      <3> QED BY <1>8, <3>1, <3>2
    <2> QED BY <1>0, <2>1 DEF MaskInv, MaskToSave
  <1> QED BY <1>1, <1>2, <1>3, <1>4, <1>5, <1>6, <1>7, <1>8 DEF SignalNext

LEMMA ChainStep == IInv /\ SignalNext => ChainInv'
  <1> SUFFICES ASSUME IInv, SignalNext PROVE ChainInv' OBVIOUS
  <1>0. ChainInv /\ MaskInv BY DEF IInv
  <1>1. CASE RtSigreturn
    <2>1. /\ Len(frames) \in Nat \ {0} /\ Len(frames') = Len(frames) - 1
          /\ \A n \in 1..Len(frames') : n \in 1..Len(frames) /\ frames'[n] = frames[n]
          /\ blocked' = frames[Len(frames)].mask
      BY <1>1, Popped DEF RtSigreturn
    <2>2. \A n \in 1..Len(frames') : n < Len(frames) BY <2>1
    <2>3. Len(frames) \in 1..Len(frames) BY <2>1
    <2>4. ASSUME NEW n \in 1..Len(frames') PROVE frames'[n].sig \in blocked'
      <3>1. n \in 1..Len(frames) /\ n < Len(frames) /\ frames'[n] = frames[n] BY <2>1, <2>2
      <3>2. frames[n].sig \in frames[Len(frames)].mask BY <1>0, <2>3, <3>1 DEF ChainInv
      <3> QED BY <2>1, <3>1, <3>2
    <2>5. ASSUME NEW m \in 1..Len(frames'), NEW n \in 1..Len(frames'), m < n
          PROVE  frames'[m].sig \in frames'[n].mask /\ frames'[n].sig \notin frames'[n].mask
      <3>1. m \in 1..Len(frames) /\ n \in 1..Len(frames) BY <2>1
      <3>2. frames'[m] = frames[m] /\ frames'[n] = frames[n] BY <2>1
      <3>3. frames[m].sig \in frames[n].mask /\ frames[n].sig \notin frames[n].mask
        BY <1>0, <2>5, <3>1 DEF ChainInv
      <3> QED BY <3>2, <3>3
    <2> QED BY <2>4, <2>5 DEF ChainInv
  <1>2. ASSUME NEW sig \in Signals, HandleSignal(sig) PROVE ChainInv'
    <2>1. mode = "exit" /\ sig \notin blocked /\ (Delivered(sig) \/ Killed(sig))
      BY <1>2, HandleSignalFacts
    <2>2. CASE Delivered(sig)
      <3>1. /\ frames' # <<>> /\ Len(frames) \in Nat /\ Len(frames') = Len(frames) + 1
            /\ \A n \in 1..Len(frames) : n \in 1..Len(frames') /\ frames'[n] = frames[n]
            /\ frames'[Len(frames) + 1] = NewFrame(sig)
            /\ frames = <<>> <=> Len(frames) = 0
        BY <2>1, <2>2, Pushed
      <3>2. frames # <<>> => MaskToSave = blocked
        BY <1>0 DEF MaskInv, MaskToSave
      <3>3. sig \notin MaskToSave
        BY <1>0, <2>1, <3>2 DEF MaskInv
      <3>4. NewFrame(sig).sig = sig /\ NewFrame(sig).mask = MaskToSave
        BY DEF NewFrame
      <3>5. \A n \in 1..Len(frames') : frames'[n].sig \in blocked'
        <4>1. \A n \in 1..Len(frames) : frames'[n].sig \in blocked'
          BY <1>0, <2>2, <3>1 DEF ChainInv, Delivered
        <4>2. frames'[Len(frames) + 1].sig \in blocked'
          BY <2>2, <3>1, <3>4 DEF Delivered
        <4> QED BY <3>1, <4>1, <4>2
      <3>6. ASSUME NEW m \in 1..Len(frames'), NEW n \in 1..Len(frames'), m < n
            PROVE  frames'[m].sig \in frames'[n].mask /\ frames'[n].sig \notin frames'[n].mask
        <4>1. m \in 1..Len(frames) BY <3>1, <3>6
        <4>2. CASE n \in 1..Len(frames) BY <1>0, <3>1, <3>6, <4>1, <4>2 DEF ChainInv
        <4>3. CASE n = Len(frames) + 1
          BY <1>0, <3>1, <3>2, <3>3, <3>4, <4>1, <4>3 DEF ChainInv
        <4> QED BY <3>1, <4>2, <4>3
      <3> QED BY <3>5, <3>6 DEF ChainInv
    <2>3. CASE Killed(sig) BY <1>0, <2>3 DEF ChainInv, Killed
    <2> QED BY <2>1, <2>2, <2>3
  <1>3. CASE SigSuspend
    <2>1. frames = <<>> /\ frames' = frames BY <1>3, CallFacts DEF SigSuspend
    <2> QED BY <2>1 DEF ChainInv
  <1>4. CASE NoSignal
    <2>1. frames' = frames /\ blocked' = MaskToSave BY <1>4 DEF NoSignal
    <2>2. frames # <<>> => MaskToSave = blocked BY <1>0 DEF MaskInv, MaskToSave
    <2> QED BY <1>0, <2>1, <2>2 DEF ChainInv
  <1>5. CASE UNCHANGED <<frames, blocked>> BY <1>0, <1>5 DEF ChainInv
  <1>6. \/ RtSigreturn \/ SigSuspend \/ NoSignal \/ UNCHANGED <<frames, blocked>>
        \/ \E sig \in Signals : HandleSignal(sig)
    BY DEF SignalNext, SetArguments, UseResult, RunHandler, HandleSyscall, HandleInterrupt,
           CallDone, CallInterrupted, ReturnToUser, Send, TakenByOther
  <1> QED BY <1>1, <1>2, <1>3, <1>4, <1>5, <1>6

LEMMA CodeStep == IInv /\ SignalNext => CodeInv'
  <1> SUFFICES ASSUME IInv, SignalNext PROVE CodeInv' OBVIOUS
  <1>0. CodeInv /\ SignalTypeOK BY DEF IInv
  <1> DEFINE HasCode == regs.pc = "result" /\ regs.a0 \in RestartCodes
             StackClean == \A n \in 1..Len(frames) :
                               frames[n].pc = "result" => frames[n].a0 \notin RestartCodes
  <1>1. ASSUME StackClean', mode' = "user" => ~HasCode',
               mode' = "exit" /\ HasCode' => tif' /\ FromSyscall(regs)',
               mode' = "call" => FromSyscall(regs)'
        PROVE  CodeInv'
    BY <1>1 DEF CodeInv, NoCodeLeaks
  <1>2. StackClean /\ (mode = "user" => ~HasCode)
    BY <1>0 DEF CodeInv, NoCodeLeaks
  <1>3. ASSUME UNCHANGED frames PROVE StackClean' BY <1>2, <1>3
  <1>4. CASE SetArguments \/ UseResult \/ RunHandler
    <2>1. UNCHANGED frames /\ mode' = "user" /\ ~HasCode'
      BY <1>0, <1>4 DEF SetArguments, UseResult, RunHandler, SignalTypeOK, Registers
    <2> QED BY <1>1, <1>3, <2>1
  <1>5. CASE HandleSyscall
    <2>1. UNCHANGED frames /\ mode' = "call" /\ FromSyscall(regs)'
      BY <1>0, <1>5 DEF HandleSyscall, SignalTypeOK, Registers, FromSyscall
    <2> QED BY <1>1, <1>3, <2>1
  <1>6. CASE HandleInterrupt
    <2>1. UNCHANGED frames /\ mode' = "exit" /\ ~HasCode'
      BY <1>0, <1>2, <1>6 DEF HandleInterrupt, SignalTypeOK, Registers
    <2> QED BY <1>1, <1>3, <2>1
  <1>7. CASE SigSuspend
    <2>1. UNCHANGED <<frames, mode, regs>> /\ mode = "call" BY <1>7 DEF SigSuspend
    <2> QED BY <1>0, <1>1, <1>3, <2>1 DEF CodeInv, FromSyscall
  <1>8. CASE CallDone \/ CallInterrupted
    <2>1. /\ UNCHANGED <<frames, tif>> /\ mode' = "exit" /\ mode = "call"
          /\ regs'.scause = regs.scause
      BY <1>0, <1>8 DEF CallDone, CallInterrupted, RetFromSyscall, SignalTypeOK, Registers
    <2>2. FromSyscall(regs)' BY <1>0, <2>1 DEF CodeInv, FromSyscall
    <2>3. CASE CallDone
      <3>1. ~HasCode'
        BY <1>0, <2>3 DEF CallDone, RetFromSyscall, SignalTypeOK, Registers, RestartCodes
      <3> QED BY <1>1, <1>3, <2>1, <3>1
    <2>4. CASE CallInterrupted
      <3>1. tif' BY <2>1, <2>4 DEF CallInterrupted
      <3> QED BY <1>1, <1>3, <2>1, <2>2, <3>1
    <2> QED BY <1>8, <2>3, <2>4
  <1>9. CASE RtSigreturn
    <2>1. /\ Len(frames) \in Nat \ {0} /\ Len(frames') = Len(frames) - 1
          /\ \A n \in 1..Len(frames') : n \in 1..Len(frames) /\ frames'[n] = frames[n]
          /\ Top = frames[Len(frames)]
      BY <1>9, Popped
    <2>2. StackClean' BY <1>2, <2>1
    <2>3. regs'.pc = Top.pc /\ regs'.a0 = Top.a0 /\ mode' = "exit"
      BY <1>0, <1>9 DEF RtSigreturn, SignalTypeOK, Registers
    <2>4. ~HasCode' BY <1>2, <2>1, <2>3
    <2> QED BY <1>1, <2>2, <2>3, <2>4
  <1>10. CASE ReturnToUser
    <2>1. UNCHANGED <<frames, regs>> /\ mode' = "user" /\ ~tif /\ mode = "exit"
      BY <1>10 DEF ReturnToUser
    <2>2. ~HasCode' BY <1>0, <2>1 DEF CodeInv
    <2> QED BY <1>1, <1>3, <2>1, <2>2
  <1>11. CASE NoSignal
    <2>1. UNCHANGED frames /\ mode' = "exit" BY <1>11 DEF NoSignal
    <2>2. ~HasCode' BY <1>11, NoSignalFacts DEF InHandler, Inner
    <2> QED BY <1>1, <1>3, <2>1, <2>2
  <1>12. ASSUME NEW sig \in Signals, HandleSignal(sig) PROVE CodeInv'
    <2>1. mode = "exit" /\ (Delivered(sig) \/ Killed(sig))
      BY <1>12, HandleSignalFacts
    <2>2. CASE Delivered(sig)
      <3>1. /\ Len(frames) \in Nat /\ Len(frames') = Len(frames) + 1
            /\ \A n \in 1..Len(frames) : frames'[n] = frames[n]
            /\ frames'[Len(frames) + 1] = NewFrame(sig)
        BY <2>1, <2>2, Pushed
      <3>2. NewFrame(sig).pc = "result" => NewFrame(sig).a0 \notin RestartCodes
        BY <2>1, SavedFacts DEF NewFrame, InHandler, Inner
      <3>3. \A n \in 1..Len(frames') : n \in 1..Len(frames) \/ n = Len(frames) + 1
        BY <3>1
      <3>4. StackClean' BY <1>2, <3>1, <3>2, <3>3
      <3>5. mode' = "exit" /\ ~HasCode'
        BY <2>1, <2>2, SavedFacts DEF Delivered, Registers
      <3> QED BY <1>1, <3>4, <3>5
    <2>3. CASE Killed(sig)
      BY <1>1, <1>3, <2>3 DEF Killed
    <2> QED BY <2>1, <2>2, <2>3
  <1>13. ASSUME NEW sig \in Signals, Send(sig) \/ TakenByOther(sig) PROVE CodeInv'
    <2>1. UNCHANGED <<mode, regs, frames>> /\ (tif => tif')
      <3>1. CASE Send(sig) BY <3>1 DEF Send
      <3>2. CASE TakenByOther(sig) BY <3>2 DEF TakenByOther
      <3> QED BY <1>13, <3>1, <3>2
    <2> QED BY <1>0, <2>1 DEF CodeInv, NoCodeLeaks, FromSyscall
  <1> QED BY <1>4, <1>5, <1>6, <1>7, <1>8, <1>9, <1>10, <1>11, <1>12, <1>13 DEF SignalNext

LEMMA ResultStep == IInv /\ SignalNext => ResultInv'
  <1> SUFFICES ASSUME IInv, SignalNext PROVE ResultInv' OBVIOUS
  <1>0. ResultInv /\ WhereInv /\ SignalTypeOK BY DEF IInv
  <1> USE DEF InMain, InHandler, Main, Inner
  <1>1. CASE SetArguments \/ UseResult
    <2>1. frames = <<>> /\ frames' = frames /\ mode' = "user"
      BY <1>0, <1>1 DEF SetArguments, UseResult, WhereInv
    <2>2. regs'.a0 # "EINTR" /\ regs'.a7 # "restart_syscall"
      BY <1>0, <1>1 DEF SetArguments, UseResult, SignalTypeOK, Registers
    <2> QED BY <2>1, <2>2 DEF ResultInv, Excused
  <1>2. CASE RunHandler
    <2>1. /\ frames # <<>> /\ mode' = "user" /\ UNCHANGED <<frames, prog, fn>>
      BY <1>0, <1>2 DEF RunHandler, WhereInv
    <2> QED BY <1>0, <2>1 DEF ResultInv, Excused
  <1>3. CASE HandleSyscall
    <2>1. /\ mode = "user" /\ mode' = "call" /\ UNCHANGED <<frames, prog, fn>>
          /\ regs'.a7 = regs.a7 /\ regs.pc # "arguments"
      BY <1>0, <1>3 DEF HandleSyscall, SignalTypeOK, Registers
    <2> QED BY <1>0, <2>1 DEF ResultInv, Excused
  <1>4. CASE HandleInterrupt
    <2>1. /\ mode = "user" /\ mode' = "exit" /\ UNCHANGED <<frames, prog, fn>>
          /\ regs'.a7 = regs.a7 /\ regs'.a0 = regs.a0 /\ regs'.pc = regs.pc
      BY <1>0, <1>4 DEF HandleInterrupt, SignalTypeOK, Registers
    <2>2. regs.pc = "result" => regs.a0 \notin RestartCodes
      BY <2>1 DEF IInv, CodeInv, NoCodeLeaks
    <2> QED BY <1>0, <2>1, <2>2 DEF ResultInv, Excused
  <1>5. CASE SigSuspend
    BY <1>0, <1>5 DEF SigSuspend, ResultInv, Excused
  <1>6. CASE CallDone
    <2>1. /\ frames = <<>> /\ frames' = frames /\ UNCHANGED <<prog, fn>>
          /\ mode = "call" /\ mode' = "exit"
      BY <1>6, CallFacts DEF CallDone, RetFromSyscall
    <2>2. /\ regs'.a7 = regs.a7
          /\ regs'.a0 = IF regs.a7 = "restart_syscall" /\ ~fn THEN "EINTR" ELSE "value"
      BY <1>0, <1>6 DEF CallDone, RetFromSyscall, SignalTypeOK, Registers
    <2> QED BY <1>0, <2>1, <2>2 DEF ResultInv, Excused, RestartCodes
  <1>7. CASE CallInterrupted
    <2>1. /\ frames = <<>> /\ frames' = frames /\ UNCHANGED prog
          /\ mode = "call" /\ mode' = "exit" /\ (regs.a7 = "restart_syscall" => fn)
          /\ RestartCode(regs.a7) \in RestartCodes
      BY <1>7, CallFacts DEF CallInterrupted, RetFromSyscall
    <2>2. /\ fn => fn'
          /\ RestartCode(regs.a7) = "ERESTART_RESTARTBLOCK" => fn'
      BY <1>7 DEF CallInterrupted
    <2>3. regs'.a7 = regs.a7 /\ regs'.a0 = RestartCode(regs.a7)
      BY <1>0, <1>7 DEF CallInterrupted, RetFromSyscall, SignalTypeOK, Registers
    <2> QED BY <1>0, <2>1, <2>2, <2>3 DEF ResultInv, Excused, RestartCodes
  <1>8. CASE RtSigreturn
    <2>1. /\ Len(frames) \in Nat \ {0} /\ Len(frames') = Len(frames) - 1
          /\ \A n \in 1..Len(frames') : n \in 1..Len(frames) /\ frames'[n] = frames[n]
          /\ frames' = <<>> <=> Len(frames) = 1
          /\ Top = frames[Len(frames)]
      BY <1>8, Popped
    <2>2. handled # {} /\ handled' = handled /\ mode' = "exit" /\ Excused(frames[1])
      BY <1>0, <1>8, SigreturnFacts DEF RtSigreturn, ResultInv
    <2>3. regs'.pc = Top.pc /\ regs'.a0 = Top.a0 /\ regs'.a7 = Top.a7
      BY <1>0, <1>8 DEF RtSigreturn, SignalTypeOK, Registers
    <2>4. regs'.pc = "result" => regs'.a0 \notin RestartCodes
      <3>1. Len(frames) \in 1..Len(frames) BY <2>1
      <3>2. Top.pc = "result" => Top.a0 \notin RestartCodes
        BY <2>1, <3>1 DEF IInv, CodeInv, NoCodeLeaks
      <3> QED BY <2>3, <3>2
    <2>5. frames' # <<>> => frames'[1] = frames[1]
      BY <2>1
    <2> QED BY <2>1, <2>2, <2>3, <2>4, <2>5 DEF ResultInv, Excused
  <1>9. CASE ReturnToUser
    BY <1>0, <1>9 DEF ReturnToUser, ResultInv, Excused
  <1>10. CASE NoSignal
    <2>1. /\ mode = "exit" /\ mode' = "exit" /\ UNCHANGED <<frames, prog, fn>>
          /\ regs' = IF FromSyscall(regs) THEN RestartWithoutHandler(regs) ELSE regs
      BY <1>10 DEF NoSignal
    <2>2. regs'.pc = "result" => regs'.a0 \notin RestartCodes
      BY <1>10, NoSignalFacts
    <2>3. CASE frames # <<>>
      BY <1>0, <2>1, <2>2, <2>3 DEF ResultInv, Excused
    <2>4. CASE frames = <<>> /\ regs' = regs
      BY <1>0, <2>1, <2>2, <2>4 DEF ResultInv, Excused
    <2>5. CASE frames = <<>> /\ regs' # regs
      <3>1. /\ Rewind(regs).pc = "ecall" => regs.pc = "result"
            /\ Rewind(regs).pc \in {"arguments", "ecall"}
            /\ Rewind(regs) \in Registers /\ Rewind(regs).a7 = regs.a7
        BY <1>0, <2>5, RewindRegs DEF SignalTypeOK, WhereInv
      <3>2. CASE regs.a0 \in {"ERESTARTNOHAND", "ERESTARTSYS", "ERESTARTNOINTR"}
        <4>1. regs' = Rewind(regs) BY <2>1, <2>5, <3>2 DEF RestartWithoutHandler
        <4> QED BY <1>0, <2>1, <2>2, <2>5, <3>1, <4>1 DEF ResultInv, Excused
      <3>3. CASE regs.a0 = "ERESTART_RESTARTBLOCK"
        <4>1. regs' = [Rewind(regs) EXCEPT !.a7 = "restart_syscall"]
          BY <2>1, <2>5, <3>3 DEF RestartWithoutHandler
        <4>2. regs'.pc = Rewind(regs).pc BY <3>1, <4>1 DEF Registers
        <4>3. regs'.pc = "ecall" => fn
          BY <1>0, <2>1, <3>1, <3>3, <4>2 DEF ResultInv, RestartCodes
        <4> QED BY <1>0, <2>1, <2>2, <2>5, <3>1, <4>2, <4>3 DEF ResultInv, Excused
      <3>4. regs.a0 \in RestartCodes
        BY <2>1, <2>5 DEF RestartWithoutHandler, RestartCodes
      <3> QED BY <3>2, <3>3, <3>4 DEF RestartCodes
    <2> QED BY <2>3, <2>4, <2>5
  <1>11. ASSUME NEW sig \in Signals, HandleSignal(sig) PROVE ResultInv'
    <2>1. mode = "exit" /\ UNCHANGED fn /\ (Delivered(sig) \/ Killed(sig))
      BY <1>11, HandleSignalFacts
    <2>2. CASE Delivered(sig)
      <3>1. /\ frames' # <<>> /\ Len(frames) \in Nat
            /\ \A n \in 1..Len(frames) : frames'[n] = frames[n]
            /\ frames'[Len(frames) + 1] = NewFrame(sig)
            /\ frames = <<>> <=> Len(frames) = 0
        BY <2>1, <2>2, Pushed
      <3>2. mode' = "exit" /\ handled' = handled \cup {sig} /\ regs'.pc # "result"
        BY <2>1, <2>2, SavedFacts DEF Delivered, Registers
      <3>3. CASE frames # <<>>
        <4>1. frames'[1] = frames[1] BY <3>1, <3>3
        <4> QED BY <1>0, <3>1, <3>2, <3>3, <4>1 DEF ResultInv, Excused
      <3>4. CASE frames = <<>>
        <4>1. frames'[1] = NewFrame(sig) BY <3>1, <3>4
        <4>2. ASSUME Saved(sig).pc = "result", Saved(sig).a0 = "EINTR", Saved(sig).a7 = "read"
              PROVE  ~ handled' \subseteq SaRestart
          <5>1. CASE Saved(sig) = regs
            <6>1. ~ handled \subseteq SaRestart
              BY <1>0, <2>1, <3>4, <4>2, <5>1 DEF ResultInv, Excused
            <6> QED BY <3>2, <6>1
          <5>2. CASE Saved(sig) # regs
            <6>1. Saved(sig) = RestartForHandler(regs, sig) BY <5>2 DEF Saved
            <6>2. CASE Saved(sig) = [regs EXCEPT !.a0 = "EINTR"]
              <7>1. regs.pc = "result" /\ regs.a7 = "read"
                BY <1>0, <4>2, <6>2 DEF SignalTypeOK, Registers
              <7>2. regs.a0 \in RestartCodes
                BY <5>2, <6>1 DEF RestartForHandler, RestartCodes
              <7>3. regs.a0 = "ERESTARTSYS"
                BY <1>0, <2>1, <7>1, <7>2 DEF ResultInv, RestartCode
              <7>4. sig \in SaRestart => Saved(sig) = Rewind(regs)
                BY <6>1, <7>3 DEF RestartForHandler
              <7>5. Rewind(regs).a0 = regs.a0 BY <1>0, RewindRegs DEF SignalTypeOK
              <7>6. sig \notin SaRestart BY <4>2, <7>3, <7>4, <7>5
              <7> QED BY <3>2, <7>6
            <6>3. CASE Saved(sig) = Rewind(regs)
              <7>1. Rewind(regs).pc # "result"
                BY <1>0, <3>4, RewindRegs DEF SignalTypeOK, WhereInv
              <7> QED BY <4>2, <6>3, <7>1
            <6>4. Saved(sig) \in {regs, Rewind(regs), [regs EXCEPT !.a0 = "EINTR"]}
              BY <6>1 DEF RestartForHandler
            <6> QED BY <5>2, <6>2, <6>3, <6>4
          <5> QED BY <5>1, <5>2
        <4>3. /\ frames'[1].pc = Saved(sig).pc /\ frames'[1].a0 = Saved(sig).a0
              /\ frames'[1].a7 = Saved(sig).a7
          BY <4>1 DEF NewFrame
        <4>4. Excused(frames[1])' BY <3>2, <4>2, <4>3 DEF Excused
        <4> QED BY <3>1, <3>2, <4>4 DEF ResultInv
      <3> QED BY <3>3, <3>4
    <2>3. CASE Killed(sig)
      BY <1>0, <2>1, <2>3 DEF Killed, ResultInv, Excused
    <2> QED BY <2>1, <2>2, <2>3
  <1>12. ASSUME NEW sig \in Signals, Send(sig) \/ TakenByOther(sig) PROVE ResultInv'
    BY <1>0, <1>12 DEF Send, TakenByOther, ResultInv, Excused
  <1> QED BY <1>1, <1>2, <1>3, <1>4, <1>5, <1>6, <1>7, <1>8, <1>9, <1>10, <1>11, <1>12
      DEF SignalNext

LEMMA PendingStep == IInv /\ SignalNext => PendingIsFlagged'
  <1> SUFFICES ASSUME IInv, SignalNext PROVE PendingIsFlagged' OBVIOUS
  <1>0. PendingIsFlagged /\ SignalTypeOK BY DEF IInv
  <1>1. ASSUME tif' = Recalc(pending', blocked') PROVE PendingIsFlagged'
    BY <1>1 DEF PendingIsFlagged, Recalc
  <1>2. CASE SigSuspend \/ RtSigreturn \/ NoSignal
    BY <1>1, <1>2 DEF SigSuspend, RtSigreturn, NoSignal
  <1>3. ASSUME NEW sig \in Signals, HandleSignal(sig) PROVE PendingIsFlagged'
    BY <1>1, <1>3, HandleSignalFacts
  <1>4. ASSUME NEW sig \in Signals, Send(sig) PROVE PendingIsFlagged'
    <2>1. /\ mode # "dead" /\ pending' = pending \cup {sig} /\ blocked' = blocked
          /\ sig \notin blocked => tif'
      BY <1>4 DEF Send
    <2>2. tif => tif' BY <1>4 DEF Send
    <2> QED BY <1>0, <2>1, <2>2 DEF PendingIsFlagged
  <1>5. ASSUME NEW sig \in Signals, TakenByOther(sig) PROVE PendingIsFlagged'
    BY <1>0, <1>5 DEF TakenByOther, PendingIsFlagged
  <1>6. CASE mode # "dead" /\ UNCHANGED sigs
    BY <1>0, <1>6 DEF PendingIsFlagged
  <1>7. \/ SigSuspend \/ RtSigreturn \/ NoSignal \/ (mode # "dead" /\ UNCHANGED sigs)
        \/ \E sig \in Signals : HandleSignal(sig) \/ Send(sig) \/ TakenByOther(sig)
    BY DEF SignalNext, SetArguments, UseResult, RunHandler, HandleSyscall, HandleInterrupt,
           CallDone, CallInterrupted, ReturnToUser
  <1> QED BY <1>2, <1>3, <1>4, <1>5, <1>6, <1>7

-----------------------------------------------------------------------------
\* The invariant is inductive, and holds throughout.
THEOREM Invariance == SignalSpec => []IInv
  <1>1. IInv /\ UNCHANGED signalVars => IInv'
    BY DEF IInv, signalVars, SignalTypeOK, WhereInv, MaskInv, MaskToSave, ChainInv, CodeInv,
           NoCodeLeaks, ResultInv, Excused, PendingIsFlagged, FromSyscall, InMain, InHandler
  <1>2. IInv /\ [SignalNext]_signalVars => IInv'
    BY <1>1, TypeStep, WhereStep, MaskStep, ChainStep, CodeStep, ResultStep, PendingStep
    DEF IInv
  <1> QED BY <1>2, InitIInv, PTL DEF SignalSpec

\* Registers, frames, masks and flags keep their types; in particular
\* rt_sigreturn always finds a frame to return to.
THEOREM TypeCorrect == SignalSpec => []SignalTypeOK
  <1>1. IInv => SignalTypeOK BY DEF IInv
  <1> QED BY <1>1, Invariance, PTL

\* No program ever sees one of the kernel's restart codes as the result of a
\* call, however many handlers are stacked on the interrupted call.
THEOREM NoCodeLeaksCorrect == SignalSpec => []NoCodeLeaks
  <1>1. IInv => NoCodeLeaks BY DEF IInv, CodeInv
  <1> QED BY <1>1, Invariance, PTL

\* No call fails with EINTR unless a handler ran meanwhile, and no read unless
\* one without SA_RESTART did.
THEOREM EintrMeansHandledCorrect == SignalSpec => []EintrMeansHandled
  <1>1. IInv => EintrMeansHandled
    BY DEF IInv, WhereInv, InHandler, Inner, ResultInv, Excused, EintrMeansHandled
  <1> QED BY <1>1, Invariance, PTL

\* The mask that sigsuspend waits with never outlives the way back to the
\* program, whether a handler runs or not.
THEOREM MaskRestoredCorrect == SignalSpec => []MaskRestored
  <1>1. IInv => MaskRestored BY DEF IInv, MaskInv, MaskToSave, MaskRestored
  <1> QED BY <1>1, Invariance, PTL

\* No handler runs on top of itself: no two frames are of the same signal.
THEOREM NoReentryCorrect == SignalSpec => []NoReentry
  <1>1. IInv => NoReentry
    <2> SUFFICES ASSUME IInv, NEW m \in 1..Len(frames), NEW n \in 1..Len(frames),
                        frames[m].sig = frames[n].sig, m # n
                 PROVE  FALSE
      BY DEF NoReentry
    <2>1. m < n \/ n < m OBVIOUS
    <2> QED BY <2>1 DEF IInv, ChainInv
  <1> QED BY <1>1, Invariance, PTL

\* A signal that can be delivered is never forgotten by the return path.
THEOREM PendingIsFlaggedCorrect == SignalSpec => []PendingIsFlagged
  <1>1. IInv => PendingIsFlagged BY DEF IInv
  <1> QED BY <1>1, Invariance, PTL
=============================================================================
