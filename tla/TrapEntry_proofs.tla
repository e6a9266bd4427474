-------------------------- MODULE TrapEntry_proofs --------------------------
(***************************************************************************)
(* For any tasks, forks, kernel threads and work, entry.S keeps sscratch,  *)
(* the current pointer and the stacks of nested traps right, and never     *)
(* goes to user mode over pending work, whatever interrupts come and       *)
(* whatever handlers fault.                                                *)
(***************************************************************************)
EXTENDS TrapEntry, FiniteSetTheorems, SequenceTheorems, TLAPS

\* What runs with interrupts off and with interrupts on; a fault's handler and
\* the way back to ret_from_exception may be either.
OffStages == {"irq", "check", "restore", "resched", "vmalloc"}
OnStages  == {"softirq", "syscall", "notify", "kthread"}

\* How many frames fit under a handler and its own: two for every interrupt that
\* is being handled, and two for the process.
Height2(f) == f.level + f.level

\* Frame n of the stack of t leads back to where its trap came from: to user
\* mode, an idle loop or process context with interrupts on; work is only looked
\* for, and calls made, below a user frame.  Its level counts the interrupts
\* below which it is, and bounds its height.
FrameOK(t, n, f) ==
    /\ IF f.user THEN n = 1 /\ f.sp = UserSp(t)
       ELSE f.sp = <<t, n - 1>> \/ (n = 1 /\ f.stage = "kthread")
    /\ ~f.pie => n > 1 /\ f.stage \in {"fault", "vmalloc", "ret", "restore"}
    /\ f.stage \in {"syscall", "check", "resched", "notify"} => f.user
    /\ f.stage = "kthread" => n = 1
    /\ f.user \/ f.stage = "kthread" =>
          f.level = IF f.stage \in {"irq", "softirq"} THEN 1 ELSE 0
    /\ f.stage = "irq" => f.level >= 1 /\ n <= Height2(f) + 1
    /\ f.stage = "softirq" => f.level = 1 /\ n <= 3
    /\ f.stage = "fault" => n <= Height2(f) + 2
    /\ n <= Height2(f) + 3

\* The handler of frame f, the n-th, runs or goes on with interrupts on or off.
Fits(on, n, f) ==
    /\ f.stage \in OffStages => ~on
    /\ f.stage \in OnStages => on
    /\ ~f.pie => ~on
    /\ on => f.level <= 1 /\ n <= Height2(f) + 2

\* What may be below another trap, or switched out.
Suspended(f) == f.stage \in OnStages \cup {"irq", "fault", "resched", "ret"}

StackInv ==
    \A t \in Tasks : \A n \in 1..Len(stack[t]) :
        /\ FrameOK(t, n, stack[t][n])
        /\ n < Len(stack[t]) => /\ Suspended(stack[t][n])
                                /\ Fits(stack[t][n + 1].pie, n, stack[t][n])
        /\ t # tp /\ n = Len(stack[t]) => /\ Suspended(stack[t][n])
                                          /\ Fits(TRUE, n, stack[t][n])

\* Whatever trapped inside an interrupt handler had interrupts off.
IrqInv ==
    \A t \in Tasks : \A m, n \in 1..Len(stack[t]) :
        m < n /\ stack[t][m].stage = "irq" => ~stack[t][n].pie

\* The frame f at the top of the current stack, of n frames, fits the registers.
TopOK(n, f) ==
    /\ Fits(ie, n, f)
    /\ sscratch = IF f.stage = "restore" /\ f.user THEN <<tp, 0>> ELSE Zero
    /\ f.stage = "restore" /\ f.user => flags[tp] = {}

UserInv ==
    priv = "user" =>
        /\ sp = UserSp(tp) /\ sscratch = <<tp, 0>> /\ stack[tp] = <<>>
        /\ ie /\ flags[tp] = {}

KernelInv ==
    priv = "kernel" =>
        /\ sp = <<tp, Len(stack[tp])>>
        /\ IF stack[tp] = <<>> THEN ie /\ sscratch = Zero
           ELSE TopOK(Len(stack[tp]), stack[tp][Len(stack[tp])])

\* thread.sp is set exactly for the tasks that exist and are switched out.
ThreadInv ==
    /\ thread[tp] = Zero
    /\ \A t \in Tasks \ {tp} :
          \/ thread[t] = Zero /\ stack[t] = <<>>
          \/ thread[t] = <<t, Len(stack[t])>>

IInv == TrapTypeOK /\ StackInv /\ IrqInv /\ UserInv /\ KernelInv /\ ThreadInv

USE TrapAssumption DEF Zero, UserSp

-----------------------------------------------------------------------------
\* Stack pointers, and the frame at the top of the stack.

Top == stack[tp][Len(stack[tp])]

LEMMA Pointers ==
  ASSUME NEW t \in Tasks, NEW n \in -1..7
  PROVE  /\ <<t, n>> \in StackPointers /\ <<t, n>> # <<>>
         /\ <<t, n>>[1] = t /\ <<t, n>>[2] = n
  BY DEF StackPointers, MaxNesting

LEMMA Bottoms ==
  ASSUME NEW t \in Tasks
  PROVE  UserSp(t) \in StackPointers /\ <<t, 0>> \in StackPointers /\ <<t, 1>> \in StackPointers
  <1>1. -1 \in -1..7 /\ 0 \in -1..7 /\ 1 \in -1..7 OBVIOUS
  <1> QED BY <1>1, Pointers

\* How many traps are on the stack of t.
Height(t) == Len(stack[t])

LEMMA StackType ==
  ASSUME TrapTypeOK, NEW t \in Tasks
  PROVE  /\ stack[t] \in Seq(TrapFrames) /\ Len(stack[t]) \in Nat
         /\ Height(t) = Len(stack[t]) /\ Height(t) \in Nat
         /\ \A n \in 1..Height(t) : stack[t][n] \in TrapFrames
         /\ stack[t] = <<>> <=> Height(t) = 0
  <1>1. stack[t] \in Seq(TrapFrames) BY DEF TrapTypeOK
  <1> QED BY <1>1, LenProperties, EmptySeq DEF Height

\* A frame at height n has at most two interrupts below it.
LEMMA FrameHeight ==
  ASSUME NEW t \in Tasks, NEW n \in Nat, NEW f \in TrapFrames, FrameOK(t, n, f)
  PROVE  n <= 7
  <1>1. f.level \in 0..2 BY DEF TrapFrames
  <1>2. n <= f.level + f.level + 3 BY DEF FrameOK, Height2
  <1> QED BY ONLY <1>1, <1>2, n \in Nat

LEMMA Short ==
  ASSUME IInv, NEW t \in Tasks
  PROVE  Height(t) \in 0..7
  <1>1. Height(t) \in Nat /\ Height(t) = Len(stack[t]) BY StackType DEF IInv
  <1>2. CASE Height(t) = 0 BY <1>2
  <1>3. CASE Height(t) # 0
    <2>1. Height(t) \in 1..Height(t) BY <1>1, <1>3
    <2>2. stack[t][Height(t)] \in TrapFrames BY <2>1, StackType DEF IInv
    <2>3. FrameOK(t, Height(t), stack[t][Height(t)]) BY <1>1, <2>1 DEF IInv, StackInv
    <2>4. Height(t) <= 7 BY <1>1, <2>2, <2>3, FrameHeight
    <2>5. \A n \in Nat : n <= 7 => n \in 0..7 OBVIOUS
    <2> QED BY <1>1, <2>4, <2>5
  <1> QED BY <1>2, <1>3

\* Where the kernel runs.
LEMMA Where ==
  ASSUME IInv, priv = "kernel"
  PROVE  /\ tp \in Tasks /\ Owner = tp /\ Depth = Len(stack[tp]) /\ Depth \in 0..7
         /\ Depth = Height(tp) /\ sp = <<tp, Depth>>
         /\ stack[tp] = <<>> <=> Depth = 0
         /\ Stage = IF stack[tp] = <<>> THEN "idle" ELSE Top.stage
         /\ Level = IF stack[tp] = <<>> THEN 0 ELSE Top.level
         /\ stack[tp] # <<>> =>
              /\ Depth \in 1..Depth /\ Top \in TrapFrames
              /\ Top = stack[tp][Depth] /\ FrameOK(tp, Depth, Top) /\ TopOK(Depth, Top)
  <1>1. tp \in Tasks /\ sp = <<tp, Height(tp)>> /\ Height(tp) = Len(stack[tp])
    BY StackType DEF IInv, TrapTypeOK, KernelInv
  <1>2. Height(tp) \in 0..7 BY <1>1, Short
  <1>3. Owner = tp /\ Depth = Height(tp)
    <2>1. Height(tp) \in -1..7 BY ONLY <1>2
    <2> QED BY <1>1, <2>1, Pointers DEF Owner, Depth
  <1>4. stack[tp] = <<>> <=> Depth = 0 BY <1>1, <1>3, StackType DEF IInv
  <1>5. Stage = IF stack[tp] = <<>> THEN "idle" ELSE Top.stage
    BY <1>1, <1>3, <1>4 DEF Stage, Top
  <1>6. ASSUME stack[tp] # <<>>
        PROVE  /\ Depth \in 1..Depth /\ Top \in TrapFrames /\ Top = stack[tp][Depth]
               /\ FrameOK(tp, Depth, Top) /\ TopOK(Depth, Top)
    <2>1. Depth \in 1..Depth BY <1>2, <1>3, <1>4, <1>6
    <2>2. Top = stack[tp][Depth] BY <1>1, <1>3 DEF Top
    <2>3. Top \in TrapFrames BY <1>1, <1>3, <2>1, <2>2, StackType DEF IInv
    <2>4. FrameOK(tp, Depth, Top)
      BY <1>1, <1>3, <2>1, <2>2 DEF IInv, StackInv
    <2>5. TopOK(Depth, Top) BY <1>1, <1>3, <1>6 DEF IInv, KernelInv, Top
    <2> QED BY <2>1, <2>2, <2>3, <2>4, <2>5
  <1>7. Level = IF stack[tp] = <<>> THEN 0 ELSE Top.level
    BY <1>1, <1>3, <1>4 DEF Level, Top
  <1> QED BY <1>1, <1>2, <1>3, <1>4, <1>5, <1>6, <1>7

\* What a trap comes on: user mode, the idle loop, or a handler that it may
\* interrupt, no higher than this may be when something comes on top.
LEMMA TrapsOn ==
  ASSUME IInv, NEW cause \in Causes, MayTrap(cause)
  PROVE  /\ cause = "syscall" => priv = "user"
         /\ Height(tp) = 0 => /\ ie /\ Level = 0
                              /\ cause = "fault" => priv = "user"
         /\ Height(tp) # 0 =>
              /\ priv = "kernel" /\ stack[tp] # <<>> /\ Suspended(Top)
              /\ Height(tp) <= Height2(Top) + 2
              /\ cause = "irq" => ie
              /\ cause = "fault" => Height(tp) <= Height2(Top) + 1
  <1> USE DEF IInv
  <1>0. tp \in Tasks /\ priv \in {"user", "kernel"} BY DEF TrapTypeOK
  <1>1. CASE priv = "user"
    <2>1. ie /\ stack[tp] = <<>> /\ Height(tp) = 0 BY <1>0, <1>1, StackType DEF UserInv
    <2> QED BY <1>1, <2>1 DEF Level
  <1>2. CASE priv = "kernel" /\ stack[tp] = <<>>
    <2>1. ie /\ Stage = "idle" /\ Level = 0 /\ Height(tp) = 0
      BY <1>2, Where DEF KernelInv
    <2>2. cause \notin {"fault", "syscall"} BY <1>2, <2>1 DEF MayTrap, InKernel
    <2> QED BY <2>1, <2>2
  <1>3. CASE priv = "kernel" /\ stack[tp] # <<>>
    <2>1. /\ Height(tp) # 0 /\ Top \in TrapFrames /\ FrameOK(tp, Height(tp), Top)
          /\ Fits(ie, Height(tp), Top) /\ Stage = Top.stage /\ Height(tp) \in 0..7
      BY <1>3, Where DEF TopOK
    <2>2. Top.level \in 0..2 /\ Top.stage \in Stages BY <2>1 DEF TrapFrames
    <2>3. cause # "syscall" BY <1>3 DEF MayTrap
    <2>4. CASE cause = "irq"
      <3>1. ie BY <1>3, <2>4 DEF MayTrap
      <3>2. Suspended(Top) BY <2>1, <2>2, <3>1 DEF Fits, Suspended, OffStages, OnStages, Stages,
                             Causes
      <3>3. Height(tp) <= Height2(Top) + 2 BY <2>1, <3>1 DEF Fits
      <3> QED BY <1>3, <2>1, <2>4, <3>1, <3>2, <3>3
    <2>5. CASE cause = "fault"
      <3>1. Top.stage \in {"syscall", "notify", "kthread", "irq", "softirq"}
        BY <1>3, <2>1, <2>5 DEF MayTrap, InKernel
      <3>2. Suspended(Top) BY <3>1 DEF Suspended, OnStages
      <3>3. Height(tp) <= Height2(Top) + 1
        BY <2>1, <2>2, <3>1 DEF FrameOK, Height2
      <3>4. Height(tp) <= Height2(Top) + 2 BY <2>1, <2>2, <3>3 DEF Height2
      <3> QED BY <1>3, <2>1, <2>5, <3>1, <3>2, <3>3, <3>4
    <2>6. CASE cause = "vmalloc"
      <3>1. Top.stage \in {"syscall", "fault", "notify", "kthread", "irq", "softirq", "resched"}
        <4>1. Stage # "idle" BY <2>1, <2>2 DEF Stages, Causes
        <4>2. cause = "vmalloc" /\ priv = "kernel" BY <1>3, <2>6
        <4> QED BY <2>1, <4>1, <4>2 DEF MayTrap, InKernel
      <3>2. Suspended(Top) BY <3>1 DEF Suspended, OnStages
      <3>3. Height(tp) <= Height2(Top) + 2
        BY <2>1, <2>2, <3>1 DEF FrameOK, Height2
      <3> QED BY <1>3, <2>1, <2>6, <3>2, <3>3
    <2> QED BY <2>3, <2>4, <2>5, <2>6 DEF Causes
  <1> QED BY <1>0, <1>1, <1>2, <1>3

-----------------------------------------------------------------------------
\* Steps that change no more of the stacks than the frame at the top.

TopBecomes(g) ==
    stack' = [stack EXCEPT ![tp] = [stack[tp] EXCEPT ![Len(stack[tp])] = g]]

\* TopOK after the step.
TopOKNext(n, g) ==
    /\ Fits(ie', n, g)
    /\ sscratch' = IF g.stage = "restore" /\ g.user THEN <<tp, 0>> ELSE Zero
    /\ g.stage = "restore" /\ g.user => flags'[tp] = {}

LEMMA TopFrames ==
  ASSUME TrapTypeOK, stack[tp] # <<>>, NEW g \in TrapFrames, TopBecomes(g)
  PROVE  /\ stack' \in [Tasks -> Seq(TrapFrames)]
         /\ \A t \in Tasks :
              /\ Len(stack'[t]) = Len(stack[t])
              /\ \A n \in 1..Len(stack[t]) :
                   stack'[t][n] = IF t = tp /\ n = Len(stack[t]) THEN g ELSE stack[t][n]
  <1> DEFINE q == [stack[tp] EXCEPT ![Len(stack[tp])] = g]
  <1>1. tp \in Tasks /\ stack \in [Tasks -> Seq(TrapFrames)] BY DEF TrapTypeOK
  <1>2. stack[tp] \in Seq(TrapFrames) /\ Len(stack[tp]) \in 1..Len(stack[tp])
    BY <1>1, StackType
  <1>3. /\ q \in Seq(TrapFrames) /\ Len(q) = Len(stack[tp])
        /\ \A n \in 1..Len(stack[tp]) : q[n] = IF n = Len(stack[tp]) THEN g ELSE stack[tp][n]
    BY <1>2, ExceptSeq
  <1> HIDE DEF q
  <1>4. stack' = [stack EXCEPT ![tp] = q] BY DEF TopBecomes, q
  <1>5. stack' \in [Tasks -> Seq(TrapFrames)] BY ONLY <1>1, <1>3, <1>4
  <1>6. ASSUME NEW t \in Tasks PROVE stack'[t] = IF t = tp THEN q ELSE stack[t]
    BY ONLY <1>1, <1>4, <1>6
  <1> QED BY ONLY <1>3, <1>5, <1>6

LEMMA GotoTop ==
  ASSUME IInv, priv = "kernel", stack[tp] # <<>>, NEW stage, Goto(stage)
  PROVE  TopBecomes([Top EXCEPT !.stage = stage])
  BY Where DEF Goto, TopBecomes, Top

\* Frames and interrupts at the top change as its handler goes on; what the top
\* restores stays as it is, but for the first frame of a kernel thread.
LEMMA TopKeeps ==
  ASSUME IInv, priv = "kernel", stack[tp] # <<>>,
         NEW g \in TrapFrames, TopBecomes(g), UNCHANGED <<priv, sp, tp, thread>>,
         ie' \in BOOLEAN, sscratch' \in StackPointers, flags' \in [Tasks -> SUBSET Raised],
         FrameOK(tp, Len(stack[tp]), g), TopOKNext(Len(stack[tp]), g),
         g.pie = Top.pie \/ Len(stack[tp]) = 1
  PROVE  IInv'
  <1> USE DEF IInv
  <1>1. /\ stack' \in [Tasks -> Seq(TrapFrames)]
        /\ \A t \in Tasks :
              /\ Len(stack'[t]) = Len(stack[t]) /\ Len(stack[t]) \in Nat
              /\ \A n \in 1..Len(stack[t]) :
                   stack'[t][n] = IF t = tp /\ n = Len(stack[t]) THEN g ELSE stack[t][n]
        /\ tp \in Tasks
    BY TopFrames, StackType DEF TrapTypeOK
  <1>2. TrapTypeOK' BY <1>1 DEF TrapTypeOK
  <1>3. ASSUME NEW t \in Tasks, NEW n \in 1..Len(stack[t]), n > 1 \/ t # tp
        PROVE  stack'[t][n].pie = stack[t][n].pie
    BY <1>1, <1>3 DEF Top
  <1>4. StackInv'
    <2> SUFFICES ASSUME NEW t \in Tasks, NEW n \in 1..Len(stack'[t])
                 PROVE  /\ FrameOK(t, n, stack'[t][n])
                        /\ n < Len(stack'[t]) => /\ Suspended(stack'[t][n])
                                                 /\ Fits(stack'[t][n + 1].pie, n, stack'[t][n])
                        /\ t # tp' /\ n = Len(stack'[t]) => /\ Suspended(stack'[t][n])
                                                            /\ Fits(TRUE, n, stack'[t][n])
      BY DEF StackInv
    <2>1. Len(stack'[t]) = Len(stack[t]) /\ n \in 1..Len(stack[t]) BY <1>1
    <2>2. CASE t = tp /\ n = Len(stack[t])
      <3>1. stack'[t][n] = g BY <1>1, <2>1, <2>2
      <3>2. t = tp' /\ ~(n < Len(stack'[t])) BY <1>1, <2>1, <2>2
      <3> QED BY <2>2, <3>1, <3>2
    <2>3. CASE ~(t = tp /\ n = Len(stack[t]))
      <3>1. stack'[t][n] = stack[t][n] BY <1>1, <2>1, <2>3
      <3>2. n < Len(stack[t]) => n + 1 \in 1..Len(stack[t]) /\ n + 1 > 1 BY <1>1, <2>1
      <3>3. n < Len(stack[t]) => stack'[t][n + 1].pie = stack[t][n + 1].pie
        BY <1>3, <3>2
      <3> QED BY <2>1, <2>3, <3>1, <3>3 DEF StackInv
    <2> QED BY <2>2, <2>3
  <1>5. IrqInv'
    <2> SUFFICES ASSUME NEW t \in Tasks, NEW m \in 1..Len(stack'[t]), NEW n \in 1..Len(stack'[t]),
                        m < n, stack'[t][m].stage = "irq"
                 PROVE  ~stack'[t][n].pie
      BY DEF IrqInv
    <2>1. Len(stack'[t]) = Len(stack[t]) /\ Len(stack[t]) \in Nat BY <1>1
    <2>2. m # Len(stack[t]) /\ n > 1 /\ m \in 1..Len(stack[t]) /\ n \in 1..Len(stack[t]) BY <2>1
    <2>3. stack'[t][m] = stack[t][m] BY <1>1, <2>2
    <2> QED BY <1>3, <2>2, <2>3 DEF IrqInv
  <1>6. UserInv' BY DEF UserInv
  <1>7. stack'[tp] # <<>> /\ stack'[tp][Len(stack'[tp])] = g
    <2>1. Len(stack[tp]) \in 1..Len(stack[tp]) BY <1>1, StackType
    <2>2. <<>> # stack'[tp] BY <1>1, <2>1, EmptySeq
    <2> QED BY <1>1, <2>1, <2>2
  <1>8. KernelInv'
    BY <1>1, <1>7 DEF KernelInv, TopOK, TopOKNext
  <1>9. ThreadInv'
    BY <1>1, StackType, EmptySeq DEF ThreadInv, TrapTypeOK
  <1> QED BY <1>2, <1>4, <1>5, <1>6, <1>8, <1>9

-----------------------------------------------------------------------------
\* The steps.

LEMMA AppendFacts ==
  ASSUME NEW q \in Seq(TrapFrames), NEW f \in TrapFrames
  PROVE  /\ Append(q, f) \in Seq(TrapFrames) /\ Append(q, f) # <<>>
         /\ Len(Append(q, f)) = Len(q) + 1 /\ Append(q, f)[Len(q) + 1] = f
         /\ \A n \in 1..Len(q) : Append(q, f)[n] = q[n]
  OBVIOUS

LEMMA OneFrame == ASSUME NEW f \in TrapFrames PROVE <<f>> \in Seq(TrapFrames)
  OBVIOUS

LEMMA InitIInv == TrapInit => IInv
  <1> SUFFICES ASSUME TrapInit PROVE IInv OBVIOUS
  <1> USE DEF TrapInit
  <1>1. Frame(TRUE, TRUE, UserSp(Init1), "ret", 0) \in TrapFrames
    BY DEF Frame, TrapFrames, Stages, Causes, StackPointers, MaxNesting
  <1>2. TrapTypeOK
    <2>1. stack \in [Tasks -> Seq(TrapFrames)]
      <3>1. <<Frame(TRUE, TRUE, UserSp(Init1), "ret", 0)>> \in Seq(TrapFrames)
          /\ <<>> \in Seq(TrapFrames)
        BY <1>1, OneFrame, EmptySeq
      <3> HIDE DEF UserSp
      <3> QED BY <3>1
    <2>2. sp \in StackPointers \ {Zero} /\ sscratch \in StackPointers
          /\ thread \in [Tasks -> StackPointers]
      BY DEF StackPointers, MaxNesting
    <2> QED BY <2>1, <2>2 DEF TrapTypeOK
  <1>3. StackInv
    BY DEF StackInv, FrameOK, Suspended, Fits, Frame, OnStages, OffStages, Height2
  <1>4. IrqInv BY DEF IrqInv
  <1>5. UserInv /\ KernelInv
    <2>1. stack[Idle] = <<>> OBVIOUS
    <2> QED BY <2>1 DEF UserInv, KernelInv
  <1>6. ThreadInv BY DEF ThreadInv
  <1> QED BY <1>2, <1>3, <1>4, <1>5, <1>6 DEF IInv

LEMMA SoftirqKeeps == ASSUME IInv, Softirq PROVE IInv'
  <1> DEFINE g == [Top EXCEPT !.stage = "softirq"]
  <1>1. /\ priv = "kernel" /\ stack[tp] # <<>> /\ Top.stage = "irq" /\ Top.level = 1
        /\ Top \in TrapFrames
    BY Where DEF Softirq, InKernel
  <1>2. TopBecomes(g) BY <1>1, GotoTop DEF Softirq
  <1>3. /\ g \in TrapFrames /\ g.stage = "softirq" /\ g.pie = Top.pie
        /\ g.user = Top.user /\ g.sp = Top.sp /\ g.level = 1
    BY <1>1 DEF TrapFrames, Stages, Causes
  <1>4. FrameOK(tp, Len(stack[tp]), g) /\ Fits(TRUE, Len(stack[tp]), g)
    <2> DEFINE n == Len(stack[tp])
    <2>1. FrameOK(tp, n, Top) /\ n \in 0..7 BY <1>1, Where
    <2> HIDE DEF g, n
    <2>2. FrameOK(tp, n, g) /\ Fits(TRUE, n, g)
      BY ONLY <1>1, <1>3, <2>1 DEF FrameOK, Fits, Height2, OffStages, OnStages
    <2> QED BY <2>2 DEF n
  <1>5. TopOKNext(Len(stack[tp]), g)
    BY <1>1, <1>3, <1>4, Where DEF Softirq, TopOK, TopOKNext
  <1> HIDE DEF g
  <1> QED BY <1>1, <1>2, <1>3, <1>4, <1>5, TopKeeps DEF Softirq, IInv, TrapTypeOK

\* The frame that HandlerReturns leaves, of an interrupt or of another trap.
Returned(f) ==
    [f EXCEPT !.stage = "ret",
              !.level = IF f.stage \in {"irq", "softirq"} THEN @ - 1 ELSE @]

LEMMA HandlerReturnsTop ==
  ASSUME IInv, HandlerReturns
  PROVE  /\ priv = "kernel" /\ stack[tp] # <<>> /\ Stage = Top.stage /\ Top \in TrapFrames
         /\ Top.stage \in {"irq", "softirq", "syscall", "fault", "vmalloc"}
         /\ TopBecomes(Returned(Top))
         /\ Returned(Top) \in TrapFrames
         /\ LET g == Returned(Top)
            IN /\ g.stage = "ret" /\ g.user = Top.user /\ g.pie = Top.pie /\ g.sp = Top.sp
               /\ g.level = IF Top.stage \in {"irq", "softirq"} THEN Top.level - 1 ELSE Top.level
  <1>1. /\ priv = "kernel" /\ stack[tp] # <<>> /\ Stage = Top.stage /\ Top \in TrapFrames
        /\ Top.stage \in {"irq", "softirq", "syscall", "fault", "vmalloc"}
        /\ Owner = tp /\ Depth = Len(stack[tp]) /\ Top = stack[tp][Depth] /\ tp \in Tasks
        /\ FrameOK(tp, Depth, Top)
    BY Where DEF HandlerReturns, InKernel
  <1>2. TopBecomes(Returned(Top))
    BY <1>1 DEF HandlerReturns, TopBecomes, Returned
  <1>3. Top.level \in 0..2 /\ (Top.stage \in {"irq", "softirq"} => Top.level \in 1..2)
    BY <1>1 DEF TrapFrames, FrameOK
  <1>4. (IF Top.stage \in {"irq", "softirq"} THEN Top.level - 1 ELSE Top.level) \in 0..2
    BY ONLY <1>3
  <1>5. Returned(Top) \in TrapFrames
    BY <1>1, <1>4 DEF Returned, TrapFrames, Stages, Causes
  <1>6. LET g == Returned(Top)
        IN /\ g.stage = "ret" /\ g.user = Top.user /\ g.pie = Top.pie /\ g.sp = Top.sp
           /\ g.level = IF Top.stage \in {"irq", "softirq"} THEN Top.level - 1 ELSE Top.level
    BY <1>1 DEF Returned, TrapFrames
  <1> QED BY <1>1, <1>2, <1>5, <1>6

LEMMA HandlerReturnsKeeps == ASSUME IInv, HandlerReturns PROVE IInv'
  <1> DEFINE g == Returned(Top)
             n == Len(stack[tp])
  <1>1. /\ priv = "kernel" /\ stack[tp] # <<>> /\ Stage = Top.stage /\ Top \in TrapFrames
        /\ Top.stage \in {"irq", "softirq", "syscall", "fault", "vmalloc"}
        /\ TopBecomes(g) /\ g \in TrapFrames
        /\ g.stage = "ret" /\ g.user = Top.user /\ g.pie = Top.pie /\ g.sp = Top.sp
        /\ g.level = IF Top.stage \in {"irq", "softirq"} THEN Top.level - 1 ELSE Top.level
    BY HandlerReturnsTop
  <1> HIDE DEF g
  <1>2. n \in 0..7 /\ FrameOK(tp, n, Top) /\ TopOK(n, Top) BY <1>1, Where
  <1>3. Top.level \in 0..2 /\ ie \in BOOLEAN BY <1>1 DEF TrapFrames, IInv, TrapTypeOK
  <1> HIDE DEF n
  <1>4. FrameOK(tp, n, g)
    BY ONLY <1>1, <1>2, <1>3 DEF FrameOK, Height2
  <1>5. Fits(ie', n, g)
    <2>1. ie' = (ie /\ ~(Top.stage \in {"irq", "softirq"}))
      BY <1>1 DEF HandlerReturns
    <2>2. Fits(ie, n, Top) BY <1>2 DEF TopOK
    <2> QED BY ONLY <1>1, <1>3, <2>1, <2>2 DEF Fits, OffStages, OnStages, Height2
  <1>6. TopOKNext(n, g)
    BY <1>1, <1>2, <1>5 DEF HandlerReturns, TopOK, TopOKNext
  <1>7. ie' \in BOOLEAN BY DEF HandlerReturns, IInv, TrapTypeOK
  <1> QED BY <1>1, <1>4, <1>6, <1>7, TopKeeps DEF HandlerReturns, IInv, TrapTypeOK, n

LEMMA ExecKeeps == ASSUME IInv, Exec PROVE IInv'
  <1> DEFINE g == StartThread(Top)
  <1>1. /\ priv = "kernel" /\ stack[tp] # <<>> /\ Top.stage = "kthread"
        /\ Len(stack[tp]) = 1 /\ tp \in Tasks /\ Top \in TrapFrames
    BY Where DEF Exec, InKernel
  <1>2. TopBecomes(g) BY <1>1 DEF Exec, TopBecomes, Top
  <1>3. g \in TrapFrames /\ g.stage = "ret" /\ g.user /\ g.pie /\ g.sp = UserSp(tp)
    <2>1. UserSp(tp) \in StackPointers BY <1>1, Bottoms
    <2> HIDE DEF UserSp
    <2> QED BY <1>1, <2>1 DEF TrapFrames, Stages, Causes, StartThread
  <1>4. FrameOK(tp, Len(stack[tp]), g) /\ TopOKNext(Len(stack[tp]), g)
    <2>1. g.level = Top.level /\ Top.level = 0
      BY <1>1, Where DEF StartThread, FrameOK, TrapFrames
    <2>2. TopOK(1, Top) /\ UNCHANGED <<ie, sscratch, flags>>
      BY <1>1, Where DEF Exec, hartRegs
    <2> HIDE DEF g
    <2>3. FrameOK(tp, 1, g) BY ONLY <1>3, <2>1 DEF FrameOK, Height2
    <2>4. Fits(ie', 1, g) BY ONLY <1>3, <2>1 DEF Fits, Height2, OffStages, OnStages
    <2>5. TopOKNext(1, g) BY <1>1, <1>3, <2>2, <2>4 DEF TopOK, TopOKNext
    <2> QED BY <1>1, <2>3, <2>5
  <1> QED BY <1>1, <1>2, <1>3, <1>4, TopKeeps DEF Exec, hartRegs, IInv, TrapTypeOK

LEMMA ScheduleSameKeeps == ASSUME IInv, ScheduleSame PROVE IInv'
  <1> DEFINE g == [Top EXCEPT !.stage = "ret"]
  <1>1. priv = "kernel" /\ stack[tp] # <<>> /\ Top.stage = "resched"
    BY Where DEF ScheduleSame, InKernel
  <1>2. TopBecomes(g) BY <1>1, GotoTop DEF ScheduleSame, Resumed
  <1>3. g \in TrapFrames /\ FrameOK(tp, Len(stack[tp]), g) /\ g.stage = "ret" /\ Len(stack[tp]) = 1
    BY <1>1, Where DEF TrapFrames, Stages, Causes, FrameOK, Height2
  <1>4. TopOKNext(Len(stack[tp]), g)
    BY <1>1, <1>3, Where DEF ScheduleSame, FrameOK, TopOK, TopOKNext, Fits, Height2, OffStages,
      OnStages, TrapFrames
  <1>5. ie' \in BOOLEAN /\ flags' \in [Tasks -> SUBSET Raised]
    BY DEF ScheduleSame, IInv, TrapTypeOK
  <1> QED BY <1>1, <1>2, <1>3, <1>4, <1>5, TopKeeps DEF ScheduleSame, IInv, TrapTypeOK

LEMMA RetFromExceptionKeeps == ASSUME IInv, RetFromException PROVE IInv'
  <1> DEFINE stage == IF Top.user THEN "check" ELSE "restore"
             g == [Top EXCEPT !.stage = stage]
  <1>1. /\ priv = "kernel" /\ stack[tp] # <<>> /\ Top.stage = "ret"
        /\ stack[Owner][Depth] = Top /\ Top \in TrapFrames
    BY Where DEF RetFromException, InKernel
  <1>2. TopBecomes(g) BY <1>1, GotoTop DEF RetFromException
  <1>3. g \in TrapFrames /\ FrameOK(tp, Len(stack[tp]), g)
    <2>1. /\ g \in TrapFrames /\ g.stage = stage /\ g.user = Top.user /\ g.pie = Top.pie
          /\ g.sp = Top.sp /\ g.level = Top.level
      BY <1>1 DEF TrapFrames, Stages, Causes
    <2> DEFINE n == Len(stack[tp])
    <2>2. FrameOK(tp, n, Top) /\ n \in 0..7 /\ Top.user \in BOOLEAN
      BY <1>1, Where DEF TrapFrames
    <2>3. g.stage = (IF Top.user THEN "check" ELSE "restore") BY <2>1
    <2> HIDE DEF g, stage, n
    <2>4. Top.stage = "ret" BY <1>1
    <2>5. ASSUME Top.user PROVE FrameOK(tp, n, g)
      BY ONLY <2>1, <2>2, <2>3, <2>4, <2>5 DEF FrameOK, Height2
    <2>6. ASSUME ~Top.user PROVE FrameOK(tp, n, g)
      BY ONLY <2>1, <2>2, <2>3, <2>4, <2>6 DEF FrameOK, Height2
    <2> QED BY <2>1, <2>5, <2>6 DEF n
  <1>4. g.stage = stage /\ g.user = Top.user BY <1>1 DEF TrapFrames
  <1>5. TopOKNext(Len(stack[tp]), g)
    BY <1>1, <1>4, Where DEF RetFromException, FrameOK, TopOK, TopOKNext, Fits, Height2,
      OffStages, OnStages, TrapFrames
  <1>6. ie' \in BOOLEAN /\ UNCHANGED <<priv, sp, tp, thread, sscratch, flags>> /\ TrapTypeOK
    BY DEF RetFromException, IInv
  <1>7. g.pie = Top.pie BY <1>1 DEF TrapFrames
  <1> HIDE DEF g
  <1> QED BY <1>1, <1>2, <1>3, <1>5, <1>6, <1>7, TopKeeps DEF TrapTypeOK

LEMMA ResumeUserspaceKeeps == ASSUME IInv, ResumeUserspace PROVE IInv'
  <1> DEFINE g == [Top EXCEPT !.stage = "restore"]
  <1>1. /\ priv = "kernel" /\ stack[tp] # <<>> /\ Top.stage = "check" /\ Top.user
        /\ Len(stack[tp]) = 1 /\ sscratch' = <<tp, 0>> /\ tp \in Tasks
    <2>1. priv = "kernel" /\ stack[tp] # <<>> /\ Top.stage = "check"
      BY Where DEF ResumeUserspace, InKernel
    <2>2. Top.user /\ Depth = 1 BY <2>1, Where DEF FrameOK
    <2>3. sscratch' = <<tp, 0>> BY <2>1, <2>2, Where DEF ResumeUserspace
    <2> QED BY <2>1, <2>2, <2>3, Where
  <1>2. TopBecomes(g) BY <1>1, GotoTop DEF ResumeUserspace
  <1>3. /\ g \in TrapFrames /\ FrameOK(tp, Len(stack[tp]), g)
        /\ g.stage = "restore" /\ g.user
    BY <1>1, Where DEF TrapFrames, Stages, Causes, FrameOK, Height2
  <1>4. TopOKNext(Len(stack[tp]), g)
    BY <1>1, <1>3, Where DEF ResumeUserspace, FrameOK, TopOK, TopOKNext, Fits, Height2, OffStages,
      OnStages, TrapFrames
  <1>5. sscratch' \in StackPointers
    BY <1>1, Bottoms
  <1> QED BY <1>1, <1>2, <1>3, <1>4, <1>5, TopKeeps DEF ResumeUserspace, IInv, TrapTypeOK

LEMMA WorkReschedKeeps == ASSUME IInv, WorkResched PROVE IInv'
  <1> DEFINE g == [Top EXCEPT !.stage = "resched"]
  <1>1. priv = "kernel" /\ stack[tp] # <<>> /\ Top.stage = "check"
    BY Where DEF WorkResched, InKernel
  <1>2. TopBecomes(g) BY <1>1, GotoTop DEF WorkResched
  <1>3. g \in TrapFrames /\ FrameOK(tp, Len(stack[tp]), g) /\ g.stage = "resched"
    BY <1>1, Where DEF TrapFrames, Stages, Causes, FrameOK, Height2
  <1>4. TopOKNext(Len(stack[tp]), g)
    <2>1. /\ TopOK(Len(stack[tp]), Top) /\ UNCHANGED <<ie, sscratch, flags>>
          /\ g.stage = "resched" /\ g.pie = Top.pie /\ g.level = Top.level
      BY <1>1, Where DEF WorkResched, hartRegs, TrapFrames
    <2> HIDE DEF g
    <2>2. Fits(ie', Len(stack[tp]), g)
      BY ONLY <1>1, <2>1 DEF TopOK, Fits, Height2, OffStages, OnStages
    <2> QED BY <1>1, <2>1, <2>2 DEF TopOK, TopOKNext
  <1>5. g.pie = Top.pie BY <1>1, Where DEF TrapFrames
  <1> HIDE DEF g
  <1> QED BY <1>1, <1>2, <1>3, <1>4, <1>5, TopKeeps DEF WorkResched, hartRegs, IInv, TrapTypeOK

LEMMA WorkNotifysigKeeps == ASSUME IInv, WorkNotifysig PROVE IInv'
  <1> DEFINE g == [Top EXCEPT !.stage = "notify", !.s0 = flags[tp]]
  <1>1. /\ priv = "kernel" /\ stack[tp] # <<>> /\ Top.stage = "check" /\ Top.user
        /\ Len(stack[tp]) = 1 /\ tp \in Tasks /\ flags[tp] \in SUBSET Raised
    BY Where DEF WorkNotifysig, InKernel, FrameOK, IInv, TrapTypeOK
  <1>2. TopBecomes(g) BY ZenonT(60), <1>1, Where DEF WorkNotifysig, TopBecomes, Top
  <1>3. g \in TrapFrames /\ FrameOK(tp, Len(stack[tp]), g) /\ g.stage = "notify"
    BY <1>1, Where DEF TrapFrames, Stages, Causes, FrameOK, Height2
  <1>4. TopOKNext(Len(stack[tp]), g)
    BY <1>1, <1>3, Where DEF WorkNotifysig, FrameOK, TopOK, TopOKNext, Fits, Height2, OffStages,
      OnStages, TrapFrames
  <1> QED BY <1>1, <1>2, <1>3, <1>4, TopKeeps DEF WorkNotifysig, IInv, TrapTypeOK

LEMMA NotifyResumeTop ==
  ASSUME IInv, NEW more \in BOOLEAN, NotifyResume(more)
  PROVE  TopBecomes([Top EXCEPT !.stage = "ret", !.s0 = {}])
  <1>1. /\ priv = "kernel" /\ stack[tp] # <<>> /\ tp \in Tasks
        /\ Top \in TrapFrames /\ stack[Owner][Depth] = Top
    BY Where DEF NotifyResume, InKernel
  <1> QED BY <1>1, Where DEF NotifyResume, TopBecomes, Top

LEMMA NotifyResumeKeeps == ASSUME IInv, NEW more \in BOOLEAN, NotifyResume(more) PROVE IInv'
  <1> DEFINE g == [Top EXCEPT !.stage = "ret", !.s0 = {}]
  <1>1. /\ priv = "kernel" /\ stack[tp] # <<>> /\ Top.stage = "notify" /\ tp \in Tasks
        /\ Top \in TrapFrames /\ stack[Owner][Depth] = Top
    BY Where DEF NotifyResume, InKernel
  <1>2. TopBecomes(g) BY NotifyResumeTop
  <1>3. g \in TrapFrames /\ FrameOK(tp, Len(stack[tp]), g) /\ g.stage = "ret" /\ Len(stack[tp]) = 1
    BY <1>1, Where DEF TrapFrames, Stages, Causes, FrameOK, Height2
  <1>4. TopOKNext(Len(stack[tp]), g)
    BY <1>1, <1>3, Where DEF NotifyResume, hartRegs, FrameOK, TopOK, TopOKNext, Fits, Height2,
      OffStages, OnStages, TrapFrames
  <1>5. flags' \in [Tasks -> SUBSET Raised]
    BY <1>1 DEF NotifyResume, IInv, TrapTypeOK, TrapFrames
  <1> QED BY <1>1, <1>2, <1>3, <1>4, <1>5, TopKeeps DEF NotifyResume, hartRegs, IInv, TrapTypeOK

LEMMA RaiseWorkKeeps == ASSUME IInv, NEW t \in Tasks, NEW f \in Raised, RaiseWork(t, f) PROVE IInv'
  <1> USE DEF IInv, hartRegs
  <1>1. /\ priv = "kernel" /\ stack[tp] # <<>>
        /\ Top.stage \in {"irq", "softirq", "syscall", "fault"}
    BY Where DEF RaiseWork, InKernel
  <1>2. TrapTypeOK' BY DEF RaiseWork, TrapTypeOK
  <1>3. StackInv' /\ IrqInv' /\ ThreadInv'
    BY DEF RaiseWork, StackInv, IrqInv, ThreadInv
  <1>4. UserInv' BY <1>1 DEF RaiseWork, UserInv
  <1>5. KernelInv' BY <1>1 DEF RaiseWork, KernelInv, TopOK, Top
  <1> QED BY <1>2, <1>3, <1>4, <1>5

\* A new task's only frame leads to its program, or to the kernel thread's.
LEMMA NewTaskKeeps ==
  ASSUME IInv, priv = "kernel", NEW t \in Tasks, t # tp, thread[t] = Zero,
         NEW f \in TrapFrames, FrameOK(t, 1, f), f.stage \in {"ret", "kthread"}, f.level = 0,
         stack' = [stack EXCEPT ![t] = <<f>>], thread' = [thread EXCEPT ![t] = <<t, 1>>],
         UNCHANGED <<priv, ie, sp, sscratch, tp, flags>>
  PROVE  IInv'
  <1> USE DEF IInv
  <1>1. /\ stack'[t] = <<f>> /\ \A u \in Tasks \ {t} : stack'[u] = stack[u]
        /\ <<f>> \in Seq(TrapFrames) /\ Len(<<f>>) = 1 /\ <<f>>[1] = f
        /\ stack' \in [Tasks -> Seq(TrapFrames)] /\ tp \in Tasks
    BY OneFrame DEF TrapTypeOK
  <1>2. /\ thread'[t] = <<t, 1>> /\ \A u \in Tasks \ {t} : thread'[u] = thread[u]
        /\ thread' \in [Tasks -> StackPointers]
    <2>1. <<t, 1>> \in StackPointers BY Bottoms
    <2> QED BY <2>1 DEF TrapTypeOK
  <1>3. TrapTypeOK' BY <1>1, <1>2 DEF TrapTypeOK
  <1>4. StackInv'
    <2> SUFFICES ASSUME NEW u \in Tasks, NEW n \in 1..Len(stack'[u])
                 PROVE  /\ FrameOK(u, n, stack'[u][n])
                        /\ n < Len(stack'[u]) => /\ Suspended(stack'[u][n])
                                                 /\ Fits(stack'[u][n + 1].pie, n, stack'[u][n])
                        /\ u # tp /\ n = Len(stack'[u]) => /\ Suspended(stack'[u][n])
                                                            /\ Fits(TRUE, n, stack'[u][n])
      BY DEF StackInv
    <2>1. CASE u = t
      <3>1. n = 1 /\ stack'[u][n] = f /\ Len(stack'[u]) = 1 BY <1>1, <2>1
      <3>2. Suspended(f) /\ Fits(TRUE, 1, f)
        <4>1. f.pie BY DEF FrameOK, TrapFrames
        <4> QED BY ONLY <4>1, f.stage \in {"ret", "kthread"}, f.level = 0
                DEF Suspended, Fits, Height2, OnStages, OffStages
      <3>3. ~(n < Len(stack'[u])) BY ONLY <3>1
      <3> QED BY <2>1, <3>1, <3>2, <3>3
    <2>2. CASE u # t BY <1>1, <2>2 DEF StackInv
    <2> QED BY <2>1, <2>2
  <1>5. IrqInv' BY <1>1 DEF IrqInv
  <1>6. UserInv' /\ KernelInv' BY <1>1 DEF UserInv, KernelInv, TopOK
  <1>7. ThreadInv' BY <1>1, <1>2 DEF ThreadInv
  <1> QED BY <1>3, <1>4, <1>5, <1>6, <1>7

LEMMA ForkKeeps == ASSUME IInv, NEW child \in Tasks, Fork(child) PROVE IInv'
  <1> DEFINE f == [UserRegs(tp) EXCEPT !.sp = UserSp(child), !.stage = "ret"]
  <1>1. /\ priv = "kernel" /\ Top.stage = "syscall" /\ Top = UserRegs(tp) /\ Top \in TrapFrames
        /\ FrameOK(tp, 1, Top)
    BY Where DEF Fork, InKernel, UserRegs
  <1>2. UserSp(child) \in StackPointers BY Bottoms
  <1>3. f \in TrapFrames /\ FrameOK(child, 1, f) /\ f.stage = "ret" /\ f.level = 0
    BY <1>1, <1>2 DEF TrapFrames, Stages, Causes, FrameOK, Height2
  <1> QED BY <1>1, <1>3, NewTaskKeeps DEF Fork, hartRegs

LEMMA KernelThreadKeeps == ASSUME IInv, NEW k \in Tasks, KernelThread(k) PROVE IInv'
  <1> DEFINE f == Frame(FALSE, TRUE, Zero, "kthread", 0)
  <1>1. f \in TrapFrames /\ FrameOK(k, 1, f) /\ f.stage = "kthread" /\ f.level = 0
    BY DEF Frame, TrapFrames, Stages, Causes, StackPointers, MaxNesting, FrameOK, Height2
  <1>2. priv = "kernel" BY DEF KernelThread, InKernel
  <1> QED BY <1>1, <1>2, NewTaskKeeps DEF KernelThread, hartRegs

\* SAVE_ALL pushes one frame on the stack of the current task, whether it finds
\* it in sscratch or is on it already.
Pushed(cause) ==
    Frame(priv = "user", ie, sp, cause, IF cause = "irq" THEN Level + 1 ELSE Level)

\* The level of the code that a trap comes on, and of the trap's handler.
LEMMA TrapLevel ==
  ASSUME IInv, NEW cause \in Causes, MayTrap(cause)
  PROVE  /\ Level = (IF Height(tp) = 0 THEN 0 ELSE Top.level)
         /\ Level \in 0..2 /\ (cause = "irq" => Level \in 0..1)
  <1>1. CASE Height(tp) = 0 BY <1>1, TrapsOn
  <1>2. CASE Height(tp) # 0
    <2>1. priv = "kernel" /\ stack[tp] # <<>> /\ (cause = "irq" => ie) BY <1>2, TrapsOn
    <2>2. Level = Top.level /\ Top \in TrapFrames /\ TopOK(Depth, Top) BY <2>1, Where
    <2>3. Top.level \in 0..2 /\ (ie => Top.level <= 1) BY <2>2 DEF TrapFrames, TopOK, Fits
    <2> QED BY <1>2, <2>1, <2>2, <2>3
  <1> QED BY <1>1, <1>2

LEMMA TrapPushes ==
  ASSUME IInv, NEW cause \in Causes, Trap(cause)
  PROVE  LET n == Height(tp)
             f == Pushed(cause)
         IN /\ f \in TrapFrames
            /\ stack' = [stack EXCEPT ![tp] = Append(stack[tp], f)]
            /\ sp' = <<tp, n + 1>> /\ tp' = tp /\ sscratch' = Zero
            /\ priv' = "kernel" /\ ie' = HandlerIe(cause)
            /\ UNCHANGED <<thread, flags>>
  <1> DEFINE n == Height(tp)
             f == Pushed(cause)
  <1> USE DEF IInv
  <1>1. tp \in Tasks /\ n \in 0..7 /\ n = Len(stack[tp]) /\ stack[tp] \in Seq(TrapFrames)
        /\ MayTrap(cause) /\ priv \in {"user", "kernel"} /\ ie \in BOOLEAN
    BY Short, StackType DEF Trap, TrapTypeOK
  <1> HIDE DEF n
  <1>2. StackToUse = <<tp, n>>
    <2>1. CASE priv = "user"
      <3>1. sscratch = <<tp, 0>> /\ stack[tp] = <<>> BY <2>1 DEF UserInv
      <3>2. n = 0 BY <1>1, <3>1, StackType DEF n
      <3> QED BY <1>1, <3>1, <3>2, Pointers DEF StackToUse
    <2>2. CASE priv = "kernel"
      <3>1. sp = <<tp, n>> BY <2>2, Where DEF n
      <3>2. sscratch = <<>>
        <4>1. CASE stack[tp] = <<>> BY <2>2, <4>1 DEF KernelInv
        <4>2. CASE stack[tp] # <<>>
          <5>1. n # 0 BY <1>1, <4>2, StackType DEF n
          <5>2. Suspended(Top) BY <1>1, <5>1, TrapsOn DEF n
          <5> QED BY <2>2, <4>2, <5>2, Where DEF TopOK, Suspended, OnStages
        <4> QED BY <4>1, <4>2
      <3> QED BY <3>1, <3>2 DEF StackToUse
    <2> QED BY <1>1, <2>1, <2>2
  <1>3. StackToUse[1] = tp /\ StackToUse[2] = n
    <2>1. n \in -1..7 BY ONLY <1>1
    <2> QED BY <1>1, <1>2, <2>1, Pointers
  <1>4. SubSeq(stack[tp], 1, n) = stack[tp] BY <1>1, SubSeqFull
  <1>5. f \in TrapFrames
    <2>1. (IF cause = "irq" THEN Level + 1 ELSE Level) \in 0..2
      <3>1. Level \in 0..2 /\ (cause = "irq" => Level \in 0..1) BY <1>1, TrapLevel
      <3> QED BY ONLY <3>1
    <2> QED BY <1>1, <2>1 DEF Pushed, Frame, TrapFrames, Stages, Causes, TrapTypeOK
  <1> HIDE DEF f
  <1>6. /\ stack' = [stack EXCEPT ![tp] = Append(stack[tp], f)] /\ sp' = <<tp, n + 1>>
        /\ tp' = tp /\ sscratch' = Zero /\ priv' = "kernel" /\ ie' = HandlerIe(cause)
        /\ UNCHANGED <<thread, flags>>
    BY <1>3, <1>4 DEF Trap, Pushed, f
  <1> QED BY <1>5, <1>6 DEF n, f

\* The new frame leads back, and fits the interrupts its handler has.
LEMMA PushedOK ==
  ASSUME IInv, NEW cause \in Causes, MayTrap(cause)
  PROVE  /\ FrameOK(tp, Height(tp) + 1, Pushed(cause))
         /\ Fits(HandlerIe(cause), Height(tp) + 1, Pushed(cause))
  <1> DEFINE n == Height(tp)
             f == Pushed(cause)
             l == IF cause = "irq" THEN Level + 1 ELSE Level
  <1>0. l = IF cause = "irq" THEN Level + 1 ELSE Level OBVIOUS
  <1>1. /\ f.user = (priv = "user") /\ f.pie = ie /\ f.sp = sp /\ f.stage = cause /\ f.level = l
        /\ tp \in Tasks /\ priv \in {"user", "kernel"} /\ ie \in BOOLEAN /\ n \in 0..7
    BY Short DEF Pushed, Frame, IInv, TrapTypeOK
  <1>2. Level \in 0..2 /\ (cause = "irq" => Level \in 0..1) BY TrapLevel
  <1>3. cause \in {"irq", "syscall", "fault", "vmalloc"} BY DEF Causes
  <1>4. CASE n = 0
    <2>1. /\ ie /\ Level = 0 /\ (cause = "syscall" \/ cause = "fault" => priv = "user")
          /\ l = IF cause = "irq" THEN 1 ELSE 0
      BY <1>4, TrapsOn
    <2>2. IF priv = "user" THEN sp = UserSp(tp) ELSE sp = <<tp, 0>>
      BY <1>1, <1>4, Where DEF IInv, UserInv
    <2>3. priv = "user" => cause # "vmalloc" BY DEF MayTrap, InKernel
    <2> HIDE DEF f, l, n
    <2>4. FrameOK(tp, n + 1, f)
      <3>1. /\ n + 1 = 1 /\ n + 1 - 1 = 0 /\ f.pie = TRUE /\ f.user = (priv = "user") /\ f.sp = sp
            /\ f.stage = cause /\ f.level = IF cause = "irq" THEN 1 ELSE 0
        BY ONLY <1>1, <1>4, <2>1
      <3>2. f.user => f.sp = UserSp(tp)
        BY ONLY <2>2, <3>1
      <3>3. ~f.user => f.sp = <<tp, n + 1 - 1>> /\ f.stage \notin {"syscall", "fault"}
        BY <2>1, <2>2, <3>1, <1>1
      <3> HIDE DEF UserSp
      <3> QED BY ONLY <1>3, <3>1, <3>2, <3>3 DEF FrameOK, Height2
    <2>5. Fits(HandlerIe(cause), n + 1, f)
      BY ONLY <1>1, <1>3, <1>4, <2>1 DEF Fits, HandlerIe, OffStages, OnStages, Height2
    <2> QED BY <2>4, <2>5 DEF f, n
  <1>5. CASE n # 0
    <2>1. /\ priv = "kernel" /\ stack[tp] # <<>> /\ n <= Height2(Top) + 2
          /\ cause # "syscall" /\ (cause = "irq" => ie)
          /\ cause = "fault" => n <= Height2(Top) + 1
      BY <1>5, TrapsOn
    <2>2. sp = <<tp, n>> /\ Top \in TrapFrames /\ Fits(ie, n, Top) BY <2>1, Where DEF TopOK
    <2>3. Level = Top.level BY <1>5, TrapLevel
    <2>4. /\ n <= Level + Level + 2
          /\ cause = "fault" => n <= Level + Level + 1
          /\ ie => Level <= 1
      BY <2>1, <2>2, <2>3 DEF Height2, Fits
    <2>5. n + 1 - 1 = n BY ONLY <1>1
    <2> HIDE DEF f, l, n
    <2>6. l = IF cause = "irq" THEN Level + 1 ELSE Level BY ONLY <1>0
    <2>7. f.sp = <<tp, n + 1 - 1>> /\ ~f.user /\ n + 1 > 1
      <3>1. n + 1 > 1 BY ONLY <1>1, <1>5
      <3>2. f.sp = <<tp, n>> BY ONLY <1>1, <2>2
      <3>3. ~f.user BY <1>1, <2>1
      <3> QED BY ONLY <2>5, <3>1, <3>2, <3>3
    <2>8. FrameOK(tp, n + 1, f)
      BY ONLY <1>1, <1>2, <1>3, <2>1, <2>4, <2>6, <2>7 DEF FrameOK, Height2
    <2>9. Fits(HandlerIe(cause), n + 1, f)
      BY ONLY <1>1, <1>2, <1>3, <2>1, <2>4, <2>6 DEF Fits, HandlerIe, OffStages, OnStages, Height2
    <2> QED BY <2>8, <2>9 DEF f, n
  <1> QED BY <1>4, <1>5

LEMMA TrapKeeps ==
  ASSUME IInv, NEW cause \in Causes, Trap(cause)
  PROVE  IInv'
  <1> DEFINE n == Height(tp)
             f == Pushed(cause)
             q == Append(stack[tp], f)
  <1> USE DEF IInv
  <1>1. /\ tp \in Tasks /\ n \in 0..7 /\ n = Len(stack[tp]) /\ MayTrap(cause)
        /\ stack[tp] \in Seq(TrapFrames) /\ stack \in [Tasks -> Seq(TrapFrames)] /\ ie \in BOOLEAN
    BY Short, StackType DEF Trap, TrapTypeOK
  <1>2. /\ f \in TrapFrames
        /\ stack' = [stack EXCEPT ![tp] = q] /\ sp' = <<tp, n + 1>> /\ tp' = tp
        /\ sscratch' = Zero /\ priv' = "kernel" /\ ie' = HandlerIe(cause)
        /\ UNCHANGED <<thread, flags>>
    BY TrapPushes
  <1>3. FrameOK(tp, n + 1, f) /\ Fits(HandlerIe(cause), n + 1, f) BY <1>1, PushedOK
  <1>4. f.pie = ie /\ f.stage = cause BY DEF Pushed, Frame
  \* What it comes on goes on with the interrupts that the frame holds.
  <1>5. ASSUME n # 0 PROVE stack[tp][n] = Top /\ Suspended(Top) /\ Fits(ie, n, Top)
    <2>1. priv = "kernel" /\ stack[tp] # <<>> /\ Suspended(Top) BY <1>1, <1>5, TrapsOn
    <2> QED BY <2>1, Where DEF TopOK
  <1> HIDE DEF f, n
  <1>6. /\ q \in Seq(TrapFrames) /\ Len(q) = n + 1 /\ q[n + 1] = f /\ q # <<>>
        /\ \A m \in 1..n : q[m] = stack[tp][m]
    BY <1>1, <1>2, AppendFacts
  <1> HIDE DEF q
  <1>7. /\ stack' \in [Tasks -> Seq(TrapFrames)] /\ stack'[tp] = q
        /\ \A t \in Tasks \ {tp} : stack'[t] = stack[t]
    BY ONLY <1>1, <1>6, <1>2
  <1>8. n + 1 <= 7
    <2>1. n + 1 \in Nat BY ONLY <1>1
    <2> QED BY <1>1, <1>2, <1>3, <2>1, FrameHeight
  <1>9. TrapTypeOK'
    <2>1. sp' \in StackPointers \ {Zero}
      <3>1. n + 1 \in -1..7 BY ONLY <1>1, <1>8
      <3> QED BY <1>1, <1>2, <3>1, Pointers
    <2>2. sscratch' \in StackPointers BY <1>2 DEF StackPointers, MaxNesting
    <2>3. ie' \in BOOLEAN BY <1>1, <1>2 DEF HandlerIe
    <2> QED BY <1>2, <1>7, <2>1, <2>2, <2>3 DEF TrapTypeOK
  <1>10. StackInv'
    <2> SUFFICES ASSUME NEW t \in Tasks, NEW m \in 1..Len(stack'[t])
                 PROVE  /\ FrameOK(t, m, stack'[t][m])
                        /\ m < Len(stack'[t]) => /\ Suspended(stack'[t][m])
                                                 /\ Fits(stack'[t][m + 1].pie, m, stack'[t][m])
                        /\ t # tp /\ m = Len(stack'[t]) => /\ Suspended(stack'[t][m])
                                                            /\ Fits(TRUE, m, stack'[t][m])
      BY <1>2 DEF StackInv
    <2>1. CASE t = tp
      <3>1. m \in 1..(n + 1) /\ Len(stack'[t]) = n + 1 BY <1>6, <1>7, <2>1
      <3>2. CASE m = n + 1
        <4>1. stack'[t][m] = f /\ ~(m < Len(stack'[t])) BY <1>1, <1>6, <1>7, <2>1, <3>1, <3>2
        <4> QED BY <1>3, <2>1, <3>2, <4>1
      <3>3. CASE m = n
        <4>1. n # 0 /\ m \in 1..n /\ m \in 1..Len(stack[tp]) BY ONLY <1>1, <3>1, <3>3
        <4>2. stack'[t][m] = stack[tp][m] /\ stack'[t][m + 1] = f
          BY <1>6, <1>7, <2>1, <3>3, <4>1
        <4>3. FrameOK(tp, m, stack[tp][m]) BY <1>1, <4>1 DEF StackInv
        <4> QED BY <1>4, <1>5, <2>1, <3>3, <4>1, <4>2, <4>3
      <3>4. CASE m # n + 1 /\ m # n
        <4>1. /\ m \in 1..n /\ m + 1 \in 1..n /\ m \in 1..Len(stack[tp]) /\ m < Len(stack[tp])
          BY ONLY <1>1, <3>1, <3>4
        <4>2. stack'[t][m] = stack[tp][m] /\ stack'[t][m + 1] = stack[tp][m + 1]
          BY <1>6, <1>7, <2>1, <4>1
        <4> QED BY <1>1, <2>1, <4>1, <4>2 DEF StackInv
      <3> QED BY <3>2, <3>3, <3>4
    <2>2. CASE t # tp BY <1>7, <2>2 DEF StackInv
    <2> QED BY <2>1, <2>2
  <1>11. IrqInv'
    <2> SUFFICES ASSUME NEW t \in Tasks, NEW k \in 1..Len(stack'[t]), NEW m \in 1..Len(stack'[t]),
                        k < m, stack'[t][k].stage = "irq"
                 PROVE  ~stack'[t][m].pie
      BY DEF IrqInv
    <2>1. CASE t = tp
      <3>1. k \in 1..(n + 1) /\ m \in 1..(n + 1) BY <1>6, <1>7, <2>1
      <3>2. k \in 1..n /\ n # 0 /\ k \in 1..Len(stack[tp]) /\ stack'[t][k] = stack[tp][k]
        <4>1. k \in 1..n /\ n # 0 BY <1>1, <3>1
        <4> QED BY <1>1, <1>6, <1>7, <2>1, <4>1
      <3>3. CASE m = n + 1
        <4>1. stack'[t][m] = f BY <1>6, <1>7, <2>1, <3>3
        <4>2. stack[tp][n] = Top /\ Fits(ie, n, Top) BY <1>5, <3>2
        <4>3. CASE k = n BY <1>4, <3>2, <4>1, <4>2, <4>3 DEF Fits, OffStages
        <4>4. CASE k # n
          <5>1. n \in 1..Len(stack[tp]) /\ k < n BY <1>1, <3>2, <4>4
          <5>2. ~stack[tp][n].pie BY <1>1, <3>2, <5>1 DEF IrqInv
          <5> QED BY <1>4, <4>1, <4>2, <5>2 DEF Fits
        <4> QED BY <4>3, <4>4
      <3>4. CASE m # n + 1
        <4>1. m \in 1..n /\ m \in 1..Len(stack[tp]) BY ONLY <1>1, <3>1, <3>4
        <4>2. stack'[t][m] = stack[tp][m] BY <1>6, <1>7, <2>1, <4>1
        <4> QED BY <1>1, <3>2, <4>1, <4>2 DEF IrqInv
      <3> QED BY <3>3, <3>4
    <2>2. CASE t # tp BY <1>7, <2>2 DEF IrqInv
    <2> QED BY <2>1, <2>2
  <1>12. UserInv' BY <1>2 DEF UserInv
  <1>13. KernelInv'
    <2>1. f.stage # "restore" /\ stack'[tp'] = q BY <1>4, <1>2, <1>7 DEF Causes
    <2> QED BY <1>3, <1>6, <1>2, <2>1 DEF KernelInv, TopOK
  <1>14. ThreadInv' BY <1>2, <1>7 DEF ThreadInv
  <1> QED BY <1>9, <1>10, <1>11, <1>12, <1>13, <1>14

\* Popping the frame that is restored.
LEMMA PopFacts ==
  ASSUME NEW q \in Seq(TrapFrames), NEW n \in Nat, Len(q) = n + 1
  PROVE  /\ SubSeq(q, 1, n) \in Seq(TrapFrames) /\ Len(SubSeq(q, 1, n)) = n
         /\ \A m \in 1..n : SubSeq(q, 1, n)[m] = q[m]
  <1>1. 1 \in Int /\ n \in Int /\ \A m \in 1..n : q[m] \in TrapFrames BY LenProperties
  <1>2. /\ SubSeq(q, 1, n) \in Seq(TrapFrames)
        /\ Len(SubSeq(q, 1, n)) = IF 1 <= n THEN n - 1 + 1 ELSE 0
        /\ \A m \in 1..(n - 1 + 1) : SubSeq(q, 1, n)[m] = q[1 + m - 1]
    BY <1>1, SubSeqProperties
  <1> QED BY <1>1, <1>2

LEMMA RestoreKeeps == ASSUME IInv, Restore PROVE IInv'
  <1> DEFINE n == Depth - 1
             q == SubSeq(stack[tp], 1, n)
  <1> USE DEF IInv
  <1>1. /\ priv = "kernel" /\ stack[tp] # <<>> /\ Top.stage = "restore" /\ tp \in Tasks
        /\ stack[Owner][Depth] = Top /\ Owner = tp /\ Top \in TrapFrames
        /\ FrameOK(tp, Depth, Top) /\ TopOK(Depth, Top)
    BY Where DEF Restore, InKernel
  <1>2. Depth \in 1..7 /\ Depth = Len(stack[tp]) BY <1>1, Where
  <1>3. n \in 0..6 /\ Depth = n + 1 BY <1>2
  <1>4. /\ priv' = (IF Top.user THEN "user" ELSE "kernel") /\ ie' = Top.pie /\ sp' = Top.sp
        /\ stack' = [stack EXCEPT ![tp] = q]
        /\ UNCHANGED <<sscratch, tp, thread, flags>>
    BY <1>1 DEF Restore
  <1>5. stack[tp] \in Seq(TrapFrames) /\ stack \in [Tasks -> Seq(TrapFrames)]
    BY <1>1, StackType DEF TrapTypeOK
  <1> HIDE DEF n
  <1>6. n \in Nat /\ Len(stack[tp]) = n + 1 BY <1>2, <1>3
  <1>7. q \in Seq(TrapFrames) /\ Len(q) = n /\ \A m \in 1..n : q[m] = stack[tp][m]
    BY <1>5, <1>6, PopFacts
  <1>8. q = <<>> <=> n = 0 BY <1>7, EmptySeq
  <1> HIDE DEF q
  <1>9. /\ stack' \in [Tasks -> Seq(TrapFrames)] /\ stack'[tp] = q
        /\ \A t \in Tasks \ {tp} : stack'[t] = stack[t]
    BY ONLY <1>1, <1>4, <1>5, <1>7
  <1>10. ie' \in BOOLEAN /\ (n = 0 => ie')
    <2>1. n = 0 => ~(Depth > 1) BY ONLY <1>3
    <2> QED BY <1>1, <1>4, <2>1 DEF FrameOK, TrapFrames
  <1>11. IF Top.user THEN n = 0 /\ sp' = UserSp(tp) ELSE sp' = <<tp, n>>
    <2>1. Depth - 1 = n /\ (Depth = 1 => n = 0) BY ONLY <1>3
    <2> QED BY <1>1, <1>4, <2>1 DEF FrameOK
  <1>12. TrapTypeOK'
    <2>1. n \in -1..7 BY ONLY <1>3
    <2>2. sp' \in StackPointers \ {Zero}
      <3>1. CASE Top.user
        <4>1. -1 \in -1..7 OBVIOUS
        <4>2. UserSp(tp) \in StackPointers /\ UserSp(tp) # <<>> BY <1>1, <4>1, Pointers
        <4> QED BY <1>11, <3>1, <4>2
      <3>2. CASE ~Top.user
        <4>1. <<tp, n>> \in StackPointers /\ <<tp, n>> # <<>> BY <1>1, <2>1, Pointers
        <4> QED BY <1>11, <3>2, <4>1
      <3> QED BY <3>1, <3>2
    <2> QED BY <1>4, <1>9, <1>10, <2>2 DEF TrapTypeOK
  <1>13. \A m \in 1..n : m \in 1..Len(stack[tp]) /\ m < Len(stack[tp])
    BY ONLY <1>3, <1>6
  <1>14. StackInv'
    <2> SUFFICES ASSUME NEW t \in Tasks, NEW m \in 1..Len(stack'[t])
                 PROVE  /\ FrameOK(t, m, stack'[t][m])
                        /\ m < Len(stack'[t]) => /\ Suspended(stack'[t][m])
                                                 /\ Fits(stack'[t][m + 1].pie, m, stack'[t][m])
                        /\ t # tp /\ m = Len(stack'[t]) => /\ Suspended(stack'[t][m])
                                                            /\ Fits(TRUE, m, stack'[t][m])
      BY <1>4 DEF StackInv
    <2>1. CASE t = tp
      <3>1. m \in 1..n /\ Len(stack'[t]) = n BY <1>7, <1>9, <2>1
      <3>2. stack'[t][m] = stack[tp][m] BY <1>7, <1>9, <2>1, <3>1
      <3>3. m \in 1..Len(stack[tp]) /\ m < Len(stack[tp]) BY <1>13, <3>1
      <3>4. m < n => m + 1 \in 1..n BY <1>6, <3>1
      <3>5. m < n => stack'[t][m + 1] = stack[tp][m + 1] BY <1>7, <1>9, <2>1, <3>4
      <3> QED BY <1>1, <2>1, <3>1, <3>2, <3>3, <3>5 DEF StackInv
    <2>2. CASE t # tp BY <1>9, <2>2 DEF StackInv
    <2> QED BY <2>1, <2>2
  <1>15. IrqInv'
    <2> SUFFICES ASSUME NEW t \in Tasks, NEW k \in 1..Len(stack'[t]), NEW m \in 1..Len(stack'[t]),
                        k < m, stack'[t][k].stage = "irq"
                 PROVE  ~stack'[t][m].pie
      BY DEF IrqInv
    <2>1. CASE t = tp
      <3>1. k \in 1..n /\ m \in 1..n BY <1>7, <1>9, <2>1
      <3>2. /\ k \in 1..Len(stack[tp]) /\ m \in 1..Len(stack[tp])
            /\ stack[tp][k].stage = "irq" /\ stack'[t][m] = stack[tp][m]
        BY <1>7, <1>9, <1>13, <2>1, <3>1
      <3> QED BY <1>1, <3>2 DEF IrqInv
    <2>2. CASE t # tp BY <1>9, <2>2 DEF IrqInv
    <2> QED BY <2>1, <2>2
  <1>16. UserInv'
    <2> SUFFICES ASSUME Top.user PROVE UserInv'
      BY <1>4 DEF UserInv
    <2>1. sscratch = <<tp, 0>> /\ flags[tp] = {} BY <1>1 DEF TopOK
    <2> QED BY <1>4, <1>8, <1>9, <1>10, <1>11, <2>1 DEF UserInv
  <1>17. KernelInv'
    <2> SUFFICES ASSUME ~Top.user PROVE KernelInv'
      BY <1>4 DEF KernelInv
    <2>1. sscratch' = Zero BY <1>1, <1>4 DEF TopOK
    <2>2. CASE n = 0 BY <1>4, <1>7, <1>8, <1>9, <1>10, <1>11, <2>1, <2>2 DEF KernelInv
    <2>3. CASE n # 0
      <3>1. n \in 1..n /\ n \in 1..Len(stack[tp]) /\ n < Len(stack[tp])
        BY <1>13, <1>6, <2>3
      <3>2. Suspended(stack[tp][n]) /\ Fits(ie', n, stack[tp][n])
        <4>1. stack[tp][n + 1] = Top BY <1>6 DEF Top
        <4> QED BY <1>1, <1>4, <3>1, <4>1 DEF StackInv
      <3>3. q[n] = stack[tp][n] BY <1>7, <3>1
      <3> QED BY <1>4, <1>7, <1>8, <1>9, <1>10, <1>11, <2>1, <2>3, <3>2, <3>3
              DEF KernelInv, TopOK, Suspended, OnStages
    <2> QED BY <2>2, <2>3
  <1>18. ThreadInv' BY <1>4, <1>9 DEF ThreadInv
  <1> QED BY <1>12, <1>14, <1>15, <1>16, <1>17, <1>18

\* The task that is left can be below nothing but process context; the one
\* that goes on has interrupts on.
LEMMA SwitchToKeeps == ASSUME IInv, NEW next \in Tasks, SwitchTo(next) PROVE IInv'
  <1> DEFINE g == [Top EXCEPT !.stage = Resumed(Stage)]
  <1> USE DEF IInv
  <1>1. /\ priv = "kernel" /\ tp \in Tasks /\ Depth = Height(tp) /\ Depth \in 0..7
        /\ next # tp /\ thread[next] # Zero /\ sp = <<tp, Depth>> /\ Height(tp) = Len(stack[tp])
        /\ Stage \in {"syscall", "fault", "notify", "kthread", "idle", "resched"}
        /\ ie \/ Stage = "resched"
        /\ stack[tp] = <<>> <=> Depth = 0
    BY Where, StackType DEF SwitchTo, MaySleep, InKernel
  <1>2. /\ Height(next) \in 0..7 /\ Height(next) = Len(stack[next])
        /\ thread[next] = <<next, Height(next)>>
    <2>1. Height(next) \in 0..7 BY Short
    <2>2. thread[next] = <<next, Height(next)>> BY <1>1, StackType DEF ThreadInv
    <2> QED BY <2>1, <2>2, StackType
  <1>3. /\ priv' = "kernel" /\ sp' = <<next, Height(next)>> /\ tp' = next /\ ie' = TRUE
        /\ sscratch' = sscratch
        /\ thread' = [thread EXCEPT ![tp] = <<tp, Depth>>, ![next] = Zero]
        /\ flags' = [flags EXCEPT ![tp] = @ \ {"NEED_RESCHED"}]
    BY <1>1, <1>2 DEF SwitchTo
  <1>4. sscratch = Zero
    <2>1. CASE stack[tp] = <<>> BY <1>1, <2>1 DEF KernelInv
    <2>2. CASE stack[tp] # <<>>
      BY <1>1, <2>2, Where DEF TopOK
    <2> QED BY <2>1, <2>2
  \* The stack of the task that is left.
  <1>5. /\ stack' \in [Tasks -> Seq(TrapFrames)]
        /\ \A t \in Tasks \ {tp} : stack'[t] = stack[t]
        /\ Len(stack'[tp]) = Len(stack[tp])
        /\ \A n \in 1..Len(stack[tp]) :
             stack'[tp][n] = IF n = Depth THEN g ELSE stack[tp][n]
        /\ Depth # 0 => /\ FrameOK(tp, Depth, g) /\ Suspended(g) /\ Fits(TRUE, Depth, g)
                        /\ g.stage # "irq" /\ g.pie = stack[tp][Depth].pie
    <2>1. CASE Depth = 0
      <3>1. stack' = stack /\ Len(stack[tp]) = 0
        BY <1>1, <2>1 DEF SwitchTo
      <3> QED BY <2>1, <3>1 DEF TrapTypeOK
    <2>2. CASE Depth # 0
      <3>1. /\ stack[tp] # <<>> /\ Top \in TrapFrames /\ Stage = Top.stage /\ Depth = Len(stack[tp])
            /\ FrameOK(tp, Depth, Top) /\ TopOK(Depth, Top)
            /\ Top = stack[tp][Depth]
        BY <1>1, <2>2, Where
      <3>2. Resumed(Stage) \in {"syscall", "fault", "notify", "kthread", "ret"}
        <4>1. Stage # "idle" BY <3>1 DEF TrapFrames, Stages, Causes
        <4> QED BY <1>1, <4>1 DEF Resumed
      <3>3. /\ g \in TrapFrames /\ g.stage = Resumed(Stage)
            /\ g.user = Top.user /\ g.sp = Top.sp /\ g.pie = Top.pie /\ g.level = Top.level
        BY <3>1, <3>2 DEF TrapFrames, Stages, Causes
      <3>4. TopBecomes(g) BY <1>1, <2>2, <3>1, GotoTop DEF SwitchTo
      <3>5. FrameOK(tp, Depth, g)
        BY <3>1, <3>3 DEF FrameOK, Resumed, Height2, TrapFrames
      <3>6. Fits(TRUE, Depth, g)
        <4>1. CASE Stage = "resched"
          <5>1. Depth = 1 /\ g.level = 0 /\ g.stage = "ret" /\ g.pie
            BY <3>1, <3>3, <4>1 DEF FrameOK, Resumed
          <5> QED BY ONLY <5>1 DEF Fits, Height2, OnStages, OffStages
        <4>2. CASE Stage # "resched"
          <5>1. ie = TRUE BY <1>1, <4>2 DEF TrapTypeOK
          <5> QED BY <3>1, <3>3, <4>2, <5>1 DEF TopOK, Fits, Resumed, Height2
        <4> QED BY <4>1, <4>2
      <3>7. Suspended(g) BY <3>2, <3>3 DEF Suspended, OnStages
      <3>8. g.stage # "irq" BY <3>2, <3>3
      <3>9. g \in TrapFrames BY <3>3
      <3> HIDE DEF g
      <3>10. /\ stack' \in [Tasks -> Seq(TrapFrames)]
             /\ \A t \in Tasks :
                  /\ Len(stack'[t]) = Len(stack[t])
                  /\ \A n \in 1..Len(stack[t]) :
                       stack'[t][n] = IF t = tp /\ n = Len(stack[t]) THEN g ELSE stack[t][n]
        BY <3>1, <3>4, <3>9, TopFrames
      <3>11. \A t \in Tasks \ {tp} : stack'[t] = stack[t]
        BY <3>4 DEF TopBecomes, TrapTypeOK
      <3> QED BY ONLY <1>1, <3>1, <3>3, <3>5, <3>6, <3>7, <3>8, <3>10, <3>11
    <2> QED BY <2>1, <2>2
  <1> HIDE DEF g
  <1>6. TrapTypeOK'
    <2>1. sp' \in StackPointers \ {Zero}
      <3>1. Height(next) \in -1..7 BY ONLY <1>2
      <3> QED BY <1>3, <3>1, Pointers
    <2>2. thread' \in [Tasks -> StackPointers]
      <3>1. Depth \in -1..7 BY ONLY <1>1
      <3>2. <<tp, Depth>> \in StackPointers BY <1>1, <3>1, Pointers
      <3>3. Zero \in StackPointers BY DEF StackPointers, MaxNesting
      <3> QED BY <1>3, <3>2, <3>3 DEF TrapTypeOK
    <2> QED BY <1>3, <1>4, <1>5, <2>1, <2>2 DEF TrapTypeOK
  <1>7. StackInv'
    <2> SUFFICES ASSUME NEW t \in Tasks, NEW n \in 1..Len(stack'[t])
                 PROVE  /\ FrameOK(t, n, stack'[t][n])
                        /\ n < Len(stack'[t]) => /\ Suspended(stack'[t][n])
                                                 /\ Fits(stack'[t][n + 1].pie, n, stack'[t][n])
                        /\ t # next /\ n = Len(stack'[t]) => /\ Suspended(stack'[t][n])
                                                              /\ Fits(TRUE, n, stack'[t][n])
      BY <1>3 DEF StackInv
    <2>1. CASE t = tp
      <3>1. n \in 1..Len(stack[tp]) /\ n \in 1..Depth /\ Depth # 0 /\ Len(stack'[t]) = Depth
        <4>1. n \in 1..Len(stack[tp]) /\ Len(stack'[t]) = Len(stack[tp]) BY <1>5, <2>1
        <4>2. Len(stack[tp]) = Depth BY <1>1
        <4> QED BY <1>1, <4>1, <4>2
      <3>2. CASE n = Depth
        <4>1. ~(n < Len(stack'[t])) BY <1>1, <3>1, <3>2
        <4>2. stack'[t][n] = g BY <1>5, <2>1, <3>1, <3>2
        <4> QED BY <1>5, <2>1, <3>1, <3>2, <4>1, <4>2
      <3>3. CASE n # Depth
        <4>1. n < Depth /\ n + 1 \in 1..Len(stack[tp]) BY <1>1, <3>1, <3>3
        <4>2. stack'[t][n] = stack[tp][n] /\ stack'[t][n + 1].pie = stack[tp][n + 1].pie
          BY <1>5, <2>1, <3>1, <3>3, <4>1
        <4> QED BY <1>1, <2>1, <3>1, <3>3, <4>1, <4>2 DEF StackInv
      <3> QED BY <3>2, <3>3
    <2>2. CASE t # tp BY <1>5, <2>2 DEF StackInv
    <2> QED BY <2>1, <2>2
  <1>8. IrqInv'
    <2> SUFFICES ASSUME NEW t \in Tasks, NEW k \in 1..Len(stack'[t]), NEW m \in 1..Len(stack'[t]),
                        k < m, stack'[t][k].stage = "irq"
                 PROVE  ~stack'[t][m].pie
      BY DEF IrqInv
    <2>1. CASE t = tp
      <3>1. k \in 1..Len(stack[tp]) /\ m \in 1..Len(stack[tp]) /\ Depth # 0
        BY <1>1, <1>5, <2>1
      <3>2. k # Depth /\ stack'[t][k] = stack[tp][k] BY <1>5, <2>1, <3>1
      <3>3. stack'[t][m].pie = stack[tp][m].pie BY <1>5, <2>1, <3>1
      <3> QED BY <1>1, <3>1, <3>2, <3>3 DEF IrqInv
    <2>2. CASE t # tp BY <1>5, <2>2 DEF IrqInv
    <2> QED BY <2>1, <2>2
  <1>9. UserInv' BY <1>3 DEF UserInv
  <1>10. KernelInv'
    <2>1. stack'[tp'] = stack[next] BY <1>1, <1>3, <1>5
    <2>2. CASE stack[next] = <<>>
      BY <1>2, <1>3, <1>4, <2>1, <2>2 DEF KernelInv
    <2>3. CASE stack[next] # <<>>
      <3>1. Len(stack[next]) \in 1..Len(stack[next])
        BY <1>2, <2>3, StackType
      <3>2. /\ Suspended(stack[next][Len(stack[next])])
            /\ Fits(TRUE, Len(stack[next]), stack[next][Len(stack[next])])
        BY <1>1, <3>1 DEF StackInv
      <3> QED BY <1>2, <1>3, <1>4, <2>1, <2>3, <3>2
              DEF KernelInv, TopOK, Suspended, OnStages
    <2> QED BY <2>2, <2>3
  <1>11. ThreadInv'
    <2>1. thread'[next] = Zero /\ thread'[tp] = <<tp, Len(stack'[tp])>>
      BY <1>1, <1>3, <1>5 DEF TrapTypeOK
    <2>2. \A t \in Tasks \ {tp, next} : thread'[t] = thread[t] /\ stack'[t] = stack[t]
      BY <1>3, <1>5 DEF TrapTypeOK
    <2> QED BY <1>3, <2>1, <2>2 DEF ThreadInv
  <1> QED BY <1>6, <1>7, <1>8, <1>9, <1>10, <1>11

LEMMA NextIInv ==
  ASSUME IInv, [TrapNext]_trapVars
  PROVE  IInv'
  <1>1. CASE UNCHANGED trapVars
    BY <1>1 DEF trapVars, IInv, TrapTypeOK, StackInv, IrqInv, UserInv, KernelInv, TopOK, ThreadInv
  <1> QED BY <1>1, TrapKeeps, RaiseWorkKeeps, SoftirqKeeps, HandlerReturnsKeeps, ForkKeeps,
             KernelThreadKeeps, SwitchToKeeps, ExecKeeps, ScheduleSameKeeps,
             RetFromExceptionKeeps, ResumeUserspaceKeeps, WorkReschedKeeps,
             WorkNotifysigKeeps, NotifyResumeKeeps, RestoreKeeps DEF TrapNext

-----------------------------------------------------------------------------
\* What a step may do to the frames.

Untouched ==
    \A t \in Tasks : \A n \in 1..Len(stack[t]) :
          LET f == stack[t][n]
              top == t = tp /\ n = Len(stack[t])
          IN IF n <= Len(stack'[t])
             THEN LET g == stack'[t][n]
                  IN /\ top \/ g = f
                     /\ f.stage = "kthread" \/ <<g.user, g.pie, g.sp>> = <<f.user, f.pie, f.sp>>
             ELSE top /\ f.stage = "restore"

\* Whatever keeps every frame, and adds some.
LEMMA KeptUntouched ==
  ASSUME TrapTypeOK,
         \A t \in Tasks : \A n \in 1..Height(t) :
            n <= Len(stack'[t]) /\ stack'[t][n] = stack[t][n]
  PROVE  Untouched
  BY StackType DEF Untouched

LEMMA TopUntouched ==
  ASSUME TrapTypeOK, stack[tp] # <<>>, NEW g \in TrapFrames, TopBecomes(g),
         Top.stage = "kthread" \/ <<g.user, g.pie, g.sp>> = <<Top.user, Top.pie, Top.sp>>
  PROVE  Untouched
  <1> SUFFICES ASSUME NEW t \in Tasks, NEW n \in 1..Len(stack[t])
               PROVE  LET f == stack[t][n]
                          top == t = tp /\ n = Len(stack[t])
                      IN IF n <= Len(stack'[t])
                         THEN /\ top \/ stack'[t][n] = f
                              /\ \/ f.stage = "kthread"
                                 \/ <<stack'[t][n].user, stack'[t][n].pie, stack'[t][n].sp>>
                                      = <<f.user, f.pie, f.sp>>
                         ELSE top /\ f.stage = "restore"
    BY DEF Untouched
  <1>1. /\ Len(stack'[t]) = Len(stack[t])
        /\ stack'[t][n] = IF t = tp /\ n = Len(stack[t]) THEN g ELSE stack[t][n]
    BY TopFrames
  <1>2. n <= Len(stack'[t])
    BY <1>1, StackType
  <1>3. CASE t = tp /\ n = Len(stack[t])
    BY <1>1, <1>2, <1>3 DEF Top
  <1>4. CASE ~(t = tp /\ n = Len(stack[t]))
    BY <1>1, <1>2, <1>4
  <1> QED BY <1>3, <1>4

LEMMA GotoUntouched ==
  ASSUME IInv, priv = "kernel", stack[tp] # <<>>, NEW stage \in Stages, Goto(stage)
  PROVE  Untouched
  <1> DEFINE g == [Top EXCEPT !.stage = stage]
  <1>1. Top \in TrapFrames BY Where
  <1>2. g \in TrapFrames /\ <<g.user, g.pie, g.sp>> = <<Top.user, Top.pie, Top.sp>>
    BY <1>1 DEF TrapFrames
  <1>3. TopBecomes(g) BY GotoTop
  <1> HIDE DEF g
  <1> QED BY <1>2, <1>3, TopUntouched DEF IInv

\* A step to another place of the same handler, or of the return path.
LEMMA MovesUntouched ==
  ASSUME IInv,
         \/ Softirq \/ ScheduleSame \/ RetFromException
         \/ ResumeUserspace \/ WorkResched
  PROVE  Untouched
  <1>1. priv = "kernel" /\ stack[tp] # <<>>
    BY Where DEF Softirq, ScheduleSame, RetFromException, ResumeUserspace,
                 WorkResched, InKernel
  <1>2. PICK stage \in Stages : Goto(stage)
    BY DEF Softirq, ScheduleSame, RetFromException, ResumeUserspace,
           WorkResched, Resumed, Stages
  <1> QED BY <1>1, <1>2, GotoUntouched

LEMMA HandlerReturnsUntouched == ASSUME IInv, HandlerReturns PROVE Untouched
  BY HandlerReturnsTop, TopUntouched DEF IInv

LEMMA NotifyUntouched ==
  ASSUME IInv, WorkNotifysig \/ \E more \in BOOLEAN : NotifyResume(more)
  PROVE  Untouched
  <1>1. /\ priv = "kernel" /\ stack[tp] # <<>> /\ Top \in TrapFrames /\ tp \in Tasks
        /\ flags[tp] \in SUBSET Raised /\ Owner = tp /\ Depth = Len(stack[tp])
        /\ Top = stack[tp][Depth] /\ TrapTypeOK
    BY Where DEF WorkNotifysig, NotifyResume, InKernel, IInv, TrapTypeOK
  <1>2. CASE WorkNotifysig
    <2> DEFINE g == [Top EXCEPT !.stage = "notify", !.s0 = flags[tp]]
    <2>1. g \in TrapFrames /\ <<g.user, g.pie, g.sp>> = <<Top.user, Top.pie, Top.sp>>
      BY <1>1 DEF TrapFrames, Stages, Causes
    <2>2. TopBecomes(g) BY ZenonT(60), <1>1, <1>2 DEF WorkNotifysig, TopBecomes, Top
    <2> HIDE DEF g
    <2> QED BY <1>1, <2>1, <2>2, TopUntouched
  <1>3. CASE \E more \in BOOLEAN : NotifyResume(more)
    <2> DEFINE g == [Top EXCEPT !.stage = "ret", !.s0 = {}]
    <2>1. g \in TrapFrames /\ <<g.user, g.pie, g.sp>> = <<Top.user, Top.pie, Top.sp>>
      BY <1>1 DEF TrapFrames, Stages, Causes
    <2>2. PICK more \in BOOLEAN : NotifyResume(more) BY <1>3
    <2>3. TopBecomes(g) BY <2>2, NotifyResumeTop
    <2> HIDE DEF g
    <2> QED BY <1>1, <2>1, <2>3, TopUntouched
  <1> QED BY <1>2, <1>3

LEMMA ExecUntouched == ASSUME IInv, Exec PROVE Untouched
  <1> DEFINE g == StartThread(Top)
  <1>1. /\ priv = "kernel" /\ stack[tp] # <<>> /\ Top.stage = "kthread"
        /\ Len(stack[tp]) = 1 /\ tp \in Tasks /\ Top \in TrapFrames /\ TrapTypeOK
    BY Where DEF Exec, InKernel, IInv
  <1>2. TopBecomes(g) BY <1>1 DEF Exec, TopBecomes, Top
  <1>3. g \in TrapFrames
    <2>1. UserSp(tp) \in StackPointers BY <1>1, Bottoms
    <2> HIDE DEF UserSp
    <2> QED BY <1>1, <2>1 DEF TrapFrames, Stages, Causes, StartThread
  <1> HIDE DEF g
  <1> QED BY <1>1, <1>2, <1>3, TopUntouched

LEMMA SwitchUntouched == ASSUME IInv, NEW next \in Tasks, SwitchTo(next) PROVE Untouched
  <1>1. CASE Depth = 0
    BY <1>1, StackType, KeptUntouched DEF SwitchTo, IInv
  <1>2. CASE Depth # 0
    <2>1. /\ priv = "kernel" /\ stack[tp] # <<>> /\ Top \in TrapFrames /\ Stage = Top.stage
      BY <1>2, Where DEF SwitchTo, MaySleep, InKernel
    <2>2. Resumed(Stage) \in Stages /\ Goto(Resumed(Stage))
      BY <1>2, <2>1 DEF SwitchTo, Resumed, TrapFrames, Stages, Causes
    <2> QED BY <2>1, <2>2, GotoUntouched
  <1> QED BY <1>1, <1>2

\* A new task had nothing on its stack.
LEMMA NewTaskUntouched ==
  ASSUME IInv, NEW t \in Tasks, Fork(t) \/ KernelThread(t)
  PROVE  Untouched
  <1>1. Height(t) = 0 /\ \A u \in Tasks \ {t} : stack'[u] = stack[u]
    <2>1. t # tp /\ thread[t] = Zero BY DEF Fork, KernelThread
    <2>2. thread[t] # <<t, Len(stack[t])>> BY <2>1
    <2>3. stack[t] = <<>> BY <2>1, <2>2 DEF IInv, ThreadInv
    <2> QED BY <2>3, StackType DEF Fork, KernelThread, IInv, TrapTypeOK
  <1>2. ASSUME NEW u \in Tasks, NEW n \in 1..Height(u)
        PROVE  n <= Len(stack'[u]) /\ stack'[u][n] = stack[u][n]
    <2>1. u # t BY <1>1, <1>2
    <2>2. stack'[u] = stack[u] /\ n <= Height(u) /\ Height(u) = Len(stack[u])
      BY <1>1, <2>1, StackType DEF IInv
    <2> QED BY <2>2
  <1> QED BY <1>2, KeptUntouched DEF IInv

LEMMA TrapUntouched ==
  ASSUME IInv, NEW cause \in Causes, Trap(cause)
  PROVE  Untouched
  <1> DEFINE f == Pushed(cause)
             q == Append(stack[tp], f)
  <1>1. f \in TrapFrames /\ stack' = [stack EXCEPT ![tp] = q] BY TrapPushes
  <1> HIDE DEF f
  <1>2. /\ tp \in Tasks /\ stack \in [Tasks -> Seq(TrapFrames)] /\ stack[tp] \in Seq(TrapFrames)
        /\ Height(tp) = Len(stack[tp]) /\ Height(tp) \in Nat
    BY StackType DEF IInv, TrapTypeOK
  <1>3. Len(q) = Height(tp) + 1 /\ \A n \in 1..Height(tp) : q[n] = stack[tp][n]
    BY <1>1, <1>2, AppendFacts
  <1> HIDE DEF q
  <1>4. stack'[tp] = q /\ \A u \in Tasks \ {tp} : stack'[u] = stack[u]
    BY ONLY <1>1, <1>2
  <1>5. ASSUME NEW u \in Tasks, NEW n \in 1..Height(u)
        PROVE  n <= Len(stack'[u]) /\ stack'[u][n] = stack[u][n]
    <2>1. CASE u = tp
      <3>1. n \in 1..Height(tp) /\ n <= Height(tp) + 1 BY <1>2, <2>1
      <3> QED BY <1>3, <1>4, <2>1, <3>1
    <2>2. CASE u # tp
      <3>1. stack'[u] = stack[u] /\ n <= Height(u) /\ Height(u) = Len(stack[u])
        BY <1>4, <2>2, StackType DEF IInv
      <3> QED BY <3>1
    <2> QED BY <2>1, <2>2
  <1> QED BY <1>5, KeptUntouched DEF IInv

LEMMA RestoreUntouched == ASSUME IInv, Restore PROVE Untouched
  <1> DEFINE n == Depth - 1
             q == SubSeq(stack[tp], 1, n)
  <1>1. /\ priv = "kernel" /\ stack[tp] # <<>> /\ Top.stage = "restore" /\ tp \in Tasks
        /\ Owner = tp /\ Depth \in 1..7 /\ Depth = Len(stack[tp]) /\ Top = stack[tp][Depth]
    BY Where DEF Restore, InKernel
  <1>2. n \in Nat /\ Depth = n + 1 /\ stack' = [stack EXCEPT ![tp] = q]
    BY <1>1 DEF Restore
  <1>3. stack[tp] \in Seq(TrapFrames) /\ stack \in [Tasks -> Seq(TrapFrames)]
    BY <1>1, StackType DEF IInv, TrapTypeOK
  <1> HIDE DEF n
  <1>4. Len(q) = n /\ \A m \in 1..n : q[m] = stack[tp][m]
    BY <1>1, <1>2, <1>3, PopFacts
  <1> HIDE DEF q
  <1>5. stack'[tp] = q /\ \A u \in Tasks \ {tp} : stack'[u] = stack[u]
    BY ONLY <1>1, <1>2, <1>3
  <1>6. ASSUME NEW t \in Tasks, NEW m \in 1..Len(stack[t])
        PROVE  \/ m <= Len(stack'[t]) /\ stack'[t][m] = stack[t][m]
               \/ /\ ~(m <= Len(stack'[t])) /\ t = tp /\ m = Len(stack[t])
                  /\ stack[t][m].stage = "restore"
    <2>1. CASE t # tp
      <3>1. stack'[t] = stack[t] /\ m <= Len(stack[t]) BY <1>5, <2>1
      <3> QED BY <3>1
    <2>2. CASE t = tp
      <3>1. m \in 1..Depth BY <1>1, <2>2
      <3>2. CASE m = Depth
        <4>1. ~(m <= n) BY ONLY <1>2, <3>2
        <4> QED BY <1>1, <1>4, <1>5, <2>2, <3>2, <4>1
      <3>3. CASE m # Depth
        <4>1. m \in 1..n /\ m <= n BY ONLY <1>2, <3>1, <3>3
        <4> QED BY <1>4, <1>5, <2>2, <4>1
      <3> QED BY <3>2, <3>3
    <2> QED BY <2>1, <2>2
  <1> QED BY <1>6 DEF Untouched

LEMMA NextUntouched == ASSUME IInv, [TrapNext]_trapVars PROVE Untouched
  <1>1. CASE UNCHANGED stack
    BY <1>1, StackType, KeptUntouched DEF IInv
  <1>2. UNCHANGED trapVars => UNCHANGED stack BY DEF trapVars
  <1>3. \A t \in Tasks, f \in Raised : RaiseWork(t, f) => UNCHANGED stack
    BY DEF RaiseWork
  <1> QED BY <1>1, <1>2, <1>3, TrapUntouched, MovesUntouched, HandlerReturnsUntouched,
             NewTaskUntouched, SwitchUntouched,
             ExecUntouched, NotifyUntouched, RestoreUntouched DEF TrapNext

-----------------------------------------------------------------------------
\* The inductive invariant.
THEOREM Invariance == TrapSpec => []IInv
  BY InitIInv, NextIInv, PTL DEF TrapSpec

\* The variables have their types in every reachable state: sscratch and sp are
\* never anything but the bottom or the inside of some task's kernel stack.
THEOREM TypeCorrect == TrapSpec => []TrapTypeOK
  <1>1. IInv => TrapTypeOK BY DEF IInv
  <1> QED BY <1>1, Invariance, PTL

\* sscratch is the kernel stack pointer exactly in user mode and on the last
\* instructions before it, and 0 otherwise (entry.S:26-47, 205-218).
THEOREM SscratchCorrect == TrapSpec => []SscratchRight
  <1>1. ASSUME IInv PROVE SscratchRight
    <2>1. priv = "user" => sscratch = <<tp, 0>> /\ stack[tp] = <<>>
      BY <1>1 DEF IInv, UserInv
    <2>2. ASSUME priv = "kernel", sscratch # Zero
          PROVE  Stage = "restore" /\ ~ie /\ stack[tp][1].user /\ sscratch = <<tp, 0>>
      <3>1. stack[tp] # <<>> BY <1>1, <2>2 DEF IInv, KernelInv
      <3>2. Top.stage = "restore" /\ Top.user /\ ~ie /\ sscratch = <<tp, 0>>
        BY <1>1, <2>2, <3>1, Where DEF TopOK, Fits, OffStages
      <3>3. Depth = 1 /\ Top = stack[tp][Depth] /\ Stage = "restore"
        BY <1>1, <2>2, <3>1, <3>2, Where DEF FrameOK
      <3> QED BY <3>2, <3>3
    <2> QED BY <2>1, <2>2 DEF SscratchRight
  <1> QED BY <1>1, Invariance, PTL

\* The current pointer always names the task on whose stack the hart runs
\* (entry.S:41-47 and __switch_to).
THEOREM CurrentCorrect == TrapSpec => []CurrentOwnsStack
  <1>1. IInv => CurrentOwnsStack
    BY Where DEF IInv, TrapTypeOK, UserInv, CurrentOwnsStack
  <1> QED BY <1>1, Invariance, PTL

\* Every stack of nested traps leads back, frame by frame, to the task's own
\* user mode, and a task switched out left all of it behind.
THEOREM StacksCorrect == TrapSpec => []StacksWhole
  <1>1. ASSUME IInv PROVE StacksWhole
    <2>1. \A t \in Tasks : t # tp /\ thread[t] # Zero => thread[t] = <<t, Len(stack[t])>>
      BY <1>1 DEF IInv, ThreadInv
    <2>2. ASSUME NEW t \in Tasks, NEW n \in 1..Len(stack[t])
          PROVE  LET f == stack[t][n]
                 IN IF f.user THEN n = 1 /\ f.sp = UserSp(t) /\ f.pie
                    ELSE \/ n = 1 /\ f.pie /\ (f.stage = "kthread" \/ f.sp = <<t, 0>>)
                         \/ /\ n > 1 /\ f.sp = <<t, n - 1>>
                            /\ stack[t][n - 1].stage \in {"irq", "resched"} => ~f.pie
                            /\ stack[t][n - 1].stage \in {"softirq", "syscall", "notify", "kthread"}
                                  => f.pie
      <3>1. FrameOK(t, n, stack[t][n]) /\ Len(stack[t]) \in Nat
        BY <1>1, StackType DEF IInv, StackInv
      <3>2. CASE n = 1 BY <3>1, <3>2 DEF FrameOK
      <3>3. CASE n # 1
        <4> DEFINE m == n - 1
        <4>1. m \in 1..Len(stack[t]) /\ m < Len(stack[t]) /\ m + 1 = n /\ n > 1 BY <3>1, <3>3
        <4> HIDE DEF m
        <4>2. Fits(stack[t][n].pie, m, stack[t][m]) BY <1>1, <4>1 DEF IInv, StackInv
        <4> QED BY <3>1, <3>3, <4>1, <4>2 DEF FrameOK, Fits, OnStages, OffStages, m
      <3> QED BY <3>2, <3>3
    <2> QED BY <2>1, <2>2 DEF StacksWhole
  <1> QED BY <1>1, Invariance, PTL

\* User mode is entered with no work pending (entry.S:199-218).
THEOREM NoWorkCorrect == TrapSpec => []NoWorkLeftBehind
  <1>1. IInv => NoWorkLeftBehind BY DEF IInv, UserInv, NoWorkLeftBehind
  <1> QED BY <1>1, Invariance, PTL

\* However interrupts, softirqs and faults come, those of vmalloc memory in
\* any handler included, no kernel stack holds more than seven frames, nor two
\* of interrupt handlers that run no softirqs.
THEOREM NestingCorrect == TrapSpec => []NestingBounded
  <1>1. ASSUME IInv PROVE NestingBounded
    <2> SUFFICES ASSUME NEW t \in Tasks
                 PROVE  /\ Len(stack[t]) <= MaxNesting
                        /\ Cardinality({n \in 1..Len(stack[t]) : stack[t][n].stage = "irq"}) <= 1
      BY DEF NestingBounded
    <2> DEFINE irqs == {n \in 1..Len(stack[t]) : stack[t][n].stage = "irq"}
    <2>1. Len(stack[t]) <= MaxNesting
      <3>1. Height(t) \in 0..7 BY <1>1, Short
      <3>2. Height(t) = Len(stack[t]) BY <1>1, StackType DEF IInv
      <3>3. \A n \in 0..7 : n <= MaxNesting BY DEF MaxNesting
      <3> HIDE DEF Height
      <3> QED BY <3>1, <3>2, <3>3
    <2>2. ASSUME NEW m \in irqs, NEW n \in irqs, m < n PROVE FALSE
      <3>1. ~stack[t][n].pie BY <1>1, <2>2 DEF IInv, IrqInv
      <3>2. FrameOK(t, n, stack[t][n]) BY <1>1 DEF IInv, StackInv
      <3> QED BY <3>1, <3>2 DEF FrameOK
    <2>3. ASSUME NEW m \in irqs PROVE irqs \in SUBSET {m}
      <3> SUFFICES ASSUME NEW n \in irqs PROVE n = m
        OBVIOUS
      <3>1. m \in Int /\ n \in Int /\ ~(m < n) /\ ~(n < m) BY <2>2
      <3> QED BY ONLY <3>1
    <2>4. Cardinality(irqs) <= 1
      <3>1. CASE irqs = {}
        <4> HIDE DEF irqs
        <4>1. Cardinality(irqs) = 0 BY <3>1, FS_EmptySet
        <4> QED BY <4>1
      <3>2. CASE irqs # {}
        <4>1. PICK m \in irqs : TRUE BY <3>2
        <4>2. irqs \in SUBSET {m} BY <2>3
        <4> HIDE DEF irqs
        <4>3. IsFiniteSet({m}) /\ Cardinality({m}) = 1 BY FS_Singleton
        <4>4. Cardinality(irqs) <= Cardinality({m}) BY <4>2, <4>3, FS_Subset
        <4> QED BY <4>3, <4>4
      <3> QED BY <3>1, <3>2
    <2> QED BY <2>1, <2>4
  <1> QED BY <1>1, Invariance, PTL

\* What a trap saved is what its return restores: no step touches a frame below
\* the top, nor what is restored from it, and only the top frame goes.
THEOREM FramesCorrect == TrapSpec => FramesUntouched
  <1>1. IInv /\ [TrapNext]_trapVars => [Untouched]_trapVars
    BY NextUntouched
  <1>2. TrapSpec => [][Untouched]_trapVars
    BY <1>1, Invariance, PTL DEF TrapSpec
  <1> QED BY <1>2 DEF FramesUntouched, Untouched
=============================================================================
