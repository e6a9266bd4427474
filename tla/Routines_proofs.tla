-------------------------- MODULE Routines_proofs --------------------------
(***************************************************************************)
(* Proofs about the routines that keep no state between calls, each for    *)
(* every size of register, stack and argument: the time counter, the stack *)
(* walks, user copies, memset and memcpy, the atomics, the frame buffer,   *)
(* and the passes over the configuration string, for every string.         *)
(***************************************************************************)
EXTENDS Routines, TLAPS, WellFoundedInduction, FiniteSetTheorems, SequenceTheorems

-----------------------------------------------------------------------------
\* The time counter.

ClockTypes ==
    /\ time \in Nat /\ start \in 0..time
    /\ phase \in {"off", "hi", "lo", "again", "t0", "loop", "timer", "done"}
    /\ user \in {"none", "t0", "loop", "timer"}
    /\ phase \in {"t0", "loop", "timer"} => user = phase
    /\ phase # "off" => user # "none"
    /\ want \in 0..Xlen - 1
    /\ hi \in 0..Xlen - 1 /\ lo \in 0..Xlen - 1 /\ t0 \in 0..Xlen - 1
    /\ halves \in BOOLEAN

\* lo has been read since time t.
ReadSince(t) == \E r \in t..time : lo = r % Xlen

\* A caller's first reading is of a time after the call, ...
FirstReadInv ==
    user \in {"t0", "timer"} /\ phase \in {"again", "t0", "timer"} => ReadSince(start)

\* ... and what __delay reads in its loop of one after t0.
LoopReadInv ==
    user = "loop" =>
        \E r \in start..time :
            t0 = r % Xlen /\ (phase \in {"again", "loop"} => ReadSince(r))

ClockInv == ClockTypes /\ FirstReadInv /\ LoopReadInv /\ WaitsLongEnough

\* The sum of a multiple of a register and a register is that register.
LEMMA LowHalf ==
  ASSUME NEW X \in Nat \ {0}, NEW h \in Int, NEW l \in 0..X - 1
  PROVE  (h * X + l) % X = l
  OBVIOUS

LEMMA ModRange ==
  ASSUME NEW X \in Nat \ {0}, NEW a \in Int
  PROVE  a % X \in 0..X - 1
  OBVIOUS

LEMMA ModSmall ==
  ASSUME NEW X \in Nat \ {0}, NEW a \in 0..X - 1
  PROVE  a % X = a
  OBVIOUS

\* The difference of two readings, taken in a register, is at most the time
\* between them.
LEMMA Difference ==
  ASSUME NEW X \in Nat \ {0}, NEW a \in Nat, NEW b \in Nat, b >= a,
         NEW w \in Nat, ((b % X) - (a % X)) % X >= w
  PROVE  b - a >= w
  OBVIOUS

\* get_cycles is the low half in both builds.
LEMMA GetCycles ==
  ASSUME ClockTypes
  PROVE  get_cycles = lo
  BY ClockAssumption, LowHalf DEF ClockTypes, get_cycles

LEMMA ClockStart == ClockInit \/ ClockOff => ClockInv
  <1>1. ASSUME ClockInit PROVE ClockInv
    BY <1>1, ClockAssumption
    DEF ClockInit, ClockInv, ClockTypes, FirstReadInv, LoopReadInv, WaitsLongEnough
  <1>2. ASSUME ClockOff PROVE ClockInv
    <2>1. halves \in BOOLEAN BY <1>2 DEF ClockOff
    <2>2. /\ time = 0 /\ user = "none" /\ want = 0 /\ phase = "off"
          /\ hi = 0 /\ lo = 0 /\ t0 = 0 /\ start = 0
      BY <1>2 DEF ClockOff
    <2>3. ClockTypes BY <2>1, <2>2, ClockAssumption DEF ClockTypes
    <2>4. phase = "off" /\ user = "none" BY <1>2 DEF ClockOff
    <2> QED
      BY <2>3, <2>4 DEF ClockInv, FirstReadInv, LoopReadInv, WaitsLongEnough
  <1> QED BY <1>1, <1>2

LEMMA ClockTypesStep == ClockTypes /\ [ClockNext]_clockVars => ClockTypes'
  <1> SUFFICES ASSUME ClockTypes, [ClockNext]_clockVars PROVE ClockTypes' OBVIOUS
  <1> USE ClockAssumption DEF ClockTypes
  <1>1. CASE Tick BY <1>1 DEF Tick
  <1>2. CASE ReadHi
    <2>1. stimeh \in 0..Xlen - 1
      <3>1. time \div Xlen \in Int OBVIOUS
      <3> QED BY <3>1, ModRange DEF stimeh
    <2> QED BY <1>2, <2>1 DEF ReadHi
  <1>3. CASE ReadLo
    <2>1. stime \in 0..Xlen - 1 BY ModRange DEF stime
    <2> QED BY <1>3, <2>1 DEF ReadLo
  <1>4. CASE ReadAgain BY <1>4 DEF ReadAgain
  <1>5. CASE DelayStart BY <1>5, GetCycles DEF DelayStart
  <1>6. CASE DelayLoop BY <1>6 DEF DelayLoop
  <1>7. CASE SetNextEvent BY <1>7 DEF SetNextEvent
  <1>8. CASE UNCHANGED clockVars BY <1>8 DEF clockVars
  <1> QED
    BY <1>1, <1>2, <1>3, <1>4, <1>5, <1>6, <1>7, <1>8 DEF ClockNext

LEMMA ClockStep == ClockInv /\ [ClockNext]_clockVars => ClockInv'
  <1> SUFFICES ASSUME ClockInv, [ClockNext]_clockVars PROVE ClockInv' OBVIOUS
  <1>1. ClockTypes /\ ClockTypes' BY ClockTypesStep DEF ClockInv
  <1>2. CASE Tick
    <2>1. /\ time' = time + 1 /\ phase # "done"
          /\ UNCHANGED <<phase, user, want, hi, lo, t0, timecmp, halves, start>>
      BY <1>2 DEF Tick
    <2>2. ASSUME NEW r \in Nat, ReadSince(r) PROVE ReadSince(r)'
      BY <1>1, <2>1, <2>2 DEF ReadSince, ClockTypes
    <2>3. FirstReadInv' BY <1>1, <2>1, <2>2 DEF ClockInv, FirstReadInv, ClockTypes
    <2>4. LoopReadInv'
      <3>1. SUFFICES ASSUME user = "loop" PROVE LoopReadInv' BY <2>1 DEF LoopReadInv
      <3>2. PICK r \in start..time :
              t0 = r % Xlen /\ (phase \in {"again", "loop"} => ReadSince(r))
        BY <3>1 DEF ClockInv, LoopReadInv
      <3>3. r \in Nat /\ r \in start'..time' BY <1>1, <2>1 DEF ClockTypes
      <3> QED BY <2>1, <2>2, <3>2, <3>3 DEF LoopReadInv
    <2>5. WaitsLongEnough' BY <2>1 DEF WaitsLongEnough
    <2> QED BY <1>1, <2>3, <2>4, <2>5 DEF ClockInv
  <1>3. CASE ReadHi
    BY <1>1, <1>3 DEF ReadHi, ClockInv, FirstReadInv, LoopReadInv, WaitsLongEnough,
                      ReadSince
  <1>4. CASE ReadLo
    <2>1. /\ lo' = time % Xlen /\ phase = "lo" /\ phase' \in {"again", user}
          /\ UNCHANGED <<time, user, want, hi, t0, timecmp, halves, start>>
      BY <1>4 DEF ReadLo, stime
    <2>2. ASSUME NEW r \in Nat, r <= time PROVE ReadSince(r)'
      BY <1>1, <2>1, <2>2 DEF ReadSince, ClockTypes
    <2>3. FirstReadInv' BY <1>1, <2>1, <2>2 DEF FirstReadInv, ClockTypes
    <2>4. LoopReadInv'
      <3>1. SUFFICES ASSUME user = "loop" PROVE LoopReadInv' BY <2>1 DEF LoopReadInv
      <3>2. PICK r \in start..time : t0 = r % Xlen
        BY <3>1 DEF ClockInv, LoopReadInv
      <3>3. r \in Nat /\ r <= time BY <1>1 DEF ClockTypes
      <3> QED BY <2>1, <2>2, <3>2, <3>3 DEF LoopReadInv
    <2>5. phase' # "done" BY <1>1, <2>1 DEF ClockTypes
    <2> QED BY <1>1, <2>3, <2>4, <2>5 DEF ClockInv, WaitsLongEnough
  <1>5. CASE ReadAgain
    <2>1. /\ phase = "again" /\ phase' \in {"hi", user}
          /\ UNCHANGED <<time, user, want, hi, lo, t0, timecmp, halves, start>>
      BY <1>5 DEF ReadAgain
    <2>2. phase' # "done" BY <1>1, <2>1 DEF ClockTypes
    <2> QED
      BY <1>1, <2>1, <2>2
      DEF ClockInv, FirstReadInv, LoopReadInv, WaitsLongEnough, ReadSince
  <1>6. CASE DelayStart
    <2>1. /\ phase = "t0" /\ t0' = lo /\ user' = "loop" /\ phase' = "hi"
          /\ UNCHANGED <<time, start>>
      BY <1>1, <1>6, GetCycles DEF DelayStart
    <2>2. \E r \in start..time : lo = r % Xlen
      BY <1>1, <2>1 DEF ClockInv, FirstReadInv, ClockTypes, ReadSince
    <2> QED
      BY <1>1, <2>1, <2>2 DEF ClockInv, FirstReadInv, LoopReadInv, WaitsLongEnough
  <1>7. CASE DelayLoop
    <2>1. /\ phase = "loop" /\ user = "loop"
          /\ phase' = IF (lo - t0) % Xlen >= want THEN "done" ELSE "hi"
          /\ UNCHANGED <<time, user, want, hi, lo, t0, timecmp, halves, start>>
      BY <1>1, <1>7, GetCycles DEF DelayLoop, Elapsed, ClockTypes
    <2>2. FirstReadInv' /\ LoopReadInv'
      BY <2>1 DEF ClockInv, FirstReadInv, LoopReadInv
    <2>3. WaitsLongEnough'
      <3>1. SUFFICES ASSUME (lo - t0) % Xlen >= want PROVE time - start >= want
        BY <2>1 DEF WaitsLongEnough
      <3>2. PICK r \in start..time : t0 = r % Xlen /\ ReadSince(r)
        BY <2>1 DEF ClockInv, LoopReadInv
      <3>3. PICK s \in r..time : lo = s % Xlen BY <3>2 DEF ReadSince
      <3>4. /\ start \in Nat /\ time \in Nat /\ r \in Nat /\ s \in Nat /\ s >= r
            /\ want \in Nat
        BY <1>1, ClockAssumption DEF ClockTypes
      <3>5. s - r >= want BY <3>1, <3>2, <3>3, <3>4, Difference, ClockAssumption
      <3> QED BY <3>4, <3>5
    <2> QED BY <1>1, <2>2, <2>3 DEF ClockInv
  <1>8. CASE SetNextEvent
    <2>1. /\ phase = "timer" /\ user = "timer" /\ phase' = "done"
          /\ timecmp' = (lo + want) % Xlen
          /\ UNCHANGED <<time, user, want, hi, lo, t0, halves, start>>
      BY <1>1, <1>8, GetCycles DEF SetNextEvent, ClockTypes
    <2>2. FirstReadInv' /\ LoopReadInv'
      BY <2>1 DEF ClockInv, FirstReadInv, LoopReadInv
    <2>3. WaitsLongEnough'
      <3>1. PICK r \in start..time : lo = r % Xlen
        BY <2>1 DEF ClockInv, FirstReadInv, ReadSince
      <3>2. /\ start \in Nat /\ time \in Nat /\ r \in Nat /\ want \in Nat
            /\ Xlen \in Nat \ {0} /\ lo \in Nat
        BY <1>1, ClockAssumption DEF ClockTypes
      <3>3. CASE time + want < Xlen
        <4>1. r \in 0..Xlen - 1 /\ r + want \in 0..Xlen - 1 BY <3>2, <3>3
        <4>2. timecmp' = r + want BY <2>1, <3>1, <3>2, <4>1, ModSmall
        <4> QED BY <2>1, <3>1, <3>2, <4>2 DEF WaitsLongEnough
      <3>4. CASE time + want >= Xlen
        <4>1. timecmp' < Xlen BY <2>1, <3>2, ModRange
        <4> QED BY <2>1, <3>4, <4>1 DEF WaitsLongEnough
      <3> QED BY <3>2, <3>3, <3>4
    <2> QED BY <1>1, <2>2, <2>3 DEF ClockInv
  <1>9. CASE UNCHANGED clockVars
    BY <1>1, <1>9
    DEF clockVars, ClockInv, FirstReadInv, LoopReadInv, WaitsLongEnough, ReadSince
  <1> QED
    BY <1>2, <1>3, <1>4, <1>5, <1>6, <1>7, <1>8, <1>9 DEF ClockNext

\* At any register width, wherever the counter wraps and however far it runs
\* between two instructions: no delay ends early, and a timer is due when asked
\* for unless the sum leaves the register.
THEOREM DelayCorrect == ClockSpec => []WaitsLongEnough
  <1>1. ClockInv => WaitsLongEnough BY DEF ClockInv
  <1> QED BY <1>1, ClockStart, ClockStep, PTL DEF ClockSpec
-----------------------------------------------------------------------------
\* Stack traces.

WalkTypes ==
    /\ step \in {"off", "call", "next", "end", "done"}
    /\ withFp \in BOOLEAN
    /\ fn \in {"none", "save_wchan", "save_trace"}
    /\ sp \in Base..Top /\ fp \in Int
    /\ trace \in [nr : 0..MaxEntries, skip : Nat]

\* Without frame pointers the walk has ended at the end of the stack.
WordInv == ~withFp /\ step \in {"call", "next"} => sp # Top

\* While the trace goes on its buffer has room.
RoomInv == fn = "save_trace" /\ step \in {"call", "next"} => trace.nr < MaxEntries

WalkInv == WalkTypes /\ WordInv /\ RoomInv

\* The bound that unwind computes is the end of the stack at most.
LEMMA AlignedEnd ==
  ASSUME NEW a \in Base..Top
  PROVE  AlignUp(a) \in Int /\ AlignUp(a) <= Top
  <1> DEFINE b == a + THREAD_SIZE - 1
             q == b \div THREAD_SIZE
  <1>1. THREAD_SIZE \in Nat \ {0} /\ THREAD_SIZE > 1 BY StackWalkAssumption
  <1>2. b \in Nat /\ b <= 3 * THREAD_SIZE - 1 BY <1>1 DEF Base, Top
  <1>3. q \in Int /\ q <= 2
    <2> HIDE DEF b
    <2> QED BY <1>1, <1>2
  <1>4. q * THREAD_SIZE \in Int /\ q * THREAD_SIZE <= 2 * THREAD_SIZE
    <2> HIDE DEF q
    <2> QED BY <1>1, <1>3
  <1>5. AlignUp(a) = q * THREAD_SIZE BY DEF AlignUp
  <1> QED BY <1>4, <1>5 DEF Top

\* A stack has room, and ends where the walk looks for its end.
LEMMA StackSize == Base \in Nat /\ Top \in Nat /\ Base + 2 <= Top /\ kstack_end(Top)
  <1>1. THREAD_SIZE \in Nat \ {0} /\ THREAD_SIZE > 1 BY StackWalkAssumption
  <1>2. (2 * THREAD_SIZE) % THREAD_SIZE = 0 BY <1>1
  <1> QED BY <1>1, <1>2 DEF Base, Top, kstack_end

LEMMA WalkStart == WalkInit \/ WalkOff => WalkInv
  <1> USE StackWalkAssumption, StackSize
  <1>1. ASSUME WalkInit PROVE WalkInv
    <2>1. WalkTypes BY <1>1 DEF WalkInit, WalkTypes, Pointers, Unaligned
    <2>2. sp \in Base..Top - 2 /\ trace.nr = 0 BY <1>1 DEF WalkInit
    <2> QED BY <2>1, <2>2 DEF WalkInv, WordInv, RoomInv
  <1>2. ASSUME WalkOff PROVE WalkInv
    <2>1. withFp \in BOOLEAN BY <1>2 DEF WalkOff
    <2>2. /\ step = "off" /\ fn = "none" /\ sp = Base /\ fp = Base
          /\ trace = [nr |-> 0, skip |-> 0]
      BY <1>2 DEF WalkOff
    <2> QED BY <2>1, <2>2 DEF WalkInv, WalkTypes, WordInv, RoomInv
  <1> QED BY <1>1, <1>2

\* What a step may do to the frame, ...
FrameMoves ==
    sp' # sp => /\ sp' > sp
                /\ JustRead \subseteq Stack
                /\ \A a \in JustRead : a >= sp

\* ... and to the trace.
TraceGrows == trace'.nr \in trace.nr..MaxEntries

LEMMA WalkStep ==
  ASSUME WalkInv, WalkNext
  PROVE  WalkInv' /\ FrameMoves /\ TraceGrows
  <1> USE StackWalkAssumption, StackSize DEF WalkInv
  <1>1. CASE Report
    <2>1. /\ step = "call" /\ UNCHANGED <<withFp, fn, sp, fp, pc>>
          /\ step' \in {"next", "end"}
      BY <1>1 DEF Report
    <2>2. CASE trace' = trace
      <3>1. FrameMoves /\ TraceGrows BY <2>1, <2>2 DEF FrameMoves, TraceGrows, WalkTypes
      <3> QED BY <2>1, <2>2, <3>1 DEF WalkTypes, WordInv, RoomInv
    <2>3. CASE trace' # trace
      <3>1. /\ fn = "save_trace" /\ SaveTrace
            /\ step' = IF Stops THEN "end" ELSE "next"
        BY <1>1, <2>3 DEF Report, SaveWchan, SaveTrace
      <3>2. trace.nr \in 0..MaxEntries /\ trace.nr < MaxEntries /\ trace.skip \in Nat
        BY <2>1, <3>1 DEF WalkTypes, RoomInv
      <3>3. CASE trace.skip > 0
        <4>1. trace' = [trace EXCEPT !.skip = @ - 1] BY <3>1, <3>3 DEF SaveTrace
        <4>2. trace'.nr = trace.nr /\ trace' \in [nr : 0..MaxEntries, skip : Nat]
          BY <3>2, <3>3, <4>1 DEF WalkTypes
        <4> QED
          BY <2>1, <3>2, <4>2
          DEF FrameMoves, TraceGrows, WalkTypes, WordInv, RoomInv
      <3>4. CASE ~(trace.skip > 0)
        <4>1. trace' = [trace EXCEPT !.nr = @ + 1] BY <3>1, <3>4 DEF SaveTrace
        <4>2. trace'.nr = trace.nr + 1 /\ trace' \in [nr : 0..MaxEntries, skip : Nat]
          BY <3>2, <4>1 DEF WalkTypes
        <4>3. step' = "next" => trace'.nr < MaxEntries
          <5>1. trace.skip = 0 BY <3>2, <3>4
          <5> QED BY <3>1, <3>2, <4>2, <5>1 DEF Stops, TraceIsFull
        <4> QED
          BY <2>1, <3>2, <4>2, <4>3
          DEF FrameMoves, TraceGrows, WalkTypes, WordInv, RoomInv
      <3> QED BY <3>3, <3>4
    <2> QED BY <2>2, <2>3
  <1>2. CASE Unwind
    <2>1. step = "next" /\ withFp /\ UNCHANGED <<withFp, fn, trace, wchan>>
      BY <1>2 DEF Unwind
    <2>2. TraceGrows BY <2>1 DEF TraceGrows, WalkTypes
    <2>3. CASE ~ValidFrame(fp)
      <3>1. step' = "end" /\ UNCHANGED <<sp, fp>> BY <1>2, <2>3 DEF Unwind
      <3> QED BY <2>1, <2>2, <3>1 DEF WalkTypes, WordInv, RoomInv, FrameMoves
    <2>4. CASE ValidFrame(fp)
      <3>1. step' = "call" /\ sp' = fp /\ fp' \in Pointers BY <1>2, <2>4 DEF Unwind
      <3>2. sp \in Base..Top /\ fp \in Int BY DEF WalkTypes
      <3>3. fp >= sp + 2 /\ fp <= Top BY <2>4, <3>2, AlignedEnd DEF ValidFrame
      <3>4. fp' \in Int BY <3>1 DEF Pointers, Unaligned
      <3>5. FrameMoves
        <4>1. JustRead = {fp - 2, fp - 1} BY <2>1, <3>1 DEF JustRead
        <4> QED BY <3>1, <3>2, <3>3, <4>1 DEF FrameMoves, Stack
      <3>6. WalkTypes' BY <2>1, <3>1, <3>2, <3>3, <3>4 DEF WalkTypes
      <3> QED BY <2>1, <2>2, <3>1, <3>5, <3>6 DEF WordInv, RoomInv
    <2> QED BY <2>3, <2>4
  <1>3. CASE NextWord
    <2>1. /\ step = "next" /\ ~withFp /\ sp' = sp + 1
          /\ step' = IF kstack_end(sp + 1) THEN "end" ELSE "call"
          /\ UNCHANGED <<withFp, fn, fp, trace, wchan>>
      BY <1>3 DEF NextWord
    <2>2. sp \in Base..Top /\ sp # Top BY <2>1 DEF WalkTypes, WordInv
    <2>3. sp + 1 = Top => step' = "end" BY <2>1
    <2>4. FrameMoves
      <3>1. JustRead = {sp} BY <2>1 DEF JustRead
      <3> QED BY <2>1, <2>2, <3>1 DEF FrameMoves, Stack
    <2>5. WalkTypes' /\ TraceGrows BY <2>1, <2>2 DEF WalkTypes, TraceGrows
    <2> QED BY <2>1, <2>3, <2>4, <2>5 DEF WordInv, RoomInv
  <1>4. CASE Finish
    <2>1. /\ step = "end" /\ step' = "done"
          /\ UNCHANGED <<withFp, fn, sp, fp, pc, wchan>>
          /\ trace' = IF fn = "save_trace" /\ trace.nr < MaxEntries
                      THEN [trace EXCEPT !.nr = @ + 1] ELSE trace
      BY <1>4 DEF Finish
    <2>2. trace' \in [nr : 0..MaxEntries, skip : Nat] /\ TraceGrows
      BY <2>1 DEF WalkTypes, TraceGrows
    <2> QED BY <2>1, <2>2 DEF WalkTypes, WordInv, RoomInv, FrameMoves
  <1> QED BY <1>1, <1>2, <1>3, <1>4 DEF WalkNext

LEMMA WalkStutter == WalkInv /\ UNCHANGED walkVars => WalkInv'
  BY DEF walkVars, WalkInv, WalkTypes, WordInv, RoomInv

\* For stacks and buffers of any size: whatever words a walk reads, it stays in
\* the stack, goes up and stops, and never overruns the buffer of the trace.
THEOREM WalkCorrect == WalkSpec => WalkBounded
  <1> DEFINE Bounded ==
        /\ sp' # sp => /\ sp' > sp
                       /\ JustRead \subseteq Stack
                       /\ \A a \in JustRead : a >= sp
        /\ trace'.nr \in trace.nr..MaxEntries
  <1>1. WalkInv /\ [WalkNext]_walkVars => [Bounded]_walkVars
    BY WalkStep DEF FrameMoves, TraceGrows
  <1>2. WalkInv /\ [WalkNext]_walkVars => WalkInv' BY WalkStep, WalkStutter
  <1>3. WalkSpec => [][Bounded]_walkVars
    BY <1>1, <1>2, WalkStart, PTL DEF WalkSpec
  <1> QED BY <1>3 DEF WalkBounded

-----------------------------------------------------------------------------

\* Products, multiples and roundings.
LEMMA Positive ==
  ASSUME NEW a \in Nat \ {0}, NEW b \in Nat \ {0}
  PROVE  a * b \in Nat \ {0}
  OBVIOUS

LEMMA Multiple ==
  ASSUME NEW S \in Nat \ {0}, NEW a \in Int, a % S = 0
  PROVE  \E q \in Int : a = S * q
  <1>1. a = S * (a \div S) /\ a \div S \in Int OBVIOUS
  <1> QED BY <1>1

LEMMA IsMultiple ==
  ASSUME NEW S \in Nat \ {0}, NEW q \in Int
  PROVE  (S * q) % S = 0
  OBVIOUS

\* A count less its remainder.
LEMMA RoundedDown ==
  ASSUME NEW S \in Nat \ {0}, NEW c \in Nat
  PROVE  LET d == (c \div S) * S
         IN  d \in Nat /\ d <= c /\ c < d + S /\ d % S = 0 /\ c % S = c - d
  <1>1. c \div S \in Nat OBVIOUS
  <1>2. c = S * (c \div S) + (c % S) /\ c % S \in 0..S - 1 OBVIOUS
  <1>3. ((c \div S) * S) % S = 0 BY <1>1
  <1> QED BY <1>1, <1>2, <1>3

LEMMA RoundUp ==
  ASSUME NEW S \in Nat \ {0}, NEW a \in Nat
  PROVE  LET u == ((a + S - 1) \div S) * S
         IN  u \in Nat /\ a <= u /\ u < a + S /\ u % S = 0
  <1>1. a + S - 1 \in Nat OBVIOUS
  <1>2. LET d == ((a + S - 1) \div S) * S
        IN  d \in Nat /\ d <= a + S - 1 /\ a + S - 1 < d + S /\ d % S = 0
    BY <1>1, RoundedDown
  <1> QED BY <1>2

-----------------------------------------------------------------------------
\* User copies.

\* A block copy or clear, and what it has stored.
IsBlock == call.fn \in Blocks
Done(a) == a \in call.to..a0 - 1

\* A call and where it can be.
CallInv ==
    /\ call.to \in Addresses /\ call.from \in Addresses /\ call.n \in Lengths
    /\ call.fn \in Blocks \cup Singles
    /\ Clears => call.from = call.to
    /\ ~IsBlock => call.n \in {SZREG, 2 * SZREG}
    /\ label \in {"call", "head", "word", "tail", "exit", "returned"}
                  \cup {"single", "second", "put_fixup"}
    /\ IsBlock => label \notin {"single", "second", "put_fixup"}
    /\ ~IsBlock => label \notin {"head", "word", "tail", "exit"}

\* The pointers of a block copy move together, and what is behind them is done.
BlockInv ==
    IsBlock =>
        /\ a0 \in call.to..call.to + call.n
        /\ a1 - call.from = a0 - call.to /\ a1 \in Nat
        /\ \A a \in Reach : dst[a] = IF Done(a) THEN Right(a) ELSE Old

\* The pointer the loops look at.
Here == IF Clears THEN a0 ELSE a1

\* Where the pointer is in each of the loops: the word loop is entered and left
\* at aligned addresses inside the range.
LoopInv ==
    /\ label \in {"head", "word"} => firstWord < lastWord
    /\ label = "head" => Here < firstWord
    /\ label = "word" => Here < lastWord /\ Here % SZREG = 0
    /\ label = "tail" => Here < a3
    /\ label = "exit" => Here = a3
    /\ label = "call" => a0 = call.to

\* What a block copy returns.
CountInv ==
    IsBlock /\ label = "returned" =>
        LET left == call.n - (a0 - call.to)
        IN  /\ Clears => ret = left
            /\ left = 0 => ret = 0
            /\ left > 0 /\ Apart => ret # 0
            /\ ~access_ok(UserAddr, call.n) => ret = call.n

\* A single value: nothing outside of it is written; what has been written by
\* the second store and at the end.
SingleInv ==
    ~IsBlock =>
        /\ \A a \in Reach : a \notin Units => dst[a] = Old
        /\ label = "call" => \A a \in Reach : dst[a] = Old
        /\ label = "single" => \A a \in Reach : dst[a] = Old
        /\ call.fn = "put_user" /\ label \in {"call", "single"} => ret = 0
        /\ label \in {"second", "put_fixup"} => call.fn = "put_user" /\ call.n = 2 * SZREG
        /\ label = "second" => 
              /\ ret \in {0, Fault}
              /\ ret = 0 => dst[call.to] = call.from
        /\ label = "returned" /\ call.fn = "get_user" =>
              \A a \in Units : dst[a] = IF ret = 0 THEN Right(a) ELSE Zero
        /\ label = "returned" /\ call.fn = "put_user" =>
              /\ ret = 0 => \A a \in Units : dst[a] = Right(a)
              /\ call.n = SZREG /\ ret = Fault => \A a \in Reach : dst[a] = Old

\* User memory is accessible only inside a checked call.
AccessInv ==
    /\ access => label \notin {"off", "call", "returned"} /\ access_ok(UserAddr, call.n)
    /\ label \in {"head", "word", "tail", "exit", "single", "second", "put_fixup"} =>
          access_ok(UserAddr, call.n)

\* What may be stored.
StoreInv == dst \in [Reach -> Int]

CopyInv ==
    /\ StoreInv
    /\ \/ label = "off" /\ CopyOff
       \/ CallInv /\ BlockInv /\ LoopInv /\ CountInv /\ SingleInv /\ AccessInv

-----------------------------------------------------------------------------
LEMMA NextMultiple ==
  ASSUME NEW S \in Nat \ {0}, NEW a \in Nat, NEW b \in Nat,
         a % S = 0, b % S = 0, a < b
  PROVE  a + S <= b /\ (a + S) % S = 0
  <1>1. PICK p \in Int : a = S * p
    <2>1. a = S * (a \div S) /\ a \div S \in Int OBVIOUS
    <2> QED BY <2>1
  <1>2. PICK q \in Int : b = S * q
    <2>1. b = S * (b \div S) /\ b \div S \in Int OBVIOUS
    <2> QED BY <2>1
  <1>3. p + 1 <= q BY <1>1, <1>2
  <1>4. S * (p + 1) <= S * q BY <1>3
  <1>5. S * (p + 1) = a + S BY <1>1
  <1>6. (S * (p + 1)) % S = 0 OBVIOUS
  <1> QED BY <1>2, <1>4, <1>5, <1>6

\* The addresses of a call.
LEMMA CallNumbers ==
  ASSUME CallInv
  PROVE  /\ call.to \in Nat /\ call.from \in Nat /\ call.n \in Nat
         /\ Start \in Nat /\ a3 \in Nat /\ Start <= a3
         /\ firstWord \in Nat /\ Start <= firstWord /\ firstWord % SZREG = 0
         /\ lastWord \in Nat /\ lastWord <= a3 /\ lastWord % SZREG = 0
         /\ \A a \in call.to..call.to + call.n - 1 : a \in Reach
         /\ \A a \in Reach : a \in Nat /\ (IsBlock /\ Done(a) => Right(a) \in Nat \cup {Zero})
  <1>1. call.to \in Nat /\ call.from \in Nat /\ call.n \in Nat
    <2>1. XlenSize \in Nat /\ Addresses \subseteq 0..XlenSize - 1 /\ Lengths \subseteq Nat
      BY UserCopyAssumption
    <2>2. call.to \in Addresses /\ call.from \in Addresses /\ call.n \in Lengths
      BY DEF CallInv
    <2>3. \A a \in Addresses : a \in 0..XlenSize - 1 BY <2>1
    <2>4. call.to \in 0..XlenSize - 1 /\ call.from \in 0..XlenSize - 1 BY <2>2, <2>3
    <2>5. call.n \in Nat BY <2>1, <2>2
    <2>6. \A i \in 0..XlenSize - 1 : i \in Nat BY <2>1
    <2> QED BY <2>4, <2>5, <2>6
  <1>2. Start \in Nat /\ a3 \in Nat /\ Start <= a3 BY <1>1 DEF Start, a3
  <1>3. firstWord \in Nat /\ Start <= firstWord /\ firstWord % SZREG = 0
    BY <1>2, RoundUp, UserCopyAssumption DEF firstWord, Up
  <1>4. lastWord \in Nat /\ lastWord <= a3 /\ lastWord % SZREG = 0
    BY <1>2, RoundedDown, UserCopyAssumption DEF lastWord, Down
  <1>5. \A a \in call.to..call.to + call.n - 1 : a \in Reach
    <2> DEFINE ranges == {a..a + n - 1 : a \in Addresses, n \in Lengths}
    <2>1. call.to..call.to + call.n - 1 \in ranges BY DEF CallInv
    <2>2. Reach = UNION ranges BY DEF Reach
    <2> HIDE DEF ranges
    <2> QED BY <2>1, <2>2
  <1>6. \A a \in Reach : a \in Nat BY UserCopyAssumption DEF Reach
  <1>7. ASSUME NEW a \in Reach, Done(a) PROVE Right(a) \in Nat \cup {Zero}
    BY <1>1, <1>6, <1>7 DEF Right, Done
  <1> QED BY <1>1, <1>2, <1>3, <1>4, <1>5, <1>6, <1>7

\* The three loops store the bytes from the pointer on, and move both pointers.
LEMMA MoveStep ==
  ASSUME CallInv, BlockInv, StoreInv, IsBlock, NEW size \in Nat,
         a0 + size <= call.to + call.n, Move(size), call' = call
  PROVE  BlockInv' /\ StoreInv' /\ Cursor = Here + size /\ Here' = Here + size
         /\ a0' = a0 + size
  <1>1. /\ call.to \in Nat /\ call.from \in Nat /\ call.n \in Nat
        /\ \A a \in Reach : a \in Nat
    BY CallNumbers
  <1>2. /\ a0 \in call.to..call.to + call.n /\ a0 \in Nat
        /\ a1 - call.from = a0 - call.to /\ a1 \in Nat
    BY <1>1 DEF BlockInv
  <1>3. a0' = a0 + size /\ a1' = a1 + size /\ ret' = ret BY DEF Move
  <1>4. ASSUME NEW a \in Reach
        PROVE  dst'[a] = IF Done(a)' THEN Right(a)' ELSE Old
    <2>1. dst'[a] = IF a \in a0..a0 + size - 1
                    THEN IF Clears THEN Zero ELSE a1 + (a - a0) ELSE dst[a]
      BY DEF Move
    <2>2. dst[a] = IF Done(a) THEN Right(a) ELSE Old BY DEF BlockInv
    <2>3. Right(a)' = Right(a) BY DEF Right, Clears
    <2>4. Done(a)' <=> a \in call.to..a0 + size - 1
      BY <1>1, <1>2, <1>3 DEF Done
    <2>5. Done(a) <=> a \in call.to..a0 - 1 BY DEF Done
    <2>6. CASE a \in a0..a0 + size - 1
      <3>1. Done(a)' BY <1>1, <1>2, <2>4, <2>6
      <3>2. ~Clears => a1 + (a - a0) = Right(a) BY <1>1, <1>2 DEF Right
      <3>3. Clears => Right(a) = Zero BY DEF Right
      <3> QED BY <2>1, <2>3, <2>6, <3>1, <3>2, <3>3
    <2>7. CASE a \notin a0..a0 + size - 1
      <3>1. Done(a)' <=> Done(a) BY <1>1, <1>2, <2>4, <2>5, <2>7
      <3> QED BY <2>1, <2>2, <2>3, <2>7, <3>1
    <2> QED BY <2>6, <2>7
  <1>5. StoreInv'
    <2>1. \A a \in Reach : dst'[a] \in Int
      BY <1>1, <1>2 DEF Move, StoreInv, Zero
    <2> QED BY <2>1 DEF Move, StoreInv
  <1>6. BlockInv' BY <1>1, <1>2, <1>3, <1>4 DEF BlockInv
  <1>7. Cursor = Here + size /\ Here' = Here + size BY <1>3 DEF Cursor, Here, Clears
  <1> QED BY <1>3, <1>5, <1>6, <1>7

\* The pointer of the loops and what is left to store.
LEMMA HereIs ==
  ASSUME CallInv, BlockInv, IsBlock
  PROVE  Here \in Nat /\ Here - Start = a0 - call.to
         /\ a3 - Here = call.to + call.n - a0 /\ a0 \in Nat
  <1>1. /\ call.to \in Nat /\ call.from \in Nat /\ call.n \in Nat BY CallNumbers
  <1>2. /\ a0 \in call.to..call.to + call.n /\ a0 \in Nat
        /\ a1 - call.from = a0 - call.to /\ a1 \in Nat
    BY <1>1 DEF BlockInv
  <1> QED BY <1>1, <1>2 DEF Here, Start, a3

-----------------------------------------------------------------------------
LEMMA CopyStart == CopyInit \/ CopyOff => CopyInv
  <1>1. ASSUME CopyInit PROVE CopyInv
    <2>1. /\ call \in [fn : Blocks \cup Singles, to : Addresses, from : Addresses, n : Lengths]
          /\ Clears => call.from = call.to
          /\ call.fn \in Singles => call.n \in {SZREG, 2 * SZREG}
          /\ label = "call" /\ a0 = call.to /\ a1 = call.from
          /\ dst = [a \in Reach |-> Old] /\ ret = 0
      BY <1>1 DEF CopyInit, Clears
    <2>2. ~access BY <1>1 DEF CopyInit
    <2>3. CallInv BY <2>1 DEF CallInv, IsBlock
    <2>4. StoreInv BY <2>1 DEF StoreInv, Old
    <2>5. call.to \in Nat /\ call.from \in Nat /\ call.n \in Nat
      BY <2>3, CallNumbers
    <2>6. BlockInv BY <2>1, <2>5 DEF BlockInv, Done
    <2> QED
      BY <2>1, <2>2, <2>3, <2>4, <2>6
      DEF CopyInv, LoopInv, CountInv, SingleInv, AccessInv
  <1>2. ASSUME CopyOff PROVE CopyInv
    BY <1>2 DEF CopyOff, CopyInv, StoreInv, Old
  <1> QED BY <1>1, <1>2

\* The invariant of a call that has begun.
Going == StoreInv /\ CallInv /\ BlockInv /\ LoopInv /\ CountInv /\ SingleInv /\ AccessInv

LEMMA RemainderRight ==
  ASSUME NEW p \in Nat, p <= a3
  PROVE  \/ Remainder(p) = "tail" /\ p < a3
         \/ Remainder(p) = "exit" /\ (a3 \in Nat => p = a3)
  BY DEF Remainder

LEMMA EnterStep == Going /\ Enter => Going'
  <1> SUFFICES ASSUME Going, Enter PROVE Going' OBVIOUS
  <1> USE DEF Going
  <1>1. /\ call.to \in Nat /\ call.from \in Nat /\ call.n \in Nat
        /\ Start \in Nat /\ a3 \in Nat /\ Start <= a3
        /\ firstWord \in Nat /\ Start <= firstWord /\ firstWord % SZREG = 0
        /\ lastWord \in Nat /\ lastWord <= a3 /\ lastWord % SZREG = 0
    BY CallNumbers
  <1>2. /\ label = "call" /\ UNCHANGED <<call, a0, a1>> /\ a0 = call.to
    BY DEF Enter, LoopInv
  <1>3. Here' = Here /\ (IsBlock => Here = Start)
    <2>1. Here' = Here BY <1>2 DEF Here, Clears
    <2>2. IsBlock => Here = Start BY <1>1, <1>2, HereIs
    <2> QED BY <2>1, <2>2
  <1>4. CASE access_ok(UserAddr, call.n)
    <2>1. /\ label' = IF call.fn \in Singles THEN "single" ELSE FirstLabel
          /\ access' = TRUE /\ UNCHANGED <<ret, dst>>
      BY <1>4 DEF Enter
    <2>2. AccessInv' 
      <3>1. access_ok(UserAddr, call.n)'
        BY <1>2, <1>4 DEF access_ok, UserAddr
      <3>2. label' \in {"single", "head", "word", "tail", "exit"}
        BY <2>1 DEF FirstLabel, Remainder
      <3> QED BY <3>1, <3>2 DEF AccessInv
    <2>3. StoreInv' BY <2>1 DEF StoreInv
    <2>4. BlockInv' BY <1>2, <2>1 DEF BlockInv, IsBlock, Done, Right, Clears
    <2>5. CASE IsBlock
      <3>1. call.fn \notin Singles BY <2>5 DEF IsBlock, Blocks, Singles
      <3>2. label' = FirstLabel BY <2>1, <3>1
      <3>3. CallInv'
        <4>1. label' \in {"head", "word", "tail", "exit"}
          BY <3>2 DEF FirstLabel, Remainder
        <4> QED BY <1>2, <2>5, <4>1 DEF CallInv, IsBlock, Clears
      <3>4. LoopInv'
        <4>1. CASE \/ ~Clears /\ call.to % SZREG # call.from % SZREG
                   \/ firstWord >= lastWord
          <5>1. label' = Remainder(Start) BY <3>2, <4>1 DEF FirstLabel
          <5>2. \/ label' = "tail" /\ Here' < a3
                \/ label' = "exit" /\ Here' = a3
            BY <1>1, <1>3, <2>5, <5>1, RemainderRight
          <5> QED BY <1>2, <5>2 DEF LoopInv, a3, Start, Clears
        <4>2. CASE ~(\/ ~Clears /\ call.to % SZREG # call.from % SZREG
                     \/ firstWord >= lastWord)
          <5>1. label' = IF Start < firstWord THEN "head" ELSE "word"
            BY <3>2, <4>2 DEF FirstLabel
          <5>2. firstWord < lastWord BY <1>1, <4>2
          <5>3. firstWord' = firstWord /\ lastWord' = lastWord
            BY <1>2 DEF firstWord, lastWord, Up, Down, a3, Start, Clears
          <5>4. CASE Start < firstWord
            <6>1. label' = "head" BY <5>1, <5>4
            <6>2. Here' < firstWord BY <1>3, <2>5, <5>4
            <6> QED BY <5>2, <5>3, <6>1, <6>2 DEF LoopInv
          <5>5. CASE ~(Start < firstWord)
            <6>1. label' = "word" BY <5>1, <5>5
            <6>2. Here' = firstWord BY <1>1, <1>3, <2>5, <5>5
            <6> QED BY <1>1, <5>2, <5>3, <6>1, <6>2 DEF LoopInv
          <5> QED BY <5>4, <5>5
        <4> QED BY <4>1, <4>2
      <3>5. SingleInv' BY <1>2, <2>5 DEF SingleInv, IsBlock
      <3>6. CountInv' BY <3>2 DEF CountInv, FirstLabel, Remainder
      <3> QED BY <2>2, <2>3, <2>4, <3>3, <3>4, <3>5, <3>6
    <2>6. CASE ~IsBlock
      <3>1. label' = "single" BY <2>1, <2>6 DEF CallInv, IsBlock
      <3>2. CallInv' BY <1>2, <2>6, <3>1 DEF CallInv, IsBlock, Clears
      <3>3. LoopInv' BY <3>1 DEF LoopInv
      <3>4. SingleInv' BY <1>2, <2>1, <2>6, <3>1 DEF SingleInv, Units, IsBlock
      <3>5. CountInv' BY <3>1 DEF CountInv
      <3> QED BY <2>2, <2>3, <2>4, <3>2, <3>3, <3>4, <3>5
    <2> QED BY <2>5, <2>6
  <1>5. CASE ~access_ok(UserAddr, call.n)
    <2>1. /\ label' = "returned"
          /\ ret' = IF call.fn \in Singles THEN Fault ELSE call.n
          /\ ~access'
          /\ IF call.fn = "get_user" THEN StoreUnits(Zero) ELSE UNCHANGED dst
      BY <1>5 DEF Enter, Returns
    <2>2. AccessInv' /\ LoopInv' BY <2>1 DEF AccessInv, LoopInv
    <2>3. StoreInv' BY <2>1 DEF StoreInv, StoreUnits, Zero
    <2>4. CallInv' BY <1>2, <2>1 DEF CallInv, IsBlock, Clears
    <2>5. BlockInv'
      <3>1. SUFFICES ASSUME IsBlock PROVE BlockInv' BY <1>2 DEF BlockInv, IsBlock
      <3>2. dst' = dst BY <2>1, <3>1 DEF IsBlock, Blocks
      <3> QED BY <1>2, <3>2 DEF BlockInv, IsBlock, Done, Right, Clears
    <2>6. CountInv'
      <3>1. SUFFICES ASSUME IsBlock PROVE CountInv' BY <1>2 DEF CountInv, IsBlock
      <3>2. ret' = call.n BY <2>1, <3>1 DEF IsBlock, Blocks, Singles
      <3> QED BY <1>1, <1>2, <3>2 DEF CountInv
    <2>7. SingleInv'
      <3>1. SUFFICES ASSUME ~IsBlock PROVE SingleInv' BY <1>2 DEF SingleInv, IsBlock
      <3>2. ret' = Fault /\ Fault # 0 BY <2>1, <3>1 DEF CallInv, IsBlock, Fault
      <3>3. Units' = Units /\ call.fn' = call.fn /\ (IsBlock' <=> IsBlock)
        BY <1>2 DEF Units, IsBlock
      <3>4. CASE call.fn = "get_user"
        <4>1. dst' = [a \in Reach |-> IF a \in Units THEN Zero ELSE dst[a]]
          BY <2>1, <3>4 DEF StoreUnits
        <4>2. Units \subseteq Reach
          BY <1>1, <3>1, CallNumbers, UserCopyAssumption DEF CallInv, Units
        <4>3. \A a \in Units : dst'[a] = Zero BY <4>1, <4>2
        <4>4. \A a \in Reach : a \notin Units => dst'[a] = Old
          BY <3>1, <4>1 DEF SingleInv
        <4>5. call'.fn = "get_user" /\ label' = "returned" BY <1>2, <2>1, <3>4
        <4> QED BY <3>2, <3>3, <4>3, <4>4, <4>5 DEF SingleInv
      <3>5. CASE call.fn # "get_user"
        <4>1. dst' = dst BY <2>1, <3>5
        <4> QED BY <1>2, <2>1, <3>1, <3>2, <3>3, <3>5, <4>1 DEF SingleInv
      <3> QED BY <3>4, <3>5
    <2> QED BY <2>2, <2>3, <2>4, <2>5, <2>6, <2>7
  <1> QED BY <1>4, <1>5

\* The loops.
LEMMA LoopStep == Going /\ (HeadBytes \/ Words \/ TailBytes) => Going'
  <1> SUFFICES ASSUME Going, HeadBytes \/ Words \/ TailBytes PROVE Going' OBVIOUS
  <1> USE DEF Going
  <1>1. /\ Start \in Nat /\ a3 \in Nat /\ Start <= a3
        /\ firstWord \in Nat /\ Start <= firstWord /\ firstWord % SZREG = 0
        /\ lastWord \in Nat /\ lastWord <= a3 /\ lastWord % SZREG = 0
        /\ call.to \in Nat /\ call.from \in Nat /\ call.n \in Nat
    BY CallNumbers
  <1>2. SZREG \in Nat \ {0} BY UserCopyAssumption
  <1>3. label \in {"head", "word", "tail"} BY DEF HeadBytes, Words, TailBytes
  <1>4. IsBlock BY <1>3 DEF CallInv
  <1>5. /\ Here \in Nat /\ a3 - Here = call.to + call.n - a0 /\ a0 \in Nat
    BY <1>4, HereIs
  <1>6. UNCHANGED <<call, ret, access>> BY DEF HeadBytes, Words, TailBytes, Move
  <1>7. UNCHANGED <<firstWord, lastWord, a3>>
    BY <1>6 DEF firstWord, lastWord, Up, Down, a3, Start, Clears
  <1>8. PICK size \in Nat :
          /\ Move(size) /\ Here + size <= a3
          /\ \/ label' = "head" /\ label = "head" /\ Here + size < firstWord
             \/ label' = "word" /\ Here + size < lastWord /\ (Here + size) % SZREG = 0
                /\ firstWord < lastWord
             \/ label' = "tail" /\ Here + size < a3
             \/ label' = "exit" /\ Here + size = a3
    <2>1. ASSUME NEW size \in Nat, Move(size), Here + size <= a3
          PROVE  Cursor = Here + size
      <3>1. a0 + size <= call.to + call.n BY <1>1, <1>5, <2>1
      <3> QED BY <1>4, <1>6, <2>1, <3>1, MoveStep
    <2>2. CASE HeadBytes
      <3>1. Here < firstWord /\ firstWord < lastWord BY <2>2 DEF HeadBytes, LoopInv
      <3>2. Here + 1 <= a3 BY <1>1, <1>5, <3>1
      <3>3. Cursor = Here + 1 BY <2>1, <2>2, <3>2 DEF HeadBytes
      <3>4. label' = IF Here + 1 < firstWord THEN "head" ELSE "word"
        BY <2>2, <3>3 DEF HeadBytes
      <3>5. label = "head" /\ Move(1) BY <2>2 DEF HeadBytes
      <3>6. CASE Here + 1 < firstWord BY <3>2, <3>4, <3>5, <3>6
      <3>7. CASE ~(Here + 1 < firstWord)
        <4>1. Here + 1 = firstWord BY <1>1, <1>5, <3>1, <3>7
        <4> QED BY <1>1, <3>1, <3>2, <3>4, <3>5, <3>7, <4>1
      <3> QED BY <3>6, <3>7
    <2>3. CASE Words
      <3>1. Here < lastWord /\ Here % SZREG = 0 /\ firstWord < lastWord
        BY <2>3 DEF Words, LoopInv
      <3>2. Here + SZREG <= lastWord /\ (Here + SZREG) % SZREG = 0
        BY <1>1, <1>2, <1>5, <3>1, NextMultiple
      <3>3. Here + SZREG <= a3 BY <1>1, <1>2, <1>5, <3>2
      <3>4. Cursor = Here + SZREG BY <1>2, <2>1, <2>3, <3>3 DEF Words
      <3>5. label' = IF Here + SZREG < lastWord THEN "word" ELSE Remainder(Here + SZREG)
        BY <2>3, <3>4 DEF Words
      <3>6. Move(SZREG) BY <2>3 DEF Words
      <3>7. CASE Here + SZREG < lastWord
        BY <1>2, <3>1, <3>2, <3>3, <3>5, <3>6, <3>7
      <3>8. CASE ~(Here + SZREG < lastWord)
        <4>1. label' = Remainder(Here + SZREG) BY <3>5, <3>8
        <4>2. Here + SZREG \in Nat BY <1>2, <1>5
        <4>3. \/ label' = "tail" /\ Here + SZREG < a3
              \/ label' = "exit" /\ Here + SZREG = a3
          BY <1>1, <3>3, <4>1, <4>2, RemainderRight
        <4> QED BY <1>2, <3>3, <3>6, <4>3
      <3> QED BY <3>7, <3>8
    <2>4. CASE TailBytes
      <3>1. Here < a3 /\ Move(1) BY <2>4 DEF TailBytes, LoopInv
      <3>2. Here + 1 <= a3 /\ Here + 1 \in Nat BY <1>1, <1>5, <3>1
      <3>3. Cursor = Here + 1 BY <2>1, <3>1, <3>2
      <3>4. label' = Remainder(Here + 1) BY <2>4, <3>3 DEF TailBytes
      <3>5. \/ label' = "tail" /\ Here + 1 < a3
            \/ label' = "exit" /\ Here + 1 = a3
        BY <1>1, <3>2, <3>4, RemainderRight
      <3> QED BY <3>1, <3>2, <3>5
    <2> QED BY <2>2, <2>3, <2>4
  <1>9. /\ BlockInv' /\ StoreInv' /\ Here' = Here + size
    <2>1. a0 + size <= call.to + call.n BY <1>1, <1>5, <1>8
    <2> QED BY <1>4, <1>6, <1>8, <2>1, MoveStep
  <1>10. label' \in {"head", "word", "tail", "exit"} BY <1>8
  <1>11. CallInv' BY <1>4, <1>6, <1>10 DEF CallInv, IsBlock, Clears
  <1>12. LoopInv'
    <2>1. label = "head" => firstWord < lastWord BY DEF LoopInv
    <2> QED BY <1>7, <1>8, <1>9, <2>1 DEF LoopInv
  <1>13. CountInv' BY <1>10 DEF CountInv
  <1>14. SingleInv' BY <1>4, <1>6 DEF SingleInv, IsBlock
  <1>15. AccessInv'
    <2>1. access_ok(UserAddr, call.n) BY <1>3 DEF AccessInv
    <2>2. access_ok(UserAddr, call.n)' BY <1>6, <2>1 DEF access_ok, UserAddr
    <2> QED BY <1>10, <2>2 DEF AccessInv
  <1> QED BY <1>9, <1>11, <1>12, <1>13, <1>14, <1>15

LEMMA NotZeroMod ==
  ASSUME NEW X \in Nat \ {0}, NEW d \in Int, d # 0, -X < d, d < X
  PROVE  d % X # 0
  <1>1. CASE d > 0
    <2>1. d \in 0..X - 1 BY <1>1
    <2> QED BY <2>1, <1>1
  <1>2. CASE d < 0
    <2>1. PICK q \in Int : q = d \div X OBVIOUS
    <2>2. d = X * q + (d % X) /\ d % X \in 0..X - 1 BY <2>1
    <2>3. SUFFICES ASSUME d % X = 0 PROVE FALSE OBVIOUS
    <2>4. d = X * q BY <2>2, <2>3
    <2>5. q < 0 BY <1>2, <2>4
    <2>6. X * q <= X * (-1) BY <2>5
    <2> QED BY <2>4, <2>6
  <1> QED BY <1>1, <1>2

\* The ways out of a block copy.
LEMMA OutStep == Going /\ (Exit \/ Fixup) => Going'
  <1> SUFFICES ASSUME Going, Exit \/ Fixup PROVE Going' OBVIOUS
  <1> USE DEF Going
  <1>1. /\ label \in {"head", "word", "tail", "exit"} /\ label' = "returned"
        /\ UNCHANGED <<call, a0, a1, dst>> /\ ~access'
    BY DEF Exit, Fixup, Returns
  <1>2. IsBlock BY <1>1 DEF CallInv
  <1>3. CallInv' BY <1>1, <1>2 DEF CallInv, IsBlock, Clears
  <1>4. StoreInv' /\ BlockInv'
    BY <1>1 DEF StoreInv, BlockInv, IsBlock, Done, Right, Clears
  <1>5. LoopInv' /\ AccessInv' BY <1>1 DEF LoopInv, AccessInv
  <1>6. SingleInv' BY <1>1, <1>2 DEF SingleInv, IsBlock
  <1>7. access_ok(UserAddr, call.n) BY <1>1 DEF AccessInv
  <1>8. CountInv'
    <2>1. /\ call.to \in Nat /\ call.from \in Nat /\ call.n \in Nat
          /\ Start \in Nat /\ a3 \in Nat
          /\ firstWord \in Nat /\ lastWord \in Nat /\ lastWord <= a3
      BY CallNumbers
    <2>2. /\ Here \in Nat /\ a3 - Here = call.to + call.n - a0 /\ a0 \in Nat
          /\ Here - Start = a0 - call.to
      BY <1>2, HereIs
    <2> DEFINE left == call.n - (a0 - call.to)
    <2>3. left = a3 - Here BY <2>1, <2>2
    <2>4. CASE Exit
      <3>1. ret' = 0 /\ Here = a3 BY <2>4 DEF Exit, Returns, LoopInv
      <3>2. left = 0 BY <2>1, <2>2, <2>3, <3>1
      <3>3. access_ok(UserAddr, call.n)' BY <1>1, <1>7 DEF access_ok, UserAddr
      <3> QED BY <1>1, <3>1, <3>2, <3>3 DEF CountInv
    <2>5. CASE Fixup
      <3>0. access_ok(UserAddr, call.n)' BY <1>1, <1>7 DEF access_ok, UserAddr
      <3>1. ret' = (a3 - a0) % XlenSize /\ label \in {"head", "word", "tail"}
        BY <2>5 DEF Fixup, Returns
      <3>2. Here < a3 BY <2>1, <2>2, <3>1 DEF LoopInv
      <3>3. left > 0 /\ left <= call.n
        <4>1. a0 >= call.to BY <1>2, <2>1, <2>2 DEF BlockInv
        <4> QED BY <2>1, <2>2, <2>3, <3>2, <4>1
      <3>4. CASE Clears
        <4>1. a3 - a0 = left BY <2>1, <2>2, <3>4 DEF a3, Start
        <4>2. access_ok(UserAddr, call.n) BY <1>7
        <4>3. call.n < XlenSize
          BY <2>1, <4>2, UserCopyAssumption DEF access_ok
        <4>4. left \in 0..XlenSize - 1
          BY <2>1, <2>2, <3>3, <4>3, UserCopyAssumption
        <4>5. ret' = left
          <5> HIDE DEF left
          <5>1. XlenSize \in Nat \ {0} BY UserCopyAssumption
          <5>2. left % XlenSize = left BY <4>4, <5>1
          <5> QED BY <3>1, <4>1, <5>2
        <4> QED BY <1>1, <3>0, <3>3, <3>4, <4>5 DEF CountInv, Clears
      <3>5. CASE ~Clears
        <4>1. a3 - a0 = left + call.from - call.to BY <2>1, <2>2, <3>5 DEF a3, Start
        <4>2. ret' = (left + call.from - call.to) % XlenSize BY <3>1, <4>1
        <4>3. ASSUME Apart PROVE ret' # 0
          <5>1. /\ XlenSize \in Nat \ {0}
                /\ call.to \in 0..XlenSize - 1 /\ call.from \in 0..XlenSize - 1
            BY UserCopyAssumption DEF CallInv
          <5> DEFINE d == left + call.from - call.to
          <5>2. left \in Int BY <2>1, <2>2
          <5>3. d \in Int /\ d # 0 /\ -XlenSize < d /\ d < XlenSize
            <6>1. CASE call.to + call.n < call.from /\ call.from + call.n < XlenSize
              <7> HIDE DEF left
              <7> QED BY <2>1, <3>3, <5>1, <5>2, <6>1
            <6>2. CASE call.from + call.n < call.to /\ call.to + call.n < XlenSize
              <7> HIDE DEF left
              <7> QED BY <2>1, <3>3, <5>1, <5>2, <6>2
            <6> QED BY <4>3, <6>1, <6>2 DEF Apart
          <5>4. ret' = d % XlenSize BY <4>2
          <5> HIDE DEF d
          <5> QED BY <5>1, <5>3, <5>4, NotZeroMod
        <4>4. Apart' => Apart BY <1>1 DEF Apart
        <4> QED BY <1>1, <3>0, <3>3, <3>5, <4>3, <4>4 DEF CountInv, Clears
      <3> QED BY <3>4, <3>5
    <2> QED BY <2>4, <2>5
  <1> QED BY <1>3, <1>4, <1>5, <1>6, <1>8

\* A single value: what each way out has written.
LEMMA SingleStep == Going /\ (GetUser \/ PutUser \/ PutSecond \/ PutFixup) => Going'
  <1> SUFFICES ASSUME Going, GetUser \/ PutUser \/ PutSecond \/ PutFixup PROVE Going'
    OBVIOUS
  <1> USE DEF Going
  <1>1. /\ label \in {"single", "second", "put_fixup"} /\ UNCHANGED <<call, a0, a1>>
    BY DEF GetUser, PutUser, PutSecond, PutFixup
  <1>2. ~IsBlock BY <1>1 DEF CallInv
  <1>3. /\ label' \in {"second", "put_fixup", "returned"}
        /\ (label' # "returned" => access' = access)
        /\ (label' = "returned" => ~access')
    BY <1>1 DEF GetUser, PutUser, PutSecond, PutFixup, Returns
  <1>4. CallInv' BY <1>1, <1>2, <1>3 DEF CallInv, IsBlock, Clears
  <1>5. BlockInv' /\ CountInv' BY <1>1, <1>2 DEF BlockInv, CountInv, IsBlock
  <1>6. LoopInv' BY <1>3 DEF LoopInv
  <1>7. AccessInv'
    <2>1. access_ok(UserAddr, call.n) BY <1>1 DEF AccessInv
    <2>2. access_ok(UserAddr, call.n)' BY <1>1, <2>1 DEF access_ok, UserAddr
    <2> QED BY <1>3, <2>2 DEF AccessInv
  <1>8. /\ call.to \in Nat /\ call.from \in Nat /\ call.n \in Nat
        /\ SZREG \in Nat \ {0} /\ call.n \in {SZREG, 2 * SZREG}
        /\ \A a \in Reach : a \in Nat
        /\ \A a \in call.to..call.to + call.n - 1 : a \in Reach
    BY <1>2, CallNumbers, UserCopyAssumption DEF CallInv
  <1>9. /\ Units \subseteq Reach /\ call.to \in Units
        /\ (call.n = SZREG => Units = {call.to})
        /\ (call.n = 2 * SZREG => Units = {call.to, call.to + SZREG})
    BY <1>8 DEF Units
  <1>10. /\ Units' = Units /\ call'.fn = call.fn /\ call'.n = call.n
         /\ call'.to = call.to /\ call'.from = call.from
         /\ (IsBlock' <=> IsBlock)
    BY <1>1 DEF Units, IsBlock
  <1>11. \A a : Right(a)' = Right(a) BY <1>1 DEF Right, Clears
  <1>12. CASE GetUser
    <2>1. call.fn = "get_user" /\ label' = "returned" /\ label = "single" /\ ~Clears
      BY <1>12 DEF GetUser, Returns, Clears
    <2>2. \A a \in Reach : dst[a] = Old BY <1>2, <2>1 DEF SingleInv
    <2>3. CASE /\ ret' = 0
               /\ dst' = [a \in Reach |-> IF a \in Units THEN Right(a) ELSE dst[a]]
      <3>1. \A a \in Reach : Right(a) \in Int BY <1>8, <2>1 DEF Right
      <3>2. StoreInv' BY <2>2, <2>3, <3>1 DEF StoreInv, Old
      <3>3. \A a \in Units : dst'[a] = Right(a) BY <1>9, <2>3
      <3>4. \A a \in Reach : a \notin Units => dst'[a] = Old BY <2>2, <2>3
      <3>5. SingleInv'
        BY <1>10, <1>11, <2>1, <2>3, <3>3, <3>4 DEF SingleInv
      <3> QED BY <1>4, <1>5, <1>6, <1>7, <3>2, <3>5
    <2>4. CASE ret' = Fault /\ StoreUnits(Zero)
      <3>1. dst' = [a \in Reach |-> IF a \in Units THEN Zero ELSE dst[a]]
        BY <2>4 DEF StoreUnits
      <3>2. StoreInv' BY <2>2, <3>1 DEF StoreInv, Old, Zero
      <3>3. \A a \in Units : dst'[a] = Zero BY <1>9, <3>1
      <3>4. \A a \in Reach : a \notin Units => dst'[a] = Old BY <2>2, <3>1
      <3>5. ret' # 0 BY <2>4 DEF Fault
      <3>6. SingleInv' BY <1>10, <2>1, <3>3, <3>4, <3>5 DEF SingleInv
      <3> QED BY <1>4, <1>5, <1>6, <1>7, <3>2, <3>6
    <2> QED BY <1>12, <2>3, <2>4 DEF GetUser, Returns
  <1>13. CASE PutUser
    <2>1. call.fn = "put_user" /\ label = "single" /\ ~Clears
      BY <1>13 DEF PutUser, Clears
    <2>2. (\A a \in Reach : dst[a] = Old) /\ ret = 0 BY <1>2, <2>1 DEF SingleInv
    <2>3. PICK faults \in BOOLEAN :
            /\ dst' = IF faults THEN dst ELSE [dst EXCEPT ![call.to] = call.from]
            /\ IF call.n = SZREG
               THEN label' = "returned" /\ ret' = IF faults THEN Fault ELSE 0
               ELSE /\ label' = IF faults THEN "put_fixup" ELSE "second"
                    /\ ret' = ret
      BY <1>13 DEF PutUser, Returns
    <2>4. call.to \in Reach BY <1>9
    <2>5. StoreInv' BY <1>8, <2>3 DEF StoreInv
    <2>6. ~faults => dst'[call.to] = call.from BY <2>3, <2>4 DEF StoreInv
    <2>7. \A a \in Reach : a \notin Units => dst'[a] = Old
      <3>1. \A a \in Reach : a # call.to => dst'[a] = dst[a] BY <2>3 DEF StoreInv
      <3> QED BY <1>9, <2>2, <3>1
    <2>8. Right(call.to) = call.from BY <1>8, <2>1 DEF Right
    <2>9. SingleInv'
      <3>1. CASE call.n = SZREG
        <4>1. label' = "returned" /\ ret' = (IF faults THEN Fault ELSE 0)
          BY <2>3, <3>1
        <4>2. ret' = 0 => \A a \in Units : dst'[a] = Right(a)
          BY <1>9, <2>6, <2>8, <3>1, <4>1 DEF Fault
        <4>3. ret' = Fault => \A a \in Reach : dst'[a] = Old
          <5>1. ret' = Fault => faults BY <4>1 DEF Fault
          <5> QED BY <2>2, <2>3, <5>1
        <4> QED
          BY <1>10, <1>11, <2>1, <2>7, <4>1, <4>2, <4>3 DEF SingleInv
      <3>2. CASE call.n # SZREG
        <4>1. /\ label' = (IF faults THEN "put_fixup" ELSE "second")
              /\ call.n = 2 * SZREG /\ ret' = 0
          BY <1>8, <2>2, <2>3, <3>2
        <4>2. label' = "second" => ~faults BY <4>1
        <4> QED BY <1>10, <2>1, <2>6, <2>7, <4>1, <4>2 DEF SingleInv
      <3> QED BY <3>1, <3>2
    <2> QED BY <1>4, <1>5, <1>6, <1>7, <2>5, <2>9
  <1>14. CASE PutSecond
    <2>1. label = "second" BY <1>14 DEF PutSecond
    <2>2. /\ call.fn = "put_user" /\ call.n = 2 * SZREG /\ ret \in {0, Fault}
          /\ (ret = 0 => dst[call.to] = call.from)
          /\ \A a \in Reach : a \notin Units => dst[a] = Old
      BY <1>2, <2>1 DEF SingleInv
    <2>3. ~Clears /\ call.n # SZREG BY <1>8, <2>2 DEF Clears
    <2>4. CASE /\ label' = "returned" /\ ret' = ret
               /\ dst' = [dst EXCEPT ![call.to + SZREG] = call.from + SZREG]
      <3>1. StoreInv'
        <4>1. PICK i \in Int : i = call.from + SZREG BY <1>8
        <4>2. dst' = [dst EXCEPT ![call.to + SZREG] = i] BY <2>4, <4>1
        <4> QED BY <4>2 DEF StoreInv
      <3>2. call.to + SZREG \in Units /\ call.to + SZREG # call.to
        BY <1>8, <1>9, <2>2
      <3>3. dst'[call.to + SZREG] = call.from + SZREG
        BY <1>9, <2>4, <3>2 DEF StoreInv
      <3>4. \A a \in Reach : a # call.to + SZREG => dst'[a] = dst[a]
        BY <2>4 DEF StoreInv
      <3>5. /\ Right(call.to) = call.from
            /\ Right(call.to + SZREG) = call.from + SZREG
        BY <1>8, <2>3 DEF Right
      <3>6. ret' = 0 => \A a \in Units : dst'[a] = Right(a)
        BY <1>9, <2>2, <2>4, <3>2, <3>3, <3>4, <3>5
      <3>7. \A a \in Reach : a \notin Units => dst'[a] = Old
        BY <2>2, <3>2, <3>4
      <3>8. SingleInv'
        BY <1>10, <1>11, <2>2, <2>3, <2>4, <3>6, <3>7 DEF SingleInv
      <3> QED BY <1>4, <1>5, <1>6, <1>7, <3>1, <3>8
    <2>5. CASE label' = "put_fixup" /\ UNCHANGED <<ret, dst, access>>
      <3>1. StoreInv' BY <2>5 DEF StoreInv
      <3>2. SingleInv' BY <1>10, <2>1, <2>2, <2>5 DEF SingleInv
      <3> QED BY <1>4, <1>5, <1>6, <1>7, <3>1, <3>2
    <2> QED BY <1>14, <2>4, <2>5 DEF PutSecond, Returns
  <1>15. CASE PutFixup
    <2>1. label = "put_fixup" /\ label' = "second" /\ ret' = Fault /\ dst' = dst
      BY <1>15 DEF PutFixup
    <2>2. StoreInv' BY <2>1 DEF StoreInv
    <2>3. ret' # 0 BY <2>1 DEF Fault
    <2>4. SingleInv' BY <1>2, <1>10, <2>1, <2>3 DEF SingleInv
    <2> QED BY <1>4, <1>5, <1>6, <1>7, <2>2, <2>4
  <1> QED BY <1>12, <1>13, <1>14, <1>15

LEMMA CopyStep == CopyInv /\ [CopyNext]_copyVars => CopyInv'
  <1> SUFFICES ASSUME CopyInv, [CopyNext]_copyVars PROVE CopyInv' OBVIOUS
  <1>1. CASE CopyOff
    <2>1. ~CopyNext
      BY <1>1 DEF CopyOff, CopyNext, Enter, HeadBytes, Words, TailBytes, Exit,
                  Fixup, GetUser, PutUser, PutSecond, PutFixup
    <2> QED BY <1>1, <2>1 DEF CopyInv, CopyOff, StoreInv, copyVars
  <1>2. CASE Going
    <2>1. CASE CopyNext
      BY <1>2, <2>1, EnterStep, LoopStep, OutStep, SingleStep DEF CopyNext, CopyInv, Going
    <2>2. CASE UNCHANGED copyVars
      BY <1>2, <2>2
      DEF copyVars, CopyInv, Going, StoreInv, CallInv, BlockInv, LoopInv, CountInv,
          SingleInv, AccessInv, IsBlock, Clears, Done, Right, Here, Units, UserAddr,
          Apart, access_ok, firstWord, lastWord, a3, Start
    <2> QED BY <2>1, <2>2
  <1> QED BY <1>1, <1>2 DEF CopyInv, Going

LEMMA CopyInvExact == CopyInv => CopiesExact
  <1> SUFFICES ASSUME CopyInv PROVE CopiesExact OBVIOUS
  <1>1. CASE CopyOff
    <2>1. /\ call.fn = "none" /\ label = "off" /\ ~access
          /\ \A a \in Reach : dst[a] = Old
      BY <1>1 DEF CopyOff, NoCall
    <2>2. Stored = {} BY <2>1 DEF Stored
    <2> QED BY <2>1, <2>2 DEF CopiesExact, Blocks
  <1>2. CASE Going
    <2> USE DEF Going
    <2>1. /\ call.to \in Nat /\ call.from \in Nat /\ call.n \in Nat
          /\ \A a \in call.to..call.to + call.n - 1 : a \in Reach
          /\ \A a \in Reach : a \in Nat /\ (IsBlock /\ Done(a) => Right(a) \in Nat \cup {Zero})
      BY <1>2, CallNumbers
    <2>2. IsBlock =>
            /\ Stored = Prefix(a0 - call.to) /\ call.n - (a0 - call.to) >= 0
            /\ \A a \in Stored : dst[a] = Right(a)
      <3>1. SUFFICES ASSUME IsBlock
                     PROVE  /\ Stored = Prefix(a0 - call.to)
                            /\ call.n - (a0 - call.to) >= 0
                            /\ \A a \in Stored : dst[a] = Right(a)
        OBVIOUS
      <3>2. /\ a0 \in call.to..call.to + call.n
            /\ \A a \in Reach : dst[a] = IF Done(a) THEN Right(a) ELSE Old
        BY <1>2, <3>1 DEF BlockInv
      <3>3. \A a \in Reach : Done(a) => Right(a) # Old
        BY <2>1, <3>1 DEF Old, Zero
      <3>4. \A a \in Reach : a \in Stored <=> Done(a) BY <3>2, <3>3 DEF Stored
      <3>5. \A a : Done(a) <=> a \in Prefix(a0 - call.to)
        BY <2>1, <3>2 DEF Done, Prefix
      <3>6. Prefix(a0 - call.to) \subseteq Reach BY <2>1, <3>2 DEF Prefix
      <3>7. Stored \subseteq Reach BY DEF Stored
      <3>8. Stored = Prefix(a0 - call.to) BY <3>4, <3>5, <3>6, <3>7
      <3> QED BY <2>1, <3>2, <3>4, <3>7, <3>8
    <2>3. IsBlock /\ label = "returned" =>
            LET left == call.n - (a0 - call.to)
            IN  /\ Clears => ret = left
                /\ left = 0 => ret = 0
                /\ left > 0 /\ Apart => ret # 0
                /\ ~access_ok(UserAddr, call.n) => ret = call.n
      BY <1>2 DEF CountInv
    <2>4. label = "returned" /\ call.fn = "get_user" =>
            \A a \in Units : dst[a] = IF ret = 0 THEN Right(a) ELSE Zero
      BY <1>2 DEF SingleInv, IsBlock, Blocks
    <2>5. label = "returned" /\ call.fn = "put_user" =>
            /\ ret = 0 => \A a \in Units : dst[a] = Right(a)
            /\ call.n = SZREG /\ ret = Fault => Stored = {}
      BY <1>2 DEF SingleInv, IsBlock, Blocks, Stored
    <2>6. ~IsBlock => Stored \subseteq Units BY <1>2 DEF SingleInv, Stored
    <2>7. access => label # "returned" /\ access_ok(UserAddr, call.n)
      BY <1>2 DEF AccessInv
    <2> QED BY <2>2, <2>3, <2>4, <2>5, <2>6, <2>7 DEF CopiesExact, IsBlock
  <1> QED BY <1>1, <1>2 DEF CopyInv, Going

\* For every size of register, address, length and limit: a copy that faults
\* anywhere has stored an exact prefix, a value is read and written whole or
\* its error is returned, and access to user memory ends with the call.
THEOREM CopyCorrect == CopySpec => []CopiesExact
  BY CopyStart, CopyStep, CopyInvExact, PTL DEF CopySpec

-----------------------------------------------------------------------------
\* memset and memcpy.

\* The end of the range, the bytes of a round and of a block, and what belongs
\* at an address.
End == arg.to + arg.n
Round == UNROLL * WordSize
Block == BLOCK * WordSize
Content(a) == IF memfn = "memset" THEN Fill ELSE arg.from + (a - arg.to)

\* The bytes before p are stored, and no others.
StoredTo(p) ==
    /\ p \in arg.to..End
    /\ \A a \in Area : bytes[a] = IF a \in arg.to..p - 1 THEN Content(a) ELSE Unset

\* The two pointers of memcpy.
InStep == memfn = "memcpy" => src - arg.from = to - arg.to

MemTypes ==
    /\ memfn \in {"memset", "memcpy"}
    /\ line \in {"entry", "1", "2", "3", "4", "5", "ret"}
    /\ arg.to \in Places /\ arg.from \in Places /\ arg.n \in Counts
    /\ to \in Int /\ src \in Nat /\ count \in Nat /\ until \in Int
    /\ bytes \in [Area -> Int]

\* Nothing is stored before the entry.
EntryInv == line = "entry" => StoredTo(to) /\ InStep /\ to = arg.to /\ count = arg.n

\* Up to an aligned address, with a word left for memset.
HeadInv ==
    line = "1" =>
        /\ StoredTo(to) /\ InStep
        /\ to < until /\ until % WordSize = 0 /\ until <= End /\ count = End - until
        /\ memfn = "memset" => count >= WordSize

\* At an aligned address.
AlignedInv ==
    line = "2" =>
        /\ StoredTo(to) /\ InStep
        /\ to % WordSize = 0 /\ count = End - to
        /\ memfn = "memset" => count >= WordSize

\* Rounds of memset: stores 0 to src - 1 of the round are skipped, whole rounds
\* are ahead, and the rest of the count is what comes after them.
RoundInv ==
    line = "3" /\ memfn = "memset" =>
        /\ src < UNROLL /\ StoredTo(to + src * WordSize)
        /\ to < until /\ (until - to) % Round = 0
        /\ until <= End /\ count % WordSize = End - until

\* Blocks of memcpy.
CopyBlocksInv ==
    line = "3" /\ memfn = "memcpy" =>
        /\ StoredTo(to) /\ InStep
        /\ src < until /\ (until - src) % Block = 0
        /\ until <= arg.from + arg.n /\ count % Block = arg.from + arg.n - until

\* The bytes that are left, from label 4 to the return.
RestInv ==
    /\ line = "4" => StoredTo(to) /\ InStep /\ count = End - to
    /\ line = "5" => StoredTo(to) /\ InStep /\ to < until /\ until = End
    /\ line = "ret" => StoredTo(End)

MemGoing == MemTypes /\ EntryInv /\ HeadInv /\ AlignedInv /\ RoundInv /\ CopyBlocksInv /\ RestInv
MemInv == MemOff \/ MemGoing

-----------------------------------------------------------------------------
\* Another round of S bytes when some are left.
LEMMA OneRoundLess ==
  ASSUME NEW S \in Nat \ {0}, NEW d \in Nat, d > 0, d % S = 0
  PROVE  S <= d /\ (d - S) % S = 0
  <1>1. PICK q \in Int : d = S * q BY Multiple
  <1>2. q >= 1 BY <1>1
  <1>3. S * q >= S BY <1>2
  <1>4. d - S = S * (q - 1) BY <1>1
  <1> QED BY <1>1, <1>3, <1>4, IsMultiple

\* The numbers of a call.
LEMMA MemNumbers ==
  ASSUME MemTypes
  PROVE  /\ arg.to \in Nat /\ arg.from \in Nat /\ arg.n \in Nat /\ End \in Nat
         /\ \A a \in Area : a \in Nat
         /\ \A a \in arg.to..End - 1 : a \in Area
         /\ WordSize \in Nat \ {0} /\ UNROLL \in Nat \ {0} /\ BLOCK \in Nat \ {0}
         /\ Round \in Nat \ {0} /\ Block \in Nat \ {0}
  <1>1. arg.to \in Nat /\ arg.from \in Nat /\ arg.n \in Nat
    BY MemOpsAssumption DEF MemTypes
  <1>2. \A a \in Area : a \in Nat BY MemOpsAssumption DEF Area
  <1>3. \A a \in arg.to..End - 1 : a \in Area
    <2> DEFINE ranges == {a..a + n - 1 : a \in Places, n \in Counts}
    <2>1. arg.to \in Places /\ arg.n \in Counts BY DEF MemTypes
    <2>2. arg.to..arg.to + arg.n - 1 \in ranges BY <2>1
    <2>3. Area = UNION ranges BY DEF Area
    <2> HIDE DEF ranges
    <2>4. \A a \in arg.to..arg.to + arg.n - 1 : a \in Area BY <2>2, <2>3
    <2> QED BY <1>1, <2>4 DEF End
  <1>4. WordSize \in Nat \ {0} /\ UNROLL \in Nat \ {0} /\ BLOCK \in Nat \ {0}
    BY MemOpsAssumption
  <1>5. Round \in Nat \ {0} /\ Block \in Nat \ {0}
    BY <1>4, Positive DEF Round, Block
  <1> QED BY <1>1, <1>2, <1>3, <1>4, <1>5 DEF End

\* What a step that keeps the call keeps.
LEMMA SameCall ==
  ASSUME UNCHANGED <<memfn, arg>>
  PROVE  End' = End /\ \A a : Content(a)' = Content(a)
  BY DEF End, Content

\* Storing n bytes where the stored ones end.
LEMMA PutStep ==
  ASSUME MemTypes, NEW a \in Int, NEW n \in Nat, StoredTo(a), a + n <= End,
         memfn = "memcpy" => src - arg.from = a - arg.to,
         Put(a, n)
  PROVE  /\ bytes' \in [Area -> Int]
         /\ a + n \in arg.to..End
         /\ \A b \in Area :
               bytes'[b] = IF b \in arg.to..a + n - 1 THEN Content(b) ELSE Unset
  <1>1. /\ arg.to \in Nat /\ arg.from \in Nat /\ arg.n \in Nat /\ End \in Nat
        /\ \A b \in Area : b \in Nat
        /\ \A b \in arg.to..End - 1 : b \in Area
    BY MemNumbers
  <1>2. a \in arg.to..End
        /\ \A b \in Area : bytes[b] = IF b \in arg.to..a - 1 THEN Content(b) ELSE Unset
    BY DEF StoredTo
  <1>3. Area \cup a..a + n - 1 = Area BY <1>1, <1>2
  <1>4. ASSUME NEW b \in Area
        PROVE  bytes'[b] = IF b \in a..a + n - 1
                           THEN IF memfn = "memset" THEN Fill ELSE src + (b - a)
                           ELSE bytes[b]
    BY <1>3 DEF Put
  <1>5. DOMAIN bytes' = Area /\ bytes' = [b \in Area |-> bytes'[b]] BY <1>3 DEF Put
  <1>6. ASSUME NEW b \in Area
        PROVE  bytes'[b] = IF b \in arg.to..a + n - 1 THEN Content(b) ELSE Unset
    <2>1. src \in Nat /\ memfn \in {"memset", "memcpy"} BY DEF MemTypes
    <2>2. CASE b \in a..a + n - 1
      <3>1. memfn = "memcpy" => src + (b - a) = Content(b)
        BY <1>1, <1>2, <2>1 DEF Content
      <3>2. memfn = "memset" => Content(b) = Fill BY DEF Content
      <3>3. b \in arg.to..a + n - 1 BY <1>1, <1>2, <2>2
      <3> QED BY <1>4, <2>1, <2>2, <3>1, <3>2, <3>3
    <2>3. CASE b \notin a..a + n - 1
      <3>1. b \in arg.to..a + n - 1 <=> b \in arg.to..a - 1 BY <1>1, <1>2, <2>3
      <3> QED BY <1>2, <1>4, <2>3, <3>1
    <2> QED BY <2>2, <2>3
  <1>7. \A b \in Area : Content(b) \in Int BY <1>1 DEF Content, Fill
  <1>8. bytes' \in [Area -> Int] BY <1>5, <1>6, <1>7 DEF Unset
  <1>9. a + n \in arg.to..End BY <1>1, <1>2
  <1> QED BY <1>6, <1>8, <1>9

LEMMA MemStart == MemInit \/ MemOff => MemInv
  <1> SUFFICES ASSUME MemInit PROVE MemGoing BY DEF MemInv
  <1>1. /\ memfn \in {"memset", "memcpy"} /\ line = "entry"
        /\ arg.to \in Places /\ arg.from \in Places /\ arg.n \in Counts
        /\ to = arg.to /\ src = arg.from /\ count = arg.n /\ until = 0
        /\ bytes = [a \in Area |-> Unset]
    BY DEF MemInit
  <1>2. MemTypes
    <2>1. arg.to \in Nat /\ arg.from \in Nat /\ arg.n \in Nat
      BY <1>1, MemOpsAssumption
    <2>2. bytes \in [Area -> Int] BY <1>1 DEF Unset
    <2> QED BY <1>1, <2>1, <2>2 DEF MemTypes
  <1>3. /\ arg.to \in Nat /\ arg.from \in Nat /\ arg.n \in Nat /\ End \in Nat
        /\ \A a \in Area : a \in Nat
    BY <1>2, MemNumbers
  <1>4. StoredTo(to) BY <1>1, <1>3 DEF StoredTo, End
  <1>5. InStep BY <1>1, <1>3 DEF InStep
  <1> QED
    BY <1>1, <1>2, <1>4, <1>5
    DEF MemGoing, EntryInv, HeadInv, AlignedInv, RoundInv, CopyBlocksInv, RestInv

\* How many bytes there are before the next aligned address.
LEMMA NextWordIs ==
  ASSUME NEW a \in Nat, MemTypes
  PROVE  /\ NextWordAt(a) \in Nat /\ a <= NextWordAt(a)
         /\ NextWordAt(a) <= a + WordSize - 1 /\ NextWordAt(a) % WordSize = 0
         /\ ~Aligned(a) => a < NextWordAt(a)
  <1>1. WordSize \in Nat \ {0} BY MemNumbers
  <1>2. /\ NextWordAt(a) \in Nat /\ a <= NextWordAt(a)
        /\ NextWordAt(a) < a + WordSize /\ NextWordAt(a) % WordSize = 0
    BY <1>1, RoundUp DEF NextWordAt
  <1>3. ~Aligned(a) => a # NextWordAt(a) BY <1>2 DEF Aligned
  <1> QED BY <1>1, <1>2, <1>3

LEMMA EntryStep == MemGoing /\ Entry => MemGoing'
  <1> SUFFICES ASSUME MemGoing, Entry PROVE MemGoing' OBVIOUS
  <1> USE DEF MemGoing
  <1>1. line = "entry" /\ UNCHANGED <<memfn, arg, to, src, bytes>> BY DEF Entry
  <1>2. /\ arg.to \in Nat /\ arg.from \in Nat /\ arg.n \in Nat /\ End \in Nat
        /\ WordSize \in Nat \ {0}
    BY MemNumbers
  <1>3. /\ StoredTo(to) /\ InStep /\ to = arg.to /\ count = arg.n
        /\ End = to + count /\ memfn \in {"memset", "memcpy"}
    BY <1>1, <1>2 DEF EntryInv, End, MemTypes
  <1>4. StoredTo(to)' /\ InStep' /\ End' = End
    <2>1. End' = End /\ \A a : Content(a)' = Content(a) BY <1>1, SameCall
    <2> QED BY <1>1, <1>3, <2>1 DEF StoredTo, InStep
  <1>5. CASE Direct
    <2>1. line' = "4" /\ UNCHANGED <<until, count>> BY <1>5 DEF Entry
    <2>2. MemTypes' BY <1>1, <2>1 DEF MemTypes
    <2>3. count' = End' - to' BY <1>1, <1>2, <1>3, <1>4, <2>1
    <2> QED
      BY <1>4, <2>1, <2>2, <2>3
      DEF EntryInv, HeadInv, AlignedInv, RoundInv, CopyBlocksInv, RestInv
  <1>6. CASE ~Direct
    <2>1. /\ memfn = "memset" => count >= 2 * WordSize - 1
          /\ count >= WordSize - 1
      BY <1>2, <1>3, <1>6, MemOpsAssumption DEF Direct
    <2>2. CASE Aligned(to)
      <3>1. line' = "2" /\ UNCHANGED <<until, count>> BY <1>6, <2>2 DEF Entry
      <3>2. MemTypes' BY <1>1, <3>1 DEF MemTypes
      <3>3. count' = End' - to' BY <1>1, <1>2, <1>3, <1>4, <3>1
      <3>4. to' % WordSize = 0 BY <1>1, <2>2 DEF Aligned
      <3>5. memfn' = "memset" => count' >= WordSize BY <1>1, <1>2, <1>3, <2>1, <3>1
      <3> QED
        BY <1>4, <3>1, <3>2, <3>3, <3>4, <3>5
        DEF EntryInv, HeadInv, AlignedInv, RoundInv, CopyBlocksInv, RestInv
    <2>3. CASE ~Aligned(to)
      <3> DEFINE next == NextWordAt(to)
      <3>1. /\ line' = "1" /\ until' = next /\ count' = count - (next - to)
        BY <1>6, <2>3 DEF Entry
      <3>2. /\ next \in Nat /\ to < next /\ next <= to + WordSize - 1
            /\ next % WordSize = 0
        BY <1>2, <1>3, <2>3, NextWordIs
      <3> HIDE DEF next
      <3>3. count' \in Nat /\ until' <= End /\ count' = End - until'
        BY <1>2, <1>3, <2>1, <3>1, <3>2
      <3>4. memfn' = "memset" => count' >= WordSize
        BY <1>1, <1>2, <1>3, <2>1, <3>1, <3>2
      <3>5. MemTypes' BY <1>1, <3>1, <3>2, <3>3 DEF MemTypes
      <3>6. to' < until' /\ until' % WordSize = 0 BY <1>1, <3>1, <3>2
      <3> QED
        BY <1>4, <3>1, <3>3, <3>4, <3>5, <3>6
        DEF EntryInv, HeadInv, AlignedInv, RoundInv, CopyBlocksInv, RestInv
    <2> QED BY <2>2, <2>3
  <1> QED BY <1>5, <1>6

\* One byte at either end.
LEMMA BytesStep == MemGoing /\ (Bytes("1", "2") \/ Bytes("5", "ret")) => MemGoing'
  <1> SUFFICES ASSUME MemGoing, NEW here \in {"1", "5"}, NEW next \in {"2", "ret"},
                      here = "1" <=> next = "2", Bytes(here, next)
               PROVE  MemGoing'
    OBVIOUS
  <1> USE DEF MemGoing
  <1>1. /\ line = here /\ Put(to, 1) /\ to' = to + 1 /\ src' = src + 1
        /\ line' = IF to + 1 < until THEN here ELSE next
        /\ UNCHANGED <<memfn, arg, count, until>>
    BY DEF Bytes
  <1>2. /\ arg.to \in Nat /\ arg.from \in Nat /\ arg.n \in Nat /\ End \in Nat
        /\ WordSize \in Nat \ {0}
    BY MemNumbers
  <1>3. /\ to \in Int /\ src \in Nat /\ count \in Nat /\ until \in Int BY DEF MemTypes
  <1>4. StoredTo(to) /\ InStep /\ to < until /\ until <= End
    BY <1>1, <1>2 DEF HeadInv, RestInv
  <1>5. End' = End /\ \A a : Content(a)' = Content(a) BY <1>1, SameCall
  <1>6. bytes' \in [Area -> Int] /\ StoredTo(to)'
    <2>1. /\ bytes' \in [Area -> Int] /\ to + 1 \in arg.to..End
          /\ \A b \in Area :
                bytes'[b] = IF b \in arg.to..to + 1 - 1 THEN Content(b) ELSE Unset
      BY <1>1, <1>2, <1>3, <1>4, PutStep DEF InStep
    <2> QED BY <1>1, <1>2, <1>3, <1>5, <2>1 DEF StoredTo
  <1>7. InStep' BY <1>1, <1>2, <1>3, <1>4 DEF InStep
  <1>8. MemTypes' BY <1>1, <1>3, <1>6 DEF MemTypes
  <1>9. CASE to + 1 < until
    <2>1. line' = line /\ to' < until' BY <1>1, <1>9
    <2> QED
      BY <1>1, <1>5, <1>6, <1>7, <1>8, <2>1
      DEF EntryInv, HeadInv, AlignedInv, RoundInv, CopyBlocksInv, RestInv
  <1>10. CASE ~(to + 1 < until)
    <2>1. line' = next /\ to' = until BY <1>1, <1>3, <1>4, <1>10
    <2>2. CASE here = "1"
      <3>1. /\ line' = "2" /\ to' % WordSize = 0 /\ count' = End' - to'
            /\ memfn' = "memset" => count' >= WordSize
        BY <1>1, <1>5, <2>1, <2>2 DEF HeadInv
      <3> QED
        BY <1>6, <1>7, <1>8, <3>1
        DEF EntryInv, HeadInv, AlignedInv, RoundInv, CopyBlocksInv, RestInv
    <2>3. CASE here = "5"
      <3>1. line' = "ret" /\ to' = End' BY <1>1, <1>5, <2>1, <2>3 DEF RestInv
      <3>2. StoredTo(End)' BY <1>6, <3>1 DEF StoredTo
      <3> QED
        BY <1>8, <3>1, <3>2
        DEF EntryInv, HeadInv, AlignedInv, RoundInv, CopyBlocksInv, RestInv
    <2> QED BY <2>2, <2>3
  <1> QED BY <1>9, <1>10

LEMMA RestStep == MemGoing /\ Rest => MemGoing'
  <1> SUFFICES ASSUME MemGoing, Rest PROVE MemGoing' OBVIOUS
  <1> USE DEF MemGoing
  <1>1. line = "4" /\ UNCHANGED <<memfn, arg, to, src, count, bytes>> BY DEF Rest
  <1>2. End \in Nat /\ to \in Int /\ count \in Nat BY MemNumbers DEF MemTypes
  <1>3. StoredTo(to) /\ InStep /\ count = End - to BY <1>1 DEF RestInv
  <1>4. End' = End /\ \A a : Content(a)' = Content(a) BY <1>1, SameCall
  <1>5. StoredTo(to)' /\ InStep' BY <1>1, <1>3, <1>4 DEF StoredTo, InStep
  <1>6. CASE count = 0
    <2>1. line' = "ret" /\ until' = until /\ to' = End' BY <1>1, <1>2, <1>3, <1>4, <1>6 DEF Rest
    <2>2. StoredTo(End)' BY <1>5, <2>1 DEF StoredTo
    <2>3. MemTypes' BY <1>1, <2>1 DEF MemTypes
    <2> QED
      BY <2>1, <2>2, <2>3
      DEF EntryInv, HeadInv, AlignedInv, RoundInv, CopyBlocksInv, RestInv
  <1>7. CASE count # 0
    <2>1. line' = "5" /\ until' = to + count BY <1>7 DEF Rest
    <2>2. until' = End' /\ to' < until' BY <1>1, <1>2, <1>3, <1>4, <1>7, <2>1
    <2>3. MemTypes' BY <1>1, <1>2, <2>1 DEF MemTypes
    <2> QED
      BY <1>5, <2>1, <2>2, <2>3
      DEF EntryInv, HeadInv, AlignedInv, RoundInv, CopyBlocksInv, RestInv
  <1> QED BY <1>6, <1>7

\* memset goes back by whole words, so that whole rounds end where the words do.
LEMMA OffsetIs ==
  ASSUME MemTypes, NEW a4 \in Nat, a4 % WordSize = 0, a4 > 0
  PROVE  LET o == InitialOffset(a4)
         IN  /\ o \in 0..Round - 1 /\ (a4 + o) % Round = 0
             /\ o \div WordSize \in Nat /\ (o \div WordSize) * WordSize = o
             /\ o \div WordSize < UNROLL
  <1> DEFINE R == Round
             W == WordSize
             U == UNROLL
             o == InitialOffset(a4)
             rest == a4 % R
             q == a4 \div R
  <1>1. W \in Nat \ {0} /\ U \in Nat \ {0} /\ R \in Nat \ {0} BY MemNumbers
  <1>2. R = U * W BY DEF Round
  <1>3. o = IF rest = 0 THEN 0 ELSE R - rest BY DEF InitialOffset, Round
  <1> HIDE DEF R, W, U, o
  <1>4. rest \in 0..R - 1 /\ q \in Nat /\ a4 = R * q + rest BY <1>1
  <1>5. PICK p \in Int : a4 = W * p
    <2>1. a4 % W = 0 /\ a4 \in Int BY DEF W
    <2>2. \E d \in Int : a4 = W * d BY <1>1, <2>1, Multiple
    <2> QED BY <2>2
  <1> HIDE DEF rest, q
  <1>6. o \in 0..R - 1 /\ (a4 + o = R * q \/ a4 + o = R * (q + 1))
    BY <1>1, <1>3, <1>4
  <1>7. (a4 + o) % R = 0
    <2>1. q \in Int /\ q + 1 \in Int BY <1>4
    <2> QED BY <1>1, <1>6, <2>1, IsMultiple
  <1>8. \E y \in Int : o = W * y
    <2>1. CASE a4 + o = R * q
      <3>1. R * q = W * (U * q) BY <1>1, <1>2, <1>4
      <3>2. o = W * (U * q - p) BY <1>1, <1>4, <1>5, <1>6, <2>1, <3>1
      <3>3. U * q - p \in Int BY <1>1, <1>4, <1>5
      <3> QED BY <3>2, <3>3
    <2>2. CASE a4 + o = R * (q + 1)
      <3>1. R * (q + 1) = W * (U * (q + 1)) BY <1>1, <1>2, <1>4
      <3>2. o = W * (U * (q + 1) - p) BY <1>1, <1>4, <1>5, <1>6, <2>2, <3>1
      <3>3. U * (q + 1) - p \in Int BY <1>1, <1>4, <1>5
      <3> QED BY <3>2, <3>3
    <2> QED BY <1>6, <2>1, <2>2
  <1>9. PICK y \in Int : o = W * y BY <1>8
  <1>10. y \in Nat /\ y < U
    <2>1. W * y >= 0 /\ W * y < W * U BY <1>1, <1>2, <1>6, <1>9
    <2> QED BY <1>1, <1>9, <2>1
  <1>11. o \div W = y BY <1>1, <1>9
  <1> QED BY <1>1, <1>6, <1>7, <1>9, <1>10, <1>11 DEF R, W, U, o

LEMMA SetWordsStep == MemGoing /\ SetWords => MemGoing'
  <1> SUFFICES ASSUME MemGoing, SetWords PROVE MemGoing' OBVIOUS
  <1> USE DEF MemGoing
  <1> DEFINE a4 == (count \div WordSize) * WordSize
             o  == InitialOffset(a4)
  <1>1. /\ line = "2" /\ memfn = "memset" /\ until' = to + a4 /\ to' = to - o
        /\ src' = o \div WordSize /\ line' = "3"
        /\ UNCHANGED <<memfn, arg, count, bytes>>
    BY DEF SetWords
  <1>2. /\ arg.to \in Nat /\ arg.n \in Nat /\ End \in Nat
        /\ WordSize \in Nat \ {0} /\ UNROLL \in Nat \ {0} /\ Round \in Nat \ {0}
    BY MemNumbers
  <1>3. /\ StoredTo(to) /\ to \in Int /\ count = End - to /\ count \in Nat
        /\ count >= WordSize
    BY <1>1 DEF AlignedInv, MemTypes
  <1>4. /\ a4 \in Nat /\ a4 % WordSize = 0 /\ a4 <= count /\ count < a4 + WordSize
        /\ count % WordSize = count - a4 /\ a4 > 0
    <2>1. /\ a4 \in Nat /\ a4 <= count /\ count < a4 + WordSize /\ a4 % WordSize = 0
          /\ count % WordSize = count - a4
      BY <1>2, <1>3, RoundedDown
    <2> QED BY <1>2, <1>3, <2>1
  <1> HIDE DEF a4
  <1>5. /\ o \in 0..Round - 1 /\ (a4 + o) % Round = 0
        /\ o \div WordSize \in Nat /\ (o \div WordSize) * WordSize = o
        /\ o \div WordSize < UNROLL
    BY <1>4, OffsetIs
  <1> HIDE DEF o
  <1>6. End' = End /\ \A a : Content(a)' = Content(a) BY <1>1, SameCall
  <1>7. MemTypes' BY <1>1, <1>2, <1>3, <1>4, <1>5 DEF MemTypes
  <1>8. to' + src' * WordSize = to /\ until' - to' = a4 + o
    <2>1. src' * WordSize = o BY <1>1, <1>5
    <2>2. o \in Int BY <1>2, <1>5
    <2>3. to' = to - o /\ until' = to + a4 BY <1>1
    <2> QED BY <1>3, <1>4, <2>1, <2>2, <2>3
  <1>9. StoredTo(to + src * WordSize)' BY <1>1, <1>3, <1>6, <1>8 DEF StoredTo
  <1>10. /\ src' < UNROLL /\ to' < until' /\ (until' - to') % Round = 0
         /\ until' <= End /\ count' % WordSize = End - until'
    BY <1>1, <1>2, <1>3, <1>4, <1>5, <1>8
  <1> QED
    BY <1>1, <1>6, <1>7, <1>9, <1>10
    DEF EntryInv, HeadInv, AlignedInv, RoundInv, CopyBlocksInv, RestInv

LEMMA SetRoundStep == MemGoing /\ SetRound => MemGoing'
  <1> SUFFICES ASSUME MemGoing, SetRound PROVE MemGoing' OBVIOUS
  <1> USE DEF MemGoing
  <1>1. /\ line = "3" /\ memfn = "memset"
        /\ Put(to + src * WordSize, (UNROLL - src) * WordSize)
        /\ to' = to + UNROLL * WordSize /\ src' = 0
        /\ IF to' < until THEN UNCHANGED <<line, count>>
           ELSE line' = "4" /\ count' = count % WordSize
        /\ UNCHANGED <<memfn, arg, until>>
    BY DEF SetRound
  <1>2. /\ arg.to \in Nat /\ arg.n \in Nat /\ End \in Nat
        /\ WordSize \in Nat \ {0} /\ UNROLL \in Nat \ {0} /\ Round \in Nat \ {0}
    BY MemNumbers
  <1>3. /\ to \in Int /\ src \in Nat /\ count \in Nat /\ until \in Int
        /\ src < UNROLL /\ StoredTo(to + src * WordSize)
        /\ to < until /\ (until - to) % Round = 0
        /\ until <= End /\ count % WordSize = End - until
    BY <1>1 DEF RoundInv, MemTypes
  <1> DEFINE a == to + src * WordSize
             n == (UNROLL - src) * WordSize
  <1>4. a \in Int /\ n \in Nat /\ a + n = to + Round
    <2>1. src * WordSize \in Nat /\ UNROLL - src \in Nat BY <1>2, <1>3
    <2>2. (UNROLL - src) * WordSize = UNROLL * WordSize - src * WordSize
      BY <1>2, <1>3
    <2>3. n \in Nat BY <1>2, <2>1
    <2>4. UNROLL * WordSize \in Nat BY <1>2
    <2> QED BY <1>3, <2>1, <2>2, <2>3, <2>4 DEF Round
  <1>5. Round <= until - to /\ (until - to - Round) % Round = 0
    <2>1. until - to \in Nat /\ until - to > 0 BY <1>3
    <2> QED BY <1>2, <1>3, <2>1, OneRoundLess
  <1>6. End' = End /\ \A b : Content(b)' = Content(b) BY <1>1, SameCall
  <1>7. to' = to + Round /\ to' \in Int BY <1>1, <1>2, <1>3 DEF Round
  <1>8. /\ bytes' \in [Area -> Int] /\ to' \in arg.to..End
        /\ \A b \in Area :
              bytes'[b] = IF b \in arg.to..to' - 1 THEN Content(b) ELSE Unset
    <2>1. Put(a, n) /\ StoredTo(a) BY <1>1, <1>3
    <2> HIDE DEF a, n
    <2>2. a + n <= End BY <1>2, <1>3, <1>4, <1>5
    <2>3. /\ bytes' \in [Area -> Int] /\ a + n \in arg.to..End
          /\ \A b \in Area :
                bytes'[b] = IF b \in arg.to..a + n - 1 THEN Content(b) ELSE Unset
      BY <1>1, <1>4, <2>1, <2>2, PutStep
    <2> QED BY <1>4, <1>7, <2>3
  <1>9. StoredTo(to)' BY <1>1, <1>6, <1>8 DEF StoredTo
  <1>10. InStep' BY <1>1 DEF InStep
  <1>11. CASE to' < until
    <2>1. line' = "3" /\ count' = count BY <1>1, <1>11
    <2>2. MemTypes' BY <1>1, <1>7, <1>8, <2>1 DEF MemTypes
    <2>3. to' + src' * WordSize = to' BY <1>1, <1>2, <1>7
    <2>4. StoredTo(to + src * WordSize)' BY <1>9, <2>3 DEF StoredTo
    <2>5. (until' - to') % Round = 0
      <3>1. until' - to' = until - to - Round BY <1>1, <1>2, <1>3, <1>7
      <3> QED BY <1>5, <3>1
    <2>6. /\ src' < UNROLL /\ to' < until' /\ until' <= End'
          /\ count' % WordSize = End' - until'
      BY <1>1, <1>2, <1>3, <1>6, <1>11, <2>1
    <2> QED
      BY <1>1, <2>1, <2>2, <2>4, <2>5, <2>6
      DEF EntryInv, HeadInv, AlignedInv, RoundInv, CopyBlocksInv, RestInv
  <1>12. CASE ~(to' < until)
    <2>1. line' = "4" /\ count' = count % WordSize BY <1>1, <1>12
    <2>2. to' = until BY <1>2, <1>3, <1>5, <1>7, <1>12
    <2>3. count' = End' - to' /\ count' \in Nat BY <1>2, <1>3, <1>6, <2>1, <2>2
    <2>4. MemTypes' BY <1>1, <1>7, <1>8, <2>1, <2>3 DEF MemTypes
    <2> QED
      BY <1>9, <1>10, <2>1, <2>3, <2>4
      DEF EntryInv, HeadInv, AlignedInv, RoundInv, CopyBlocksInv, RestInv
  <1> QED BY <1>11, <1>12

LEMMA CopyWordsStep == MemGoing /\ CopyWords => MemGoing'
  <1> SUFFICES ASSUME MemGoing, CopyWords PROVE MemGoing' OBVIOUS
  <1> USE DEF MemGoing
  <1> DEFINE a4 == (count \div (BLOCK * WordSize)) * BLOCK * WordSize
             d  == (count \div Block) * Block
  <1>1. /\ line = "2" /\ memfn = "memcpy"
        /\ IF a4 = 0 THEN line' = "4" /\ UNCHANGED until
           ELSE line' = "3" /\ until' = src + a4
        /\ UNCHANGED <<memfn, arg, to, src, count, bytes>>
    BY DEF CopyWords
  <1>2. /\ arg.to \in Nat /\ arg.from \in Nat /\ arg.n \in Nat /\ End \in Nat
        /\ WordSize \in Nat \ {0} /\ BLOCK \in Nat \ {0} /\ Block \in Nat \ {0}
    BY MemNumbers
  <1>3. /\ StoredTo(to) /\ InStep /\ count = End - to
        /\ to \in Int /\ src \in Nat /\ count \in Nat
    BY <1>1 DEF AlignedInv, MemTypes
  <1>4. a4 = d
    <2>1. count \div (BLOCK * WordSize) \in Nat BY <1>2, <1>3 DEF Block
    <2> DEFINE q == count \div (BLOCK * WordSize)
    <2> HIDE DEF q
    <2>2. q \in Nat BY <2>1 DEF q
    <2>3. q * BLOCK * WordSize = q * (BLOCK * WordSize) BY <1>2, <2>2
    <2> QED BY <2>3 DEF q, Block
  <1>5. d \in Nat /\ d <= count /\ d % Block = 0 /\ count % Block = count - d
    BY <1>2, <1>3, RoundedDown
  <1> HIDE DEF a4, d
  <1>6. End' = End /\ \A a : Content(a)' = Content(a) BY <1>1, SameCall
  <1>7. StoredTo(to)' /\ InStep' BY <1>1, <1>3, <1>6 DEF StoredTo, InStep
  <1>8. CASE a4 = 0
    <2>1. line' = "4" /\ until' = until /\ count' = End' - to'
      BY <1>1, <1>3, <1>6, <1>8
    <2>2. MemTypes' BY <1>1, <2>1 DEF MemTypes
    <2> QED
      BY <1>7, <2>1, <2>2
      DEF EntryInv, HeadInv, AlignedInv, RoundInv, CopyBlocksInv, RestInv
  <1>9. CASE a4 # 0
    <2>1. line' = "3" /\ until' = src + d BY <1>1, <1>4, <1>9
    <2>2. src' < until' /\ until' - src' = d BY <1>1, <1>3, <1>4, <1>5, <1>9, <2>1
    <2>3. (until' - src') % Block = 0 BY <1>5, <2>2
    <2>4. src - arg.from = to - arg.to BY <1>1, <1>3 DEF InStep
    <2>5. until' <= arg.from + arg.n BY <1>2, <1>3, <1>5, <2>1, <2>4 DEF End
    <2>6. count' % Block = arg.from + arg.n - until'
      BY <1>1, <1>2, <1>3, <1>5, <2>1, <2>4 DEF End
    <2>7. MemTypes' BY <1>1, <1>3, <1>5, <2>1 DEF MemTypes
    <2>8. Block' = Block BY DEF Block
    <2> QED
      BY <1>1, <1>7, <2>1, <2>2, <2>3, <2>5, <2>6, <2>7, <2>8
      DEF EntryInv, HeadInv, AlignedInv, RoundInv, CopyBlocksInv, RestInv
  <1> QED BY <1>8, <1>9

LEMMA CopyBlockStep == MemGoing /\ CopyBlock => MemGoing'
  <1> SUFFICES ASSUME MemGoing, CopyBlock PROVE MemGoing' OBVIOUS
  <1> USE DEF MemGoing
  <1>1. /\ line = "3" /\ memfn = "memcpy"
        /\ Put(to, Block) /\ to' = to + Block /\ src' = src + Block
        /\ IF src' < until THEN UNCHANGED <<line, count>>
           ELSE line' = "4" /\ count' = count % Block
        /\ UNCHANGED <<memfn, arg, until>>
    BY DEF CopyBlock, Block
  <1>2. /\ arg.to \in Nat /\ arg.from \in Nat /\ arg.n \in Nat /\ End \in Nat
        /\ Block \in Nat \ {0}
    BY MemNumbers
  <1>3. /\ to \in Int /\ src \in Nat /\ count \in Nat /\ until \in Int
        /\ StoredTo(to) /\ src - arg.from = to - arg.to
        /\ src < until /\ (until - src) % Block = 0
        /\ until <= arg.from + arg.n /\ count % Block = arg.from + arg.n - until
    BY <1>1 DEF CopyBlocksInv, InStep, MemTypes
  <1>4. Block <= until - src /\ (until - src - Block) % Block = 0
    <2>1. until - src \in Nat /\ until - src > 0 BY <1>3
    <2> QED BY <1>2, <1>3, <2>1, OneRoundLess
  <1>5. End' = End /\ \A b : Content(b)' = Content(b) BY <1>1, SameCall
  <1>6. bytes' \in [Area -> Int] /\ StoredTo(to)'
    <2>1. to + Block <= End BY <1>2, <1>3, <1>4 DEF End
    <2>2. /\ bytes' \in [Area -> Int] /\ to + Block \in arg.to..End
          /\ \A b \in Area :
                bytes'[b] = IF b \in arg.to..to + Block - 1 THEN Content(b) ELSE Unset
      BY <1>1, <1>2, <1>3, <2>1, PutStep
    <2> QED BY <1>1, <1>2, <1>3, <1>5, <2>2 DEF StoredTo
  <1>7. InStep' BY <1>1, <1>2, <1>3 DEF InStep
  <1>8. CASE src' < until
    <2>1. line' = line /\ count' = count /\ src' < until' BY <1>1, <1>8
    <2>2. (until' - src') % Block = 0
      <3>1. until' - src' = until - src - Block BY <1>1, <1>2, <1>3
      <3> QED BY <1>4, <3>1
    <2>3. MemTypes' BY <1>1, <1>2, <1>3, <1>6, <2>1 DEF MemTypes
    <2>4. Block' = Block BY DEF Block
    <2>5. until' <= arg'.from + arg'.n /\ count' % Block = arg'.from + arg'.n - until'
      BY <1>1, <1>3, <2>1
    <2> QED
      BY <1>1, <1>6, <1>7, <2>1, <2>2, <2>3, <2>4, <2>5
      DEF EntryInv, HeadInv, AlignedInv, RoundInv, CopyBlocksInv, RestInv
  <1>9. CASE ~(src' < until)
    <2>1. line' = "4" /\ count' = count % Block BY <1>1, <1>9
    <2>2. src' = until BY <1>1, <1>2, <1>3, <1>4, <1>9
    <2>3. count' = End' - to' /\ count' \in Nat
      BY <1>1, <1>2, <1>3, <1>5, <2>1, <2>2 DEF End
    <2>4. MemTypes' BY <1>1, <1>2, <1>3, <1>6, <2>1, <2>3 DEF MemTypes
    <2> QED
      BY <1>6, <1>7, <2>1, <2>3, <2>4
      DEF EntryInv, HeadInv, AlignedInv, RoundInv, CopyBlocksInv, RestInv
  <1> QED BY <1>8, <1>9

LEMMA MemStep == MemInv /\ [MemNext]_memVars => MemInv'
  <1>1. MemInv /\ UNCHANGED memVars => MemInv'
    <2> SUFFICES ASSUME MemInv, UNCHANGED memVars PROVE MemInv' OBVIOUS
    <2>1. /\ memfn' = memfn /\ line' = line /\ arg' = arg /\ to' = to /\ src' = src
          /\ count' = count /\ until' = until /\ bytes' = bytes
      BY DEF memVars
    <2>2. End' = End /\ \A a : Content(a)' = Content(a) BY <2>1, SameCall
    <2>3. MemOff => MemOff' BY <2>1 DEF MemOff
    <2>4. MemGoing => MemGoing'
      BY <2>1, <2>2
      DEF MemGoing, MemTypes, EntryInv, HeadInv, AlignedInv, RoundInv, CopyBlocksInv, RestInv,
          StoredTo, InStep
    <2> QED BY <2>3, <2>4 DEF MemInv
  <1>2. MemOff => ~MemNext
    BY DEF MemOff, MemNext, Entry, Bytes, SetWords, SetRound, CopyWords, CopyBlock, Rest
  <1>3. MemGoing /\ MemNext => MemGoing'
    BY EntryStep, BytesStep, SetWordsStep, SetRoundStep, CopyWordsStep, CopyBlockStep, RestStep
    DEF MemNext
  <1> QED BY <1>1, <1>2, <1>3 DEF MemInv

LEMMA MemImplies == MemInv => MemExact
  <1>1. ASSUME MemOff PROVE MemExact
    <2>1. line = "off" /\ \A a \in DOMAIN bytes : bytes[a] = Unset BY <1>1 DEF MemOff
    <2> QED BY <2>1 DEF MemExact
  <1>2. ASSUME MemGoing PROVE MemExact
    <2>1. PICK p \in arg.to..End :
             /\ \A a \in Area : bytes[a] = IF a \in arg.to..p - 1 THEN Content(a) ELSE Unset
             /\ line = "ret" => p = End
      BY <1>2
      DEF MemGoing, MemTypes, EntryInv, HeadInv, AlignedInv, RoundInv, CopyBlocksInv, RestInv,
          StoredTo
    <2>2. /\ arg.to \in Nat /\ arg.from \in Nat /\ arg.n \in Nat /\ End \in Nat
          /\ \A a \in Area : a \in Nat
          /\ \A a \in arg.to..End - 1 : a \in Area
      BY <1>2, MemNumbers DEF MemGoing
    <2>3. DOMAIN bytes = Area BY <1>2 DEF MemGoing, MemTypes
    <2>4. \A a \in arg.to..End - 1 : Content(a) # Unset BY <2>2 DEF Content, Fill, Unset
    <2>5. \A a \in Area : bytes[a] # Unset <=> a \in arg.to..p - 1
      BY <2>1, <2>2, <2>4
    <2> QED BY <2>1, <2>2, <2>3, <2>5 DEF MemExact, Content, End
  <1> QED BY <1>1, <1>2 DEF MemInv

\* For every word size, unrolling, address and length: the bytes up to an aligned
\* address, the words, entered in the middle of a round, and the rest are each
\* byte of the range once, and no other (memset.S, memcpy.S).
THEOREM MemCorrect == MemSpec => []MemExact
  <1>1. MemInit \/ MemOff => MemInv BY MemStart
  <1>2. MemInv /\ [MemNext]_memVars => MemInv' BY MemStep
  <1>3. MemInv => MemExact BY MemImplies
  <1> QED BY <1>1, <1>2, <1>3, PTL DEF MemSpec

\* No block of bytes is ever wrong, wherever it is, however long and whatever
\* the word size: __copy_user and __clear_user, memcpy and memset.
THEOREM BytesCorrect == CopySpec /\ MemSpec => []BytesExact
  <1>1. CopiesExact /\ MemExact => BytesExact BY DEF BytesExact
  <1> QED BY <1>1, CopyCorrect, MemCorrect, PTL

-----------------------------------------------------------------------------
\* Words of n bits.  What a recursive function computes is proved by induction
\* over the numbers, from the minimum of a well-founded relation.

LEMMA LessWellFounded == IsWellFoundedOn({ss \in Nat \X Nat : ss[1] < ss[2]}, Nat)
  BY NatLessThanWellFounded DEF OpToRel

\* Induction, for a set in the place of a predicate.
LEMMA Induction ==
  ASSUME NEW S, S \subseteq Nat, 0 \in S, \A n \in S : n + 1 \in S
  PROVE  S = Nat
<1> DEFINE R == {ss \in Nat \X Nat : ss[1] < ss[2]}
           T == Nat \ S
<1> SUFFICES ASSUME T # {} PROVE FALSE
  OBVIOUS
<1>1. IsWellFoundedOn(R, Nat) /\ T \subseteq Nat
  BY LessWellFounded
<1> HIDE DEF R, T
<1>2. PICK x \in T : \A y \in T : <<y, x>> \notin R
  BY <1>1, WFMin
<1> USE DEF R, T
<1>3. x \in Nat /\ x # 0
  OBVIOUS
<1>4. x - 1 \in Nat /\ x - 1 < x /\ (x - 1) + 1 = x
  BY <1>3
<1>5. x - 1 \in S
  BY <1>2, <1>3, <1>4
<1> QED BY <1>4, <1>5

\* g is what init and succ define.
Recursion(g, init, succ) == g[0] = init /\ \A n \in Nat : g[n + 1] = succ[<<n, g[n]>>]

\* The first n + 1 values of what init and succ define.
FirstValues(V, init, succ, n) ==
  {h \in [0..n -> V] : h[0] = init /\ \A i \in 0..n - 1 : h[i + 1] = succ[<<i, h[i]>>]}

SameUpTo(n, g, h) == \A i \in 0..n : g[i] = h[i]

LEMMA PrefixesAgree ==
  ASSUME NEW V, NEW init \in V, NEW succ \in [Nat \X V -> V]
  PROVE  \A n, m \in Nat :
            n <= m => \A g \in FirstValues(V, init, succ, n), h \in FirstValues(V, init, succ, m) :
                         SameUpTo(n, g, h)
<1> SUFFICES ASSUME NEW n \in Nat, NEW m \in Nat, n <= m,
                    NEW g \in FirstValues(V, init, succ, n), NEW h \in FirstValues(V, init, succ, m)
             PROVE  \A i \in 0..n : g[i] = h[i]
  BY DEF SameUpTo
<1> DEFINE S == {i \in Nat : i <= n => g[i] = h[i]}
<1>1. 0 \in S
  BY DEF FirstValues
<1>2. ASSUME NEW i \in S PROVE i + 1 \in S
  <2>1. CASE i + 1 <= n
    <3>1. i \in 0..n - 1 /\ i \in 0..m - 1 /\ i \in Nat
      BY <2>1
    <3>2. g[i] = h[i]
      BY <3>1
    <3>3. g[i + 1] = succ[<<i, g[i]>>] /\ h[i + 1] = succ[<<i, h[i]>>]
      BY <3>1 DEF FirstValues
    <3> QED BY <3>1, <3>2, <3>3
  <2>2. CASE ~(i + 1 <= n)
    BY <2>2
  <2> QED BY <2>1, <2>2
<1>3. S = Nat
  <2> HIDE DEF S
  <2>1. S \subseteq Nat
    BY DEF S
  <2> QED BY <1>1, <1>2, <2>1, Induction
<1> QED BY <1>3

LEMMA PrefixExists ==
  ASSUME NEW V, NEW init \in V, NEW succ \in [Nat \X V -> V]
  PROVE  \A n \in Nat : FirstValues(V, init, succ, n) # {}
<1> DEFINE S == {n \in Nat : FirstValues(V, init, succ, n) # {}}
<1>1. 0 \in S
  <2>1. [i \in 0..0 |-> init] \in FirstValues(V, init, succ, 0)
    BY DEF FirstValues
  <2> QED BY <2>1
<1>2. ASSUME NEW n \in S PROVE n + 1 \in S
  <2>1. PICK h : h \in FirstValues(V, init, succ, n)
    OBVIOUS
  <2> DEFINE g == [i \in 0..n + 1 |-> IF i = n + 1 THEN succ[<<n, h[n]>>] ELSE h[i]]
  <2>2. n \in Nat /\ h \in [0..n -> V] /\ h[n] \in V /\ h[0] = init
    BY <2>1 DEF FirstValues
  <2>3. succ[<<n, h[n]>>] \in V
    BY <2>2
  <2>4. g \in [0..n + 1 -> V]
    <3>1. \A i \in 0..n + 1 : i # n + 1 => i \in 0..n
      BY <2>2
    <3> QED BY <2>2, <2>3, <3>1
  <2>5. g[0] = init
    BY <2>2
  <2>6. ASSUME NEW i \in 0..(n + 1) - 1 PROVE g[i + 1] = succ[<<i, g[i]>>]
    <3>1. i \in 0..n /\ i # n + 1 /\ i + 1 \in 0..n + 1 /\ i \in 0..n + 1
      BY <2>2
    <3>2. g[i] = h[i]
      BY <3>1
    <3>3. CASE i = n
      BY <3>1, <3>2, <3>3
    <3>4. CASE i # n
      <4>1. i \in 0..n - 1 /\ i + 1 # n + 1
        BY <3>1, <3>4, <2>2
      <4>2. h[i + 1] = succ[<<i, h[i]>>]
        BY <4>1, <2>1 DEF FirstValues
      <4> QED BY <3>1, <3>2, <4>1, <4>2
    <3> QED BY <3>3, <3>4
  <2>7. g \in FirstValues(V, init, succ, n + 1)
    <3> HIDE DEF g
    <3> QED BY <2>4, <2>5, <2>6 DEF FirstValues
  <2> QED BY <2>2, <2>7
<1>3. S = Nat
  <2> HIDE DEF S
  <2>1. S \subseteq Nat
    BY DEF S
  <2> QED BY <1>1, <1>2, <2>1, Induction
<1> QED BY <1>3

\* What init and succ define exists.
LEMMA RecursionExists ==
  \A V : \A init \in V, succ \in [Nat \X V -> V] :
    \E g \in [Nat -> V] : Recursion(g, init, succ)
<1> SUFFICES ASSUME NEW V, NEW init \in V, NEW succ \in [Nat \X V -> V]
             PROVE  \E g \in [Nat -> V] : Recursion(g, init, succ)
  OBVIOUS
<1> DEFINE prefix == [n \in Nat |-> CHOOSE h : h \in FirstValues(V, init, succ, n)]
           g == [n \in Nat |-> prefix[n][n]]
<1>1. \A n \in Nat : prefix[n] \in FirstValues(V, init, succ, n)
  BY PrefixExists
<1>2. \A n \in Nat : prefix[n] \in [0..n -> V] /\ prefix[n][0] = init
  BY <1>1 DEF FirstValues
<1> HIDE DEF prefix
<1>3. \A n \in Nat : prefix[n][n] \in V
  BY <1>2
<1>4. g \in [Nat -> V] /\ g[0] = init
  BY <1>2, <1>3
<1>5. ASSUME NEW n \in Nat PROVE g[n + 1] = succ[<<n, g[n]>>]
  <2>1. n \in 0..(n + 1) - 1 /\ n \in 0..n /\ n + 1 \in Nat /\ n <= n + 1
    OBVIOUS
  <2>2. prefix[n + 1][n + 1] = succ[<<n, prefix[n + 1][n]>>]
    BY <1>1, <2>1 DEF FirstValues
  <2>3. prefix[n] \in FirstValues(V, init, succ, n) /\ prefix[n + 1] \in FirstValues(V, init, succ, n + 1)
    BY <1>1, <2>1
  <2>4. \A i \in 0..n : prefix[n][i] = prefix[n + 1][i]
    <3> DEFINE p == prefix[n]  q == prefix[n + 1]
    <3>1. p \in FirstValues(V, init, succ, n) /\ q \in FirstValues(V, init, succ, n + 1)
      BY <2>3
    <3> HIDE DEF p, q
    <3>2. \A i \in 0..n : p[i] = q[i]
      <4>1. \A a, b \in Nat :
              a <= b => \A c \in FirstValues(V, init, succ, a), d \in FirstValues(V, init, succ, b) :
                           SameUpTo(a, c, d)
        BY PrefixesAgree
      <4> QED BY <3>1, <2>1, <4>1 DEF SameUpTo
    <3> QED BY <3>2 DEF p, q
  <2> QED BY <2>1, <2>2, <2>4
<1> QED BY <1>4, <1>5 DEF Recursion

LEMMA Pow2Def == Pow2 = [n \in Nat |-> IF n = 0 THEN 1 ELSE 2 * Pow2[n - 1]]
<1> DEFINE V == Nat \ {0}
           succ == [nv \in Nat \X V |-> 2 * nv[2]]
<1>1. succ \in [Nat \X V -> V] /\ 1 \in V
  OBVIOUS
<1> HIDE DEF V, succ
<1>2. PICK g \in [Nat -> V] : g[0] = 1 /\ \A n \in Nat : g[n + 1] = succ[<<n, g[n]>>]
  <2>1. \E g \in [Nat -> V] : Recursion(g, 1, succ)
    BY <1>1, RecursionExists
  <2> QED BY <2>1 DEF Recursion
<1> USE DEF V, succ
<1>3. ASSUME NEW n \in Nat, n # 0 PROVE g[n] = 2 * g[n - 1]
  <2>1. n - 1 \in Nat /\ (n - 1) + 1 = n
    BY <1>3
  <2> QED BY <2>1, <1>2
<1>4. g = [n \in Nat |-> IF n = 0 THEN 1 ELSE 2 * g[n - 1]]
  BY <1>2, <1>3
<1>5. Pow2 = CHOOSE h : h = [n \in Nat |-> IF n = 0 THEN 1 ELSE 2 * h[n - 1]]
  BY DEF Pow2
<1> QED BY <1>4, <1>5

LEMMA Pow2Values == Pow2[0] = 1 /\ \A n \in Nat : Pow2[n + 1] = 2 * Pow2[n]
<1>1. ASSUME NEW n \in Nat PROVE Pow2[n + 1] = 2 * Pow2[n]
  <2>1. n + 1 \in Nat /\ n + 1 # 0 /\ (n + 1) - 1 = n
    OBVIOUS
  <2> QED BY <2>1, Pow2Def
<1> QED BY <1>1, Pow2Def

LEMMA Pow2Type == \A n \in Nat : Pow2[n] \in Nat \ {0}
<1> DEFINE S == {n \in Nat : Pow2[n] \in Nat \ {0}}
<1>1. S = Nat
  <2>1. 0 \in S /\ \A n \in S : n + 1 \in S
    BY Pow2Values
  <2>2. S \subseteq Nat
    OBVIOUS
  <2> HIDE DEF S
  <2> QED BY <2>1, <2>2, Induction
<1> QED BY <1>1

LEMMA Pow2Sum == \A a, b \in Nat : Pow2[a + b] = Pow2[a] * Pow2[b]
<1> SUFFICES ASSUME NEW a \in Nat PROVE \A b \in Nat : Pow2[a + b] = Pow2[a] * Pow2[b]
  OBVIOUS
<1> DEFINE S == {b \in Nat : Pow2[a + b] = Pow2[a] * Pow2[b]}
<1>1. 0 \in S
  BY Pow2Values, Pow2Type
<1>2. ASSUME NEW b \in S PROVE b + 1 \in S
  <2>1. a + (b + 1) = (a + b) + 1 /\ a + b \in Nat /\ b \in Nat
    OBVIOUS
  <2>2. Pow2[a + (b + 1)] = 2 * Pow2[a + b] /\ Pow2[b + 1] = 2 * Pow2[b]
    BY <2>1, Pow2Values
  <2>3. Pow2[a] \in Nat /\ Pow2[b] \in Nat
    BY <2>1, Pow2Type
  <2>4. 2 * (Pow2[a] * Pow2[b]) = Pow2[a] * (2 * Pow2[b])
    BY <2>3
  <2> QED BY <2>1, <2>2, <2>4
<1>3. S = Nat
  <2>1. S \subseteq Nat
    OBVIOUS
  <2> HIDE DEF S
  <2> QED BY <1>1, <1>2, <2>1, Induction
<1> QED BY <1>3

LEMMA Pow2Less == \A a, b \in Nat : a < b => 2 * Pow2[a] <= Pow2[b] /\ Pow2[a] < Pow2[b]
<1> SUFFICES ASSUME NEW a \in Nat, NEW b \in Nat, a < b
             PROVE  2 * Pow2[a] <= Pow2[b] /\ Pow2[a] < Pow2[b]
  OBVIOUS
<1>1. (b - a) - 1 \in Nat /\ a + 1 \in Nat /\ (a + 1) + ((b - a) - 1) = b
  OBVIOUS
<1>2. Pow2[b] = (2 * Pow2[a]) * Pow2[(b - a) - 1]
  BY <1>1, Pow2Sum, Pow2Values
<1> DEFINE x == Pow2[a]  y == Pow2[(b - a) - 1]
<1>3. x \in Nat /\ x >= 1 /\ y \in Nat /\ y >= 1
  BY <1>1, Pow2Type
<1>5. Pow2[b] = (2 * x) * y
  BY <1>2
<1> HIDE DEF x, y
<1>4. (2 * x) * y >= 2 * x /\ 2 * x > x
  <2>1. (2 * x) * (y - 1) >= 0 /\ (2 * x) * y = (2 * x) * (y - 1) + 2 * x
    BY <1>3
  <2> QED BY <2>1, <1>3
<1>6. 2 * x <= Pow2[b] /\ x < Pow2[b]
  BY <1>3, <1>4, <1>5
<1> QED BY <1>6 DEF x

LEMMA Pow2Order == \A a, b \in Nat : (a <= b => Pow2[a] <= Pow2[b]) /\ (Pow2[a] <= Pow2[b] => a <= b)
<1> SUFFICES ASSUME NEW a \in Nat, NEW b \in Nat
             PROVE  (a <= b => Pow2[a] <= Pow2[b]) /\ (Pow2[a] <= Pow2[b] => a <= b)
  OBVIOUS
<1>1. Pow2[a] \in Nat /\ Pow2[b] \in Nat
  BY Pow2Type
<1> QED BY <1>1, Pow2Less

\* Every number lies between two powers of 2.
LEMMA BetweenPowers ==
  \A b \in Nat : \A n \in Nat \ {0} : n < Pow2[b] => \E k \in 0..b - 1 : Pow2[k] <= n /\ n < Pow2[k + 1]
<1> DEFINE S == {b \in Nat : \A n \in Nat \ {0} :
                    n < Pow2[b] => \E k \in 0..b - 1 : Pow2[k] <= n /\ n < Pow2[k + 1]}
<1>1. 0 \in S
  BY Pow2Values
<1>2. ASSUME NEW b \in S PROVE b + 1 \in S
  <2>1. b \in Nat /\ b + 1 \in Nat
    OBVIOUS
  <2>2. ASSUME NEW n \in Nat \ {0}, n < Pow2[b + 1]
        PROVE  \E k \in 0..(b + 1) - 1 : Pow2[k] <= n /\ n < Pow2[k + 1]
    <3>1. CASE n < Pow2[b]
      <4>1. PICK k \in 0..b - 1 : Pow2[k] <= n /\ n < Pow2[k + 1]
        BY <3>1
      <4>2. k \in 0..(b + 1) - 1
        BY <2>1
      <4> QED BY <4>1, <4>2
    <3>2. CASE ~(n < Pow2[b])
      <4>1. b \in 0..(b + 1) - 1 /\ Pow2[b] <= n
        BY <2>1, <3>2, Pow2Type
      <4> QED BY <4>1, <2>2
    <3> QED BY <3>1, <3>2
  <2> HIDE DEF S
  <2>3. b + 1 \in {c \in Nat : \A n \in Nat \ {0} :
                    n < Pow2[c] => \E k \in 0..c - 1 : Pow2[k] <= n /\ n < Pow2[k + 1]}
    BY <2>1, <2>2
  <2> QED BY <2>3 DEF S
<1>3. S = Nat
  <2>1. S \subseteq Nat
    OBVIOUS
  <2> HIDE DEF S
  <2> QED BY <1>1, <1>2, <2>1, Induction
<1> QED BY <1>3

Triples == BitTables \X Nat \X Nat

LEMMA Bits ==
  ASSUME NEW a \in Nat
  PROVE  a \div 2 \in Nat /\ a % 2 \in {0, 1} /\ a = 2 * (a \div 2) + (a % 2)
<1>1. ASSUME NEW p \in Nat \ {0}
      PROVE  a \div p \in Nat /\ a % p \in 0..p - 1 /\ a = p * (a \div p) + (a % p)
  <2>1. a \div p \in Nat
    OBVIOUS
  <2>2. a = p * (a \div p) + (a % p) /\ a % p \in 0..p - 1
    OBVIOUS
  <2> QED BY <2>1, <2>2
<1>2. 0..1 = {0, 1}
  OBVIOUS
<1>3. 2 \in Nat \ {0} /\ 2 - 1 = 1
  OBVIOUS
<1>4. a \div 2 \in Nat /\ a % 2 \in 0..2 - 1 /\ a = 2 * (a \div 2) + (a % 2)
  BY <1>1, <1>3
<1> QED BY <1>2, <1>3, <1>4

LEMMA CombinedDef ==
  Combined = [n \in Nat |->
      [w \in Triples |->
          IF n = 0 THEN 0
          ELSE 2 * Combined[n - 1][<<w[1], w[2] \div 2, w[3] \div 2>>]
                 + w[1][<<w[2] % 2, w[3] % 2>>]]]
<1> DEFINE V == [Triples -> Nat]
           init == [w \in Triples |-> 0]
           More(f) == [w \in Triples |-> 2 * f[<<w[1], w[2] \div 2, w[3] \div 2>>]
                                           + w[1][<<w[2] % 2, w[3] % 2>>]]
           succ == [nf \in Nat \X V |-> More(nf[2])]
<1>1. init \in V
  OBVIOUS
<1>2. ASSUME NEW f \in V PROVE More(f) \in V
  <2>1. ASSUME NEW w \in Triples
        PROVE  2 * f[<<w[1], w[2] \div 2, w[3] \div 2>>] + w[1][<<w[2] % 2, w[3] % 2>>] \in Nat
    <3>1. w[1] \in BitTables /\ w[2] \in Nat /\ w[3] \in Nat
      BY DEF Triples
    <3>2. w[2] \div 2 \in Nat /\ w[3] \div 2 \in Nat /\ w[2] % 2 \in {0, 1} /\ w[3] % 2 \in {0, 1}
      BY <3>1, Bits
    <3>3. f[<<w[1], w[2] \div 2, w[3] \div 2>>] \in Nat
      <4>1. <<w[1], w[2] \div 2, w[3] \div 2>> \in Triples
        BY <3>1, <3>2 DEF Triples
      <4> QED BY <4>1
    <3>4. w[1][<<w[2] % 2, w[3] % 2>>] \in {0, 1}
      <4> DEFINE t == w[1]  x == w[2] % 2  y == w[3] % 2
      <4>1. t \in [{0, 1} \X {0, 1} -> {0, 1}] /\ x \in {0, 1} /\ y \in {0, 1}
        BY <3>1, <3>2 DEF BitTables
      <4> HIDE DEF t, x, y
      <4>2. <<x, y>> \in {0, 1} \X {0, 1}
        BY <4>1
      <4>3. t[<<x, y>>] \in {0, 1}
        BY <4>1, <4>2
      <4> QED BY <4>3 DEF t, x, y
    <3> QED BY <3>3, <3>4
  <2> QED BY <2>1
<1>3. succ \in [Nat \X V -> V] /\ \A n \in Nat, f \in V : succ[<<n, f>>] = More(f)
  <2> HIDE DEF V, More
  <2> QED BY <1>2
<1>4. PICK g \in [Nat -> V] : g[0] = init /\ \A n \in Nat : g[n + 1] = succ[<<n, g[n]>>]
  <2> HIDE DEF V, init, succ
  <2>1. \E g \in [Nat -> V] : Recursion(g, init, succ)
    BY <1>1, <1>3, RecursionExists
  <2> QED BY <2>1 DEF Recursion
<1>5. \A n \in Nat : n # 0 => g[n] = More(g[n - 1])
  <2> HIDE DEF V, init, succ, More
  <2>1. ASSUME NEW n \in Nat, n # 0 PROVE g[n] = More(g[n - 1])
    <3>1. n - 1 \in Nat /\ (n - 1) + 1 = n
      BY <2>1
    <3>2. g[n - 1] \in V
      BY <3>1
    <3> QED BY <3>1, <3>2, <1>3, <1>4
  <2> QED BY <2>1
<1> DEFINE F(h) == [n \in Nat |->
      [w \in Triples |->
          IF n = 0 THEN 0
          ELSE 2 * h[n - 1][<<w[1], w[2] \div 2, w[3] \div 2>>]
                 + w[1][<<w[2] % 2, w[3] % 2>>]]]
<1>6. g = F(g)
  <2>1. ASSUME NEW n \in Nat PROVE g[n] = F(g)[n]
    <3>1. CASE n = 0
      BY <3>1, <1>4
    <3>2. CASE n # 0
      <4>1. g[n] = More(g[n - 1])
        BY <3>2, <1>5
      <4>2. F(g)[n] = More(g[n - 1])
        BY <3>2
      <4> QED BY <4>1, <4>2
    <3> QED BY <3>1, <3>2
  <2>2. g \in [Nat -> V] /\ F(g) = [n \in Nat |-> F(g)[n]]
    OBVIOUS
  <2> HIDE DEF F, V
  <2> QED BY <2>1, <2>2
<1>7. Combined = CHOOSE h : h = F(h)
  BY DEF Combined, Triples
<1>8. Combined = F(Combined)
  <2> HIDE DEF F
  <2> QED BY <1>6, <1>7
<1> QED BY <1>8

LEMMA CombinedValues ==
  ASSUME NEW t \in BitTables, NEW a \in Nat, NEW b \in Nat
  PROVE  /\ Combined[0][<<t, a, b>>] = 0
         /\ \A n \in Nat : Combined[n + 1][<<t, a, b>>] =
               2 * Combined[n][<<t, a \div 2, b \div 2>>] + t[<<a % 2, b % 2>>]
<1>1. <<t, a, b>> \in Triples
  BY DEF Triples
<1>2. Combined[0][<<t, a, b>>] = 0
  BY <1>1, CombinedDef
<1>3. ASSUME NEW n \in Nat
      PROVE  Combined[n + 1][<<t, a, b>>] =
               2 * Combined[n][<<t, a \div 2, b \div 2>>] + t[<<a % 2, b % 2>>]
  <2>1. n + 1 \in Nat /\ n + 1 # 0 /\ (n + 1) - 1 = n
    OBVIOUS
  <2>2. Combined[n + 1] = [w \in Triples |->
          IF n + 1 = 0 THEN 0
          ELSE 2 * Combined[(n + 1) - 1][<<w[1], w[2] \div 2, w[3] \div 2>>]
                 + w[1][<<w[2] % 2, w[3] % 2>>]]
    BY <2>1, CombinedDef, Zenon
  <2> QED BY <1>1, <2>1, <2>2
<1> QED BY <1>2, <1>3

LEMMA TablesRight ==
  /\ AndBits \in BitTables /\ OrBits \in BitTables /\ XorBits \in BitTables
  /\ \A x, y \in {0, 1} :
        /\ AndBits[<<x, y>>] = x * y
        /\ OrBits[<<x, y>>] = x + y - x * y
        /\ XorBits[<<x, y>>] = x + y - 2 * (x * y)
        /\ AndBits[<<x, 1 - y>>] = x - x * y
  BY DEF AndBits, OrBits, XorBits, BitTables

And(n, a, b) == Combined[n][<<AndBits, a, b>>]
Or(n, a, b)  == Combined[n][<<OrBits, a, b>>]
Xor(n, a, b) == Combined[n][<<XorBits, a, b>>]

\* One more bit of each operation.
MoreBits(n, a, b) ==
  /\ And(0, a, b) = 0 /\ Or(0, a, b) = 0 /\ Xor(0, a, b) = 0
  /\ And(n + 1, a, b) = 2 * And(n, a \div 2, b \div 2) + (a % 2) * (b % 2)
  /\ Or(n + 1, a, b) = 2 * Or(n, a \div 2, b \div 2)
                         + ((a % 2) + (b % 2) - (a % 2) * (b % 2))
  /\ Xor(n + 1, a, b) = 2 * Xor(n, a \div 2, b \div 2)
                          + ((a % 2) + (b % 2) - 2 * ((a % 2) * (b % 2)))

LEMMA OneMoreBit == \A n, a, b \in Nat : MoreBits(n, a, b)
<1> SUFFICES ASSUME NEW n \in Nat, NEW a \in Nat, NEW b \in Nat PROVE MoreBits(n, a, b)
  OBVIOUS
<1> DEFINE x == a % 2
           y == b % 2
<1>1. x \in {0, 1} /\ y \in {0, 1}
  BY Bits
<1> HIDE DEF x, y
<1>2. /\ AndBits[<<x, y>>] = x * y
      /\ OrBits[<<x, y>>] = x + y - x * y
      /\ XorBits[<<x, y>>] = x + y - 2 * (x * y)
  BY <1>1, TablesRight
<1>3. \A t \in BitTables :
         /\ Combined[0][<<t, a, b>>] = 0
         /\ Combined[n + 1][<<t, a, b>>] = 2 * Combined[n][<<t, a \div 2, b \div 2>>] + t[<<x, y>>]
  BY CombinedValues DEF x, y
<1>4. AndBits \in BitTables /\ OrBits \in BitTables /\ XorBits \in BitTables
  BY TablesRight
<1>5. And(0, a, b) = 0 /\ Or(0, a, b) = 0 /\ Xor(0, a, b) = 0
  BY <1>3, <1>4 DEF And, Or, Xor
<1>6. /\ And(n + 1, a, b) = 2 * And(n, a \div 2, b \div 2) + AndBits[<<x, y>>]
      /\ Or(n + 1, a, b) = 2 * Or(n, a \div 2, b \div 2) + OrBits[<<x, y>>]
      /\ Xor(n + 1, a, b) = 2 * Xor(n, a \div 2, b \div 2) + XorBits[<<x, y>>]
  <2> DEFINE More(t) == Combined[n + 1][<<t, a, b>>]
                          = 2 * Combined[n][<<t, a \div 2, b \div 2>>] + t[<<x, y>>]
  <2>1. \A t \in BitTables : More(t)
    BY <1>3
  <2> HIDE DEF More
  <2>2. More(AndBits) /\ More(OrBits) /\ More(XorBits)
    BY <2>1, <1>4
  <2> QED BY <2>2 DEF More, And, Or, Xor
<1> QED BY <1>2, <1>5, <1>6 DEF x, y, MoreBits

\* A number of n + 1 bits without its lowest one.
LEMMA LessBits ==
  ASSUME NEW n \in Nat, NEW a \in 0..Pow2[n + 1] - 1
  PROVE  /\ a \in Nat /\ a \div 2 \in 0..Pow2[n] - 1
         /\ Pow2[n + 1] = 2 * Pow2[n] /\ Pow2[n] \in Nat \ {0}
         /\ (Pow2[n + 1] - 1 - a) \div 2 = Pow2[n] - 1 - a \div 2
         /\ (Pow2[n + 1] - 1 - a) % 2 = 1 - (a % 2)
         /\ Pow2[n + 1] - 1 - a \in 0..Pow2[n + 1] - 1
         /\ Pow2[n + 1] - 1 - a \in Nat
<1> DEFINE p == Pow2[n]
<1>1. Pow2[n + 1] = 2 * p /\ p \in Nat \ {0}
  BY Pow2Values, Pow2Type
<1> HIDE DEF p
<1>2. a \in 0..2 * p - 1
  BY <1>1
<1>3. /\ a \in Nat /\ a \div 2 \in 0..p - 1
      /\ (2 * p - 1 - a) \div 2 = p - 1 - a \div 2
      /\ (2 * p - 1 - a) % 2 = 1 - (a % 2)
      /\ 2 * p - 1 - a \in 0..2 * p - 1 /\ 2 * p - 1 - a \in Nat
  BY <1>1, <1>2
<1> QED BY <1>1, <1>3 DEF p

BitLaws(n) ==
  \A a, b \in 0..Pow2[n] - 1 :
    /\ And(n, a, b) \in Nat /\ And(n, a, b) <= a /\ And(n, a, b) <= b
    /\ Or(n, a, b) = a + b - And(n, a, b)
    /\ Xor(n, a, b) = a + b - 2 * And(n, a, b)
    /\ Or(n, a, b) < Pow2[n]
    /\ And(n, a, Pow2[n] - 1 - b) = a - And(n, a, b)

LEMMA BitLawsStep == \A n \in Nat : BitLaws(n) => BitLaws(n + 1)
<1> SUFFICES ASSUME NEW n \in Nat, BitLaws(n),
                    NEW a \in 0..Pow2[n + 1] - 1, NEW b \in 0..Pow2[n + 1] - 1
             PROVE  /\ And(n + 1, a, b) \in Nat /\ And(n + 1, a, b) <= a /\ And(n + 1, a, b) <= b
                    /\ Or(n + 1, a, b) = a + b - And(n + 1, a, b)
                    /\ Xor(n + 1, a, b) = a + b - 2 * And(n + 1, a, b)
                    /\ Or(n + 1, a, b) < Pow2[n + 1]
                    /\ And(n + 1, a, Pow2[n + 1] - 1 - b) = a - And(n + 1, a, b)
  BY DEF BitLaws
<1> DEFINE p == Pow2[n]
           c == Pow2[n + 1] - 1 - b
           u == a \div 2
           v == b \div 2
           x == a % 2
           y == b % 2
<1>1. a \in Nat /\ u \in 0..p - 1 /\ Pow2[n + 1] = 2 * p /\ p \in Nat \ {0}
  BY LessBits
<1>2. b \in Nat /\ v \in 0..p - 1 /\ c \in Nat /\ c \div 2 = p - 1 - v /\ c % 2 = 1 - y
  <2>1. /\ b \in Nat /\ b \div 2 \in 0..Pow2[n] - 1
        /\ (Pow2[n + 1] - 1 - b) \div 2 = Pow2[n] - 1 - b \div 2
        /\ (Pow2[n + 1] - 1 - b) % 2 = 1 - (b % 2)
        /\ Pow2[n + 1] - 1 - b \in Nat
    BY LessBits
  <2> QED BY <2>1
<1>3. a = 2 * u + x /\ b = 2 * v + y /\ x \in {0, 1} /\ y \in {0, 1}
  BY <1>1, <1>2, Bits
<1>4. /\ And(n + 1, a, b) = 2 * And(n, u, v) + x * y
      /\ Or(n + 1, a, b) = 2 * Or(n, u, v) + (x + y - x * y)
      /\ Xor(n + 1, a, b) = 2 * Xor(n, u, v) + (x + y - 2 * (x * y))
  <2>1. MoreBits(n, a, b)
    BY <1>1, <1>2, OneMoreBit
  <2> QED BY <2>1 DEF MoreBits
<1>5. And(n + 1, a, c) = 2 * And(n, u, p - 1 - v) + x * (1 - y)
  <2>1. MoreBits(n, a, c)
    <3> HIDE DEF c
    <3> QED BY <1>1, <1>2, OneMoreBit
  <2>2. And(n + 1, a, c) = 2 * And(n, u, c \div 2) + x * (c % 2)
    BY <2>1 DEF MoreBits
  <2> QED BY <2>2, <1>2
<1>6. /\ And(n, u, v) \in Nat /\ And(n, u, v) <= u /\ And(n, u, v) <= v
      /\ Or(n, u, v) = u + v - And(n, u, v)
      /\ Xor(n, u, v) = u + v - 2 * And(n, u, v)
      /\ Or(n, u, v) < p
      /\ And(n, u, p - 1 - v) = u - And(n, u, v)
  BY <1>1, <1>2 DEF BitLaws
<1> DEFINE w == And(n, u, v)
<1>7. w \in Nat
  BY <1>6
<1> HIDE DEF p, c, u, v, x, y, w
<1>8. x * y \in {0, 1} /\ x * (1 - y) = x - x * y /\ x * y <= x /\ x * y <= y
      /\ x + y - x * y \in {0, 1}
  BY <1>3
<1>9. u \in Nat /\ v \in Nat
  BY <1>1, <1>2
<1>10. And(n + 1, a, b) \in Nat /\ And(n + 1, a, b) <= a /\ And(n + 1, a, b) <= b
  BY <1>3, <1>4, <1>6, <1>8, <1>9
<1>11. Or(n + 1, a, b) = a + b - And(n + 1, a, b) /\ Or(n + 1, a, b) < 2 * p
  BY <1>1, <1>3, <1>4, <1>6, <1>8, <1>9
<1>12. Xor(n + 1, a, b) = a + b - 2 * And(n + 1, a, b)
  BY <1>3, <1>4, <1>6, <1>8, <1>9
<1>13. And(n + 1, a, c) = a - And(n + 1, a, b)
  BY <1>3, <1>4, <1>5, <1>6, <1>8, <1>9
<1> QED BY <1>1, <1>10, <1>11, <1>12, <1>13 DEF c

\* The bitwise operations on words of n bits, by induction on n.
LEMMA BitLawsHold == \A n \in Nat : BitLaws(n)
<1> DEFINE S == {n \in Nat : BitLaws(n)}
<1>1. 0 \in S
  <2>1. \A a \in 0..Pow2[0] - 1 : a = 0
    BY Pow2Values
  <2>2. And(0, 0, 0) = 0 /\ Or(0, 0, 0) = 0 /\ Xor(0, 0, 0) = 0
    <3>1. MoreBits(0, 0, 0)
      BY OneMoreBit
    <3> QED BY <3>1 DEF MoreBits
  <2> QED BY <2>1, <2>2, Pow2Values DEF BitLaws
<1>2. \A n \in S : n + 1 \in S
  BY BitLawsStep
<1>3. S = Nat
  <2>1. S \subseteq Nat
    OBVIOUS
  <2> HIDE DEF S
  <2> QED BY <1>1, <1>2, <2>1, Induction
<1> QED BY <1>3

\* Halving and dividing.
LEMMA HalfDiv ==
  ASSUME NEW a \in Nat, NEW q \in Nat \ {0}
  PROVE  (a \div 2) \div q = a \div (2 * q)
<1> DEFINE h == a \div 2
           d == a \div (2 * q)
           e == h \div q
<1>1. h \in Nat /\ a % 2 \in {0, 1} /\ a = 2 * h + (a % 2)
  BY Bits
<1>2. 2 * q \in Nat \ {0}
  OBVIOUS
<1>3. \A x \in Nat, p \in Nat \ {0} :
         x \div p \in Nat /\ x = p * (x \div p) + (x % p) /\ x % p \in 0..p - 1
  <2>1. ASSUME NEW x \in Nat, NEW p \in Nat \ {0}
        PROVE  x \div p \in Nat
    OBVIOUS
  <2>2. ASSUME NEW x \in Nat, NEW p \in Nat \ {0}
        PROVE  x = p * (x \div p) + (x % p) /\ x % p \in 0..p - 1
    OBVIOUS
  <2> QED BY <2>1, <2>2
<1>4. PICK r \in 0..2 * q - 1 : d \in Nat /\ a = (2 * q) * d + r
  BY <1>2, <1>3
<1>5. PICK s \in 0..q - 1 : e \in Nat /\ h = q * e + s
  BY <1>1, <1>3
<1> DEFINE bit == a % 2
<1> HIDE DEF h, d, e, bit
<1>6. bit \in {0, 1} /\ a = 2 * h + bit
  BY <1>1 DEF bit
<1> DEFINE y == 2 * s + bit
<1>7. (2 * q) * d + r = (2 * q) * e + y /\ y \in 0..2 * q - 1
  <2>1. (2 * q) * e = 2 * (q * e) /\ q * e \in Nat
    BY <1>5
  <2>2. y \in 0..2 * q - 1
    BY <1>5, <1>6
  <2>3. a = 2 * (q * e + s) + bit
    BY <1>5, <1>6
  <2> QED BY <2>1, <2>2, <2>3, <1>4, <1>5, <1>6
<1> HIDE DEF y
<1>8. d = e
  <2> DEFINE t == 2 * q
  <2>1. t \in Nat \ {0} /\ t * d + r = t * e + y /\ r \in 0..t - 1 /\ y \in 0..t - 1
    BY <1>4, <1>7
  <2> HIDE DEF t
  <2>2. CASE d > e
    <3>1. (d - e) * t >= t /\ (d - e) * t = t * d - t * e
      BY <1>4, <1>5, <2>1, <2>2
    <3>2. t * d \in Nat /\ t * e \in Nat
      BY <1>4, <1>5, <2>1
    <3> QED BY <3>1, <3>2, <2>1
  <2>3. CASE e > d
    <3>1. (e - d) * t >= t /\ (e - d) * t = t * e - t * d
      BY <1>4, <1>5, <2>1, <2>3
    <3>2. t * d \in Nat /\ t * e \in Nat
      BY <1>4, <1>5, <2>1
    <3> QED BY <3>1, <3>2, <2>1
  <2> QED BY <1>4, <1>5, <2>2, <2>3
<1> QED BY <1>8 DEF h, d, e

LEMMA Pow2Parity ==
  ASSUME NEW j \in Nat
  PROVE  /\ Pow2[j + 1] \div 2 = Pow2[j] /\ Pow2[j + 1] % 2 = 0
         /\ 1 \div 2 = 0 /\ 1 % 2 = 1
<1>1. Pow2[j + 1] = 2 * Pow2[j] /\ Pow2[j] \in Nat
  BY Pow2Values, Pow2Type
<1> DEFINE p == Pow2[j]
<1> HIDE DEF p
<1>2. ASSUME p \in Nat PROVE (2 * p) \div 2 = p /\ (2 * p) % 2 = 0
  BY <1>2
<1>3. 1 \div 2 = 0 /\ 1 % 2 = 1
  OBVIOUS
<1> QED BY <1>1, <1>2, <1>3 DEF p

BitOf(a, i) == ((a \div Pow2[i]) % 2) * Pow2[i]
OneBitLaw(n) ==
  \A i \in 0..n - 1 : \A a \in 0..Pow2[n] - 1 : And(n, a, Pow2[i]) = BitOf(a, i)

LEMMA OneBitStep == \A n \in Nat : OneBitLaw(n) => OneBitLaw(n + 1)
<1> SUFFICES ASSUME NEW n \in Nat, OneBitLaw(n), NEW i \in 0..n, NEW a \in 0..Pow2[n + 1] - 1
             PROVE  And(n + 1, a, Pow2[i]) = BitOf(a, i)
  <2>1. \A n \in Nat : (n + 1) - 1 = n
    OBVIOUS
  <2> QED BY <2>1 DEF OneBitLaw
<1>1. a \in Nat /\ a \div 2 \in 0..Pow2[n] - 1 /\ Pow2[n] \in Nat \ {0}
  BY LessBits
<1>2. a % 2 \in {0, 1}
  BY <1>1, Bits
<1>3. CASE i = 0
  <2>1. Pow2[i] = 1 /\ 1 \div 2 = 0 /\ 1 % 2 = 1
    BY <1>3, Pow2Values, Pow2Parity
  <2>2. And(n + 1, a, Pow2[i]) = 2 * And(n, a \div 2, Pow2[i] \div 2) + (a % 2) * (Pow2[i] % 2)
    <3>1. Pow2[i] \in Nat
      BY <2>1
    <3> QED BY <1>1, <3>1, OneMoreBit DEF MoreBits
  <2>3. And(n, a \div 2, 0) = 0
    <3>1. BitLaws(n) /\ 0 \in 0..Pow2[n] - 1
      BY BitLawsHold, <1>1
    <3>2. And(n, a \div 2, 0) \in Nat /\ And(n, a \div 2, 0) <= 0
      BY <3>1, <1>1 DEF BitLaws
    <3> QED BY <3>2
  <2>4. a \div 1 = a
    BY <1>1
  <2>5. BitOf(a, i) = a % 2
    BY <1>2, <2>1, <2>4 DEF BitOf
  <2> QED BY <1>2, <2>1, <2>2, <2>3, <2>5
<1>4. CASE i # 0
  <2> DEFINE j == i - 1
             q == Pow2[j]
             bit == ((a \div 2) \div q) % 2
  <2>1. j \in 0..n - 1 /\ j \in Nat /\ i = j + 1
    BY <1>4
  <2>2. Pow2[i] = 2 * q /\ q \in Nat \ {0} /\ Pow2[i] \div 2 = q /\ Pow2[i] % 2 = 0
    BY <2>1, Pow2Values, Pow2Type, Pow2Parity
  <2>3. And(n + 1, a, Pow2[i]) = 2 * And(n, a \div 2, Pow2[i] \div 2) + (a % 2) * (Pow2[i] % 2)
    <3>1. Pow2[i] \in Nat
      BY <2>2
    <3> QED BY <1>1, <3>1, OneMoreBit DEF MoreBits
  <2>4. And(n, a \div 2, q) = bit * q
    BY <1>1, <2>1 DEF OneBitLaw, BitOf
  <2>5. (a \div 2) \div q = a \div (2 * q)
    BY <1>1, <2>2, HalfDiv
  <2>6. bit \in {0, 1}
    <3>1. (a \div 2) \div q \in Nat
      BY <1>1, <2>2
    <3> QED BY <3>1, Bits
  <2>7. BitOf(a, i) = bit * (2 * q)
    BY <2>2, <2>5 DEF BitOf
  <2> HIDE DEF q, bit
  <2>8. And(n + 1, a, Pow2[i]) = 2 * (bit * q)
    BY <2>2, <2>3, <2>4, <2>6, <1>2
  <2>9. 2 * (bit * q) = bit * (2 * q)
    BY <2>2, <2>6
  <2> QED BY <2>7, <2>8, <2>9
<1> QED BY <1>3, <1>4

\* Selecting one bit of a word.
LEMMA OneBitLawHolds == \A n \in Nat : OneBitLaw(n)
<1> DEFINE S == {n \in Nat : OneBitLaw(n)}
<1>1. 0 \in S
  BY DEF OneBitLaw
<1>2. \A n \in S : n + 1 \in S
  BY OneBitStep
<1>3. S = Nat
  <2>1. S \subseteq Nat
    OBVIOUS
  <2> HIDE DEF S
  <2> QED BY <1>1, <1>2, <2>1, Induction
<1> QED BY <1>3

-----------------------------------------------------------------------------
\* The atomics.

Word == 0..Size - 1

\* A word is two halves.
LEMMA SizeSquare == Size = HalfSize * HalfSize /\ WordBits \in Nat \ {0}
<1>1. HalfBits \in Nat \ {0} /\ WordBits = HalfBits + HalfBits /\ WordBits \in Nat \ {0}
  BY AtomicsAssumption DEF WordBits
<1> QED BY <1>1, Pow2Sum DEF Size, HalfSize

\* A word has an even number of values, and so has half a word.
LEMMA SizeEven ==
  /\ HalfSize \in Nat \ {0} /\ \E n \in Nat \ {0} : HalfSize = 2 * n
  /\ Size \in Nat \ {0} /\ Size \div 2 \in Nat \ {0} /\ Size = 2 * (Size \div 2)
  /\ \E n \in Nat \ {0} : Size \div 2 = n * HalfSize
<1>1. PICK n \in Nat \ {0} : HalfSize = 2 * n
  <2>1. HalfBits - 1 \in Nat /\ (HalfBits - 1) + 1 = HalfBits
    BY AtomicsAssumption
  <2>2. HalfSize = 2 * Pow2[HalfBits - 1] /\ Pow2[HalfBits - 1] \in Nat \ {0}
    BY <2>1, Pow2Values, Pow2Type DEF HalfSize
  <2> QED BY <2>2
<1>2. Size = 2 * (n * HalfSize)
  BY <1>1, SizeSquare
<1>3. n * HalfSize \in Nat \ {0}
  BY <1>1
<1>4. Size \div 2 = n * HalfSize /\ Size \in Nat \ {0}
  <2> DEFINE p == n * HalfSize
  <2>1. p \in Nat \ {0} /\ Size = 2 * p
    BY <1>2, <1>3
  <2> HIDE DEF p
  <2>2. Size \div 2 = p /\ Size \in Nat \ {0}
    BY <2>1
  <2> QED BY <2>2 DEF p
<1> QED BY <1>1, <1>2, <1>3, <1>4

\* What amoand, amoor and amoxor make of two words.
LEMMA BitwiseLaws ==
  \A a, b \in 0..Size - 1 :
     /\ AmoAnd(a, b) \in 0..Size - 1
     /\ AmoOr(a, b) \in 0..Size - 1
     /\ AmoXor(a, b) \in 0..Size - 1
     /\ AmoOr(a, b) = a + b - AmoAnd(a, b)
     /\ AmoXor(a, b) = a + b - 2 * AmoAnd(a, b)
     /\ AmoAnd(a, Complement(b)) = a - AmoAnd(a, b)
<1> SUFFICES ASSUME NEW a \in 0..Size - 1, NEW b \in 0..Size - 1
             PROVE  /\ AmoAnd(a, b) \in 0..Size - 1
                    /\ AmoOr(a, b) \in 0..Size - 1
                    /\ AmoXor(a, b) \in 0..Size - 1
                    /\ AmoOr(a, b) = a + b - AmoAnd(a, b)
                    /\ AmoXor(a, b) = a + b - 2 * AmoAnd(a, b)
                    /\ AmoAnd(a, Complement(b)) = a - AmoAnd(a, b)
  OBVIOUS
<1> DEFINE w == AmoAnd(a, b)
<1>1. Size \in Nat \ {0} /\ a \in Nat /\ b \in Nat
  BY SizeEven
<1>2. BitLaws(WordBits)
  BY SizeSquare, BitLawsHold
<1>3. /\ w \in Nat /\ w <= a /\ w <= b
      /\ AmoOr(a, b) = a + b - w
      /\ AmoXor(a, b) = a + b - 2 * w
      /\ AmoOr(a, b) < Size
      /\ AmoAnd(a, Complement(b)) = a - w
  BY <1>2 DEF BitLaws, Size, AmoAnd, AmoOr, AmoXor, And, Or, Xor, Complement
<1> HIDE DEF w
<1>4. w \in 0..Size - 1 /\ AmoOr(a, b) \in 0..Size - 1 /\ AmoXor(a, b) \in 0..Size - 1
  BY <1>1, <1>3
<1> QED BY <1>3, <1>4 DEF w

\* The masks that the bit operations compute, and what one selects.
LEMMA MaskLaws ==
  \A i \in Operands :
     /\ Mask(i) \in 1..Size - 1
     /\ \A a \in 0..Size - 1 :
           AmoAnd(a, Mask(i)) = ((a \div Mask(i)) % 2) * Mask(i)
<1> SUFFICES ASSUME NEW i \in Operands
             PROVE  /\ Mask(i) \in 1..Size - 1
                    /\ \A a \in 0..Size - 1 :
                          AmoAnd(a, Mask(i)) = ((a \div Mask(i)) % 2) * Mask(i)
  OBVIOUS
<1> DEFINE j == i % WordBits
<1>1. i \in Int /\ WordBits \in Nat \ {0} /\ Size \in Nat \ {0}
  BY AtomicsAssumption, SizeSquare, SizeEven
<1>2. j \in 0..WordBits - 1
  BY <1>1, ModRange
<1> HIDE DEF j
<1>3. Pow2[j] \in Nat \ {0} /\ Pow2[j] < Size
  BY <1>1, <1>2, Pow2Type, Pow2Less DEF Size
<1>4. \A a \in 0..Size - 1 : AmoAnd(a, Pow2[j]) = ((a \div Pow2[j]) % 2) * Pow2[j]
  <2>1. OneBitLaw(WordBits)
    BY <1>1, OneBitLawHolds
  <2> QED BY <1>2, <2>1 DEF OneBitLaw, BitOf, Size, AmoAnd, And
<1> QED BY <1>1, <1>3, <1>4 DEF Mask, j

\* Wrapping takes a number to a word, keeps words, and forgets multiples of
\* Size.
LEMMA WrapFacts ==
  /\ \A a \in Int : Wrap(a) \in Word
  /\ \A a \in Word : Wrap(a) = a
  /\ \A a \in Int : Wrap(a + Size) = Wrap(a) /\ Wrap(a - Size) = Wrap(a)
<1>1. Size \in Nat \ {0}
  BY SizeEven
<1>2. \A a \in Int : Wrap(a) \in Word
  BY <1>1, ModRange DEF Wrap, Word
<1>3. \A a \in Word : Wrap(a) = a
  BY <1>1, ModSmall DEF Wrap, Word
<1>4. ASSUME NEW a \in Int
      PROVE  Wrap(a + Size) = Wrap(a) /\ Wrap(a - Size) = Wrap(a)
  <2> DEFINE q == a \div Size
             r == a % Size
  <2>1. q \in Int /\ r \in 0..Size - 1 /\ a = q * Size + r
    BY <1>1
  <2> HIDE DEF q, r
  <2>2. (q + 1) * Size = q * Size + Size /\ (q - 1) * Size = q * Size - Size
    BY <1>1, <2>1
  <2>3. q + 1 \in Int /\ q - 1 \in Int /\ q * Size \in Int /\ r \in Int
    BY <1>1, <2>1
  <2>4. /\ a + Size = (q + 1) * Size + r
        /\ a - Size = (q - 1) * Size + r
    BY <1>1, <2>1, <2>2, <2>3
  <2>5. /\ (q * Size + r) % Size = r
        /\ ((q + 1) * Size + r) % Size = r
        /\ ((q - 1) * Size + r) % Size = r
    BY <1>1, <2>1, <2>3, LowHalf
  <2> QED BY <2>1, <2>4, <2>5 DEF Wrap
<1> QED BY <1>2, <1>3, <1>4

\* A signed word differs from the word by nothing or by Size.
LEMMA SignedFacts ==
  ASSUME NEW v \in Word
  PROVE  /\ Signed(v) \in Int
         /\ Signed(v) = v \/ Signed(v) = v - Size
         /\ Signed(v) < 0 <=> v >= Size \div 2
         /\ Wrap(Signed(v)) = v
<1>1. /\ Size \in Nat \ {0} /\ Size \div 2 \in Nat \ {0}
      /\ Size = 2 * (Size \div 2)
  BY SizeEven
<1>2. v \in Int /\ v >= 0 /\ v < Size
  BY <1>1 DEF Word
<1>3. /\ Signed(v) \in Int
      /\ Signed(v) = v \/ Signed(v) = v - Size
      /\ Signed(v) < 0 <=> v >= Size \div 2
  BY <1>1, <1>2 DEF Signed
<1>4. Wrap(Signed(v)) = v
  BY <1>2, <1>3, WrapFacts
<1> QED BY <1>3, <1>4

\* Sums and differences of signed words wrap as those of the words do.
LEMMA WrapSums ==
  ASSUME NEW v \in Word, NEW i \in Word
  PROVE  /\ Wrap(v + i) = Wrap(Signed(v) + Signed(i))
         /\ Wrap(v - i) = Wrap(Signed(v) - Signed(i))
         /\ Wrap(v + Wrap(i)) = Wrap(v + i)
         /\ Wrap(v + Wrap(-i)) = Wrap(v - i)
<1>1. Size \in Nat \ {0}
  BY SizeEven
<1>2. v \in Int /\ i \in Int /\ i >= 0 /\ i < Size
  BY <1>1 DEF Word
<1>3. Wrap(i) = i /\ (Wrap(-i) = -i \/ Wrap(-i) = Size - i)
  <2>1. CASE i = 0
    BY <2>1, <1>1, WrapFacts DEF Word
  <2>2. CASE i # 0
    <3>1. Size - i \in Word /\ -i \in Int
      BY <2>2, <1>1, <1>2 DEF Word
    <3>2. Wrap(Size - i) = Size - i /\ Wrap(-i + Size) = Wrap(-i)
      BY <3>1, WrapFacts
    <3>3. -i + Size = Size - i
      BY <1>1, <1>2
    <3> QED BY <3>2, <3>3, WrapFacts
  <2> QED BY <2>1, <2>2
<1>4. \A a \in Int : /\ Wrap(a + Size) = Wrap(a)
                     /\ Wrap(a - Size) = Wrap(a)
                     /\ Wrap(a - Size - Size) = Wrap(a)
  <2>1. ASSUME NEW a \in Int
        PROVE  Wrap(a - Size - Size) = Wrap(a)
    <3>1. a - Size \in Int
      BY <1>1
    <3> QED BY <3>1, WrapFacts
  <2> QED BY <2>1, WrapFacts
<1>5. /\ Signed(v) = v \/ Signed(v) = v - Size
      /\ Signed(i) = i \/ Signed(i) = i - Size
  BY SignedFacts
<1>6. Wrap(Signed(v) + Signed(i)) = Wrap(v + i)
  <2>1. v + i \in Int
    BY <1>2
  <2>2. \/ Signed(v) + Signed(i) = v + i
        \/ Signed(v) + Signed(i) = (v + i) - Size
        \/ Signed(v) + Signed(i) = (v + i) - Size - Size
    BY <1>1, <1>2, <1>5
  <2> QED BY <2>1, <2>2, <1>4
<1>7. Wrap(Signed(v) - Signed(i)) = Wrap(v - i)
  <2>1. v - i \in Int
    BY <1>2
  <2>2. \/ Signed(v) - Signed(i) = v - i
        \/ Signed(v) - Signed(i) = (v - i) - Size
        \/ Signed(v) - Signed(i) = (v - i) + Size
    BY <1>1, <1>2, <1>5
  <2> QED BY <2>1, <2>2, <1>4
<1>8. Wrap(v + Wrap(-i)) = Wrap(v - i)
  <2>1. v - i \in Int
    BY <1>2
  <2>2. v + Wrap(-i) = v - i \/ v + Wrap(-i) = (v - i) + Size
    BY <1>1, <1>2, <1>3
  <2> QED BY <2>1, <2>2, <1>4
<1> QED BY <1>3, <1>6, <1>7, <1>8

\* Two signed words whose difference wraps to 0 are equal.
LEMMA WrappedZero ==
  ASSUME NEW v \in Word, NEW i \in Word
  PROVE  Wrap(Signed(v) - Signed(i)) = 0 <=> Signed(v) = Signed(i)
<1>1. Size \in Nat \ {0} /\ v \in Int /\ i \in Int
  BY SizeEven DEF Word
<1>2. v >= 0 /\ v < Size /\ i >= 0 /\ i < Size
  BY <1>1 DEF Word
<1>3. Wrap(Signed(v) - Signed(i)) = Wrap(v - i)
  BY WrapSums
<1>4. Wrap(v - i) = 0 <=> v = i
  <2>1. CASE v >= i
    <3>1. v - i \in Word /\ (v - i = 0 <=> v = i)
      BY <2>1, <1>1, <1>2 DEF Word
    <3>2. Wrap(v - i) = v - i
      BY <3>1, WrapFacts
    <3> QED BY <3>1, <3>2
  <2>2. CASE v < i
    <3>1. (v - i) + Size \in Word /\ v - i \in Int /\ (v - i) + Size # 0
      BY <2>2, <1>1, <1>2 DEF Word
    <3>2. Wrap(v - i) = (v - i) + Size
      BY <3>1, WrapFacts
    <3> QED BY <3>1, <3>2, <2>2, <1>1
  <2> QED BY <2>1, <2>2, <1>1
<1>5. Signed(v) = Signed(i) <=> v = i
  BY SignedFacts
<1> QED BY <1>3, <1>4, <1>5

\* What a call is: its function, and operands that are words.
LEMMA FuncParts ==
  ASSUME NEW f \in Funcs
  PROVE  /\ f # NoFunc /\ f.op \in AmoOps \cup LoopOps
         /\ f.i \in Word /\ f.u \in Word
         /\ f.op \in BitOps => f.i \in Operands
<1>1. Operands \subseteq Word /\ 0 \in Word
  BY AtomicsAssumption, SizeEven DEF Word
<1>2. f.op \in AmoOps \cup LoopOps
  BY DEF Funcs, AmoOps, LoopOps
<1>3. f # NoFunc
  BY <1>2 DEF NoFunc, AmoOps, LoopOps, Adds, Subs, Incs, Decs, BitOps
<1>4. f.i \in Word /\ f.u \in Word
  BY <1>1 DEF Funcs
<1>5. f.op \in BitOps => f.i \in Operands
  BY DEF Funcs, AmoOps, LoopOps, Adds, Subs, Incs, Decs, BitOps
<1> QED BY <1>2, <1>3, <1>4, <1>5

\* The operand of amoadd.
LEMMA Adding ==
  ASSUME NEW f \in Funcs
  PROVE  /\ f.op \in Adds => Addend(f) = Wrap(f.i)
         /\ f.op \in Subs => Addend(f) = Wrap(-f.i)
         /\ f.op \in Incs => Addend(f) = Wrap(1)
         /\ f.op \in Decs => Addend(f) = Wrap(-1)
BY DEF Addend, Adds, Subs, Incs, Decs, Negated

\* The operations that add or subtract their operand: an amoadd of the operand
\* or of its negation.
LEMMA AddsAsPromised ==
  ASSUME NEW f \in Funcs, f.op \in Adds \cup Subs, NEW v \in Word
  PROVE  /\ Amo(f, v) = Promise(f, v).new
         /\ AmoResult(f, v) = Promise(f, v).res
<1>1. v \in Int /\ f.i \in Word
  BY FuncParts, SizeEven DEF Word
<1>2. f.op \in Adds => Wrap(v + Addend(f)) = Wrap(Signed(v) + Signed(f.i))
  BY <1>1, WrapSums, Adding
<1>3. f.op \in Subs => Wrap(v + Addend(f)) = Wrap(Signed(v) - Signed(f.i))
  BY <1>1, WrapSums, Adding
<1>4. /\ Wrap(0) = 0 /\ Wrap(1) = 1
      /\ \A b \in BOOLEAN : Truth(b) \in Word /\ Wrap(Truth(b)) = Truth(b)
  BY WrapFacts, SizeEven DEF Word, Truth
<1>5. \A a \in Int : Wrap(a) \in Word
  BY WrapFacts
<1>6. Signed(v) \in Int /\ Signed(f.i) \in Int
  BY <1>1, SignedFacts
<1>7. Amo(f, v) = Wrap(v + Addend(f))
  BY DEF Amo, Adds, Subs
<1>8. CASE f.op = "add"
  BY <1>2, <1>4, <1>7, <1>8 DEF Promise, AmoResult, Adds, BitOps
<1>9. CASE f.op = "add_return"
  BY <1>2, <1>4, <1>7, <1>9 DEF Promise, AmoResult, Adds, BitOps
<1>10. CASE f.op = "add_negative"
  BY <1>2, <1>4, <1>7, <1>10 DEF Promise, AmoResult, Adds, BitOps, Truth
<1>11. CASE f.op = "sub"
  BY <1>3, <1>4, <1>7, <1>11 DEF Promise, AmoResult, Subs, BitOps
<1>12. CASE f.op = "sub_return"
  BY <1>3, <1>4, <1>7, <1>12 DEF Promise, AmoResult, Subs, BitOps
<1>13. CASE f.op = "sub_and_test"
  <2>1. Wrap(Signed(v) - Signed(f.i)) = 0 <=> Signed(v) = Signed(f.i)
    BY <1>1, WrappedZero
  <2> QED BY <2>1, <1>3, <1>4, <1>7, <1>13 DEF Promise, AmoResult, Subs, BitOps
<1> QED BY <1>8, <1>9, <1>10, <1>11, <1>12, <1>13 DEF Adds, Subs

\* A signed word and the word may be exchanged below Wrap.
LEMMA SignedAndMore ==
  ASSUME NEW v \in Word, NEW m \in Int
  PROVE  /\ Wrap(Signed(v)) = v
         /\ Wrap(Signed(v) + m) = Wrap(v + m)
         /\ Wrap(Signed(v) - m) = Wrap(v - m)
<1>1. /\ Size \in Nat \ {0} /\ v \in Int
      /\ Wrap(Signed(v)) = v
      /\ Signed(v) = v \/ Signed(v) = v - Size
  BY SizeEven, SignedFacts DEF Word
<1>2. v + m \in Int /\ v - m \in Int
  BY <1>1
<1>3. /\ Wrap((v + m) - Size) = Wrap(v + m)
      /\ Wrap((v - m) - Size) = Wrap(v - m)
  BY <1>2, WrapFacts
<1>4. (v - Size) + m = (v + m) - Size /\ (v - Size) - m = (v - m) - Size
  BY <1>1
<1> QED BY <1>1, <1>3, <1>4

\* Adding and subtracting 1.
LEMMA Ones ==
  ASSUME NEW v \in Word
  PROVE  /\ 1 \in Word /\ Wrap(1) = 1
         /\ Wrap(v + Wrap(1)) = Wrap(Signed(v) + 1)
         /\ Wrap(v + Wrap(-1)) = Wrap(Signed(v) - 1)
         /\ Wrap(v - 1) = Wrap(Signed(v) - 1)
         /\ Wrap(Signed(v) + 1) = 0 <=> Signed(v) = -1
         /\ Wrap(Signed(v) - 1) = 0 <=> Signed(v) = 1
<1>1. PICK n \in Nat \ {0} : HalfSize = 2 * n
  BY SizeEven
<1>2. PICK m \in Nat \ {0} : Size \div 2 = m * HalfSize
  BY SizeEven
<1>3. Size \div 2 >= 2 /\ Size \div 2 \in Nat /\ Size = 2 * (Size \div 2)
  <2>1. m * HalfSize = 2 * (m * n) /\ m * n \in Nat \ {0}
    BY <1>1, <1>2
  <2> DEFINE p == m * n
  <2>2. p \in Nat \ {0} /\ Size \div 2 = 2 * p
    BY <2>1, <1>2
  <2> HIDE DEF p
  <2>3. Size \div 2 >= 2
    BY <2>2
  <2> QED BY <2>3, SizeEven
<1>4. 1 \in Word /\ Size - 1 \in Word
  BY <1>3 DEF Word
<1>5. Signed(1) = 1 /\ Signed(Size - 1) = -1
  BY <1>3 DEF Signed
<1>6. Signed(v) \in Int
  BY SignedFacts
<1>7. Signed(v) - Signed(Size - 1) = Signed(v) + 1
  BY <1>5, <1>6
<1> QED BY <1>4, <1>5, <1>7, WrapSums, WrappedZero, WrapFacts

\* So do those that add or subtract 1.
LEMMA IncsAsPromised ==
  ASSUME NEW f \in Funcs, f.op \in Incs \cup Decs, NEW v \in Word
  PROVE  /\ Amo(f, v) = Promise(f, v).new
         /\ AmoResult(f, v) = Promise(f, v).res
<1>1. /\ f.op \in Incs => Addend(f) = Wrap(1)
      /\ f.op \in Decs => Addend(f) = Wrap(-1)
  BY Adding
<1>2. /\ Wrap(v + Wrap(1)) = Wrap(Signed(v) + 1)
      /\ Wrap(v + Wrap(-1)) = Wrap(Signed(v) - 1)
      /\ Wrap(Signed(v) + 1) = 0 <=> Signed(v) = -1
      /\ Wrap(Signed(v) - 1) = 0 <=> Signed(v) = 1
      /\ Wrap(1) = 1
  BY Ones
<1>3. Wrap(0) = 0
  BY WrapFacts, SizeEven DEF Word
<1>4. Amo(f, v) = Wrap(v + Addend(f))
  BY DEF Amo, Incs, Decs
<1>5. CASE f.op = "inc"
  BY <1>1, <1>2, <1>3, <1>4, <1>5 DEF Promise, AmoResult, Incs, BitOps
<1>6. CASE f.op = "inc_return"
  BY <1>1, <1>2, <1>3, <1>4, <1>6 DEF Promise, AmoResult, Incs, BitOps
<1>7. CASE f.op = "inc_and_test"
  BY <1>1, <1>2, <1>3, <1>4, <1>7 DEF Promise, AmoResult, Incs, BitOps, Truth
<1>8. CASE f.op = "dec"
  BY <1>1, <1>2, <1>3, <1>4, <1>8 DEF Promise, AmoResult, Decs, BitOps
<1>9. CASE f.op = "dec_return"
  BY <1>1, <1>2, <1>3, <1>4, <1>9 DEF Promise, AmoResult, Decs, BitOps
<1>10. CASE f.op = "dec_and_test"
  BY <1>1, <1>2, <1>3, <1>4, <1>10 DEF Promise, AmoResult, Decs, BitOps, Truth
<1> QED BY <1>5, <1>6, <1>7, <1>8, <1>9, <1>10 DEF Incs, Decs

\* One bit of a word, and the word without it or with it.
LEMMA OneBit ==
  ASSUME NEW v \in Word, NEW i \in Operands
  PROVE  LET bit == (v \div Mask(i)) % 2
         IN  /\ bit \in {0, 1}
             /\ AmoAnd(v, Mask(i)) # 0 <=> bit = 1
             /\ AmoOr(v, Mask(i)) = IF bit = 1 THEN v ELSE v + Mask(i)
             /\ AmoAnd(v, Complement(Mask(i))) = IF bit = 1 THEN v - Mask(i) ELSE v
             /\ AmoXor(v, Mask(i)) = IF bit = 1 THEN v - Mask(i) ELSE v + Mask(i)
             /\ AmoOr(v, Mask(i)) \in Word
             /\ AmoAnd(v, Complement(Mask(i))) \in Word
             /\ AmoXor(v, Mask(i)) \in Word
<1> DEFINE bit == (v \div Mask(i)) % 2
<1>1. Size \in Nat \ {0} /\ v \in Int
  BY SizeEven DEF Word
<1>2. Mask(i) \in Word /\ Mask(i) \in Nat \ {0}
  BY <1>1, MaskLaws DEF Word
<1>3. Complement(Mask(i)) \in Word
  BY <1>1, <1>2 DEF Complement, Word
<1>4. bit \in {0, 1}
  <2>1. v \div Mask(i) \in Int
    BY <1>1, <1>2
  <2> QED BY <2>1
<1>5. AmoAnd(v, Mask(i)) = bit * Mask(i)
  BY MaskLaws DEF Word
<1>6. /\ AmoOr(v, Mask(i)) = v + Mask(i) - AmoAnd(v, Mask(i))
      /\ AmoAnd(v, Complement(Mask(i))) = v - AmoAnd(v, Mask(i))
      /\ AmoXor(v, Mask(i)) = v + Mask(i) - 2 * AmoAnd(v, Mask(i))
      /\ AmoOr(v, Mask(i)) \in Word
      /\ AmoAnd(v, Complement(Mask(i))) \in Word
      /\ AmoXor(v, Mask(i)) \in Word
  BY <1>2, <1>3, BitwiseLaws DEF Word
<1> HIDE DEF bit
<1>7. CASE bit = 1
  <2>1. AmoAnd(v, Mask(i)) = Mask(i)
    BY <1>5, <1>7, <1>2
  <2> QED BY <2>1, <1>1, <1>2, <1>6, <1>7 DEF bit
<1>8. CASE bit = 0
  <2>1. AmoAnd(v, Mask(i)) = 0
    BY <1>5, <1>8, <1>2
  <2> QED BY <2>1, <1>1, <1>2, <1>6, <1>8 DEF bit
<1> QED BY <1>4, <1>7, <1>8 DEF bit

\* The operations on a bit give its old value and set, clear or change it.
LEMMA BitOpsAsPromised ==
  ASSUME NEW f \in Funcs, f.op \in BitOps, NEW v \in Word
  PROVE  /\ Amo(f, v) = Promise(f, v).new
         /\ AmoResult(f, v) = Promise(f, v).res
<1> DEFINE m == Mask(f.i)
           bit == (v \div Mask(f.i)) % 2
<1>1. f.i \in Operands /\ v \in Int /\ Size \in Nat \ {0}
  BY FuncParts, SizeEven DEF Word
<1>2. /\ bit \in {0, 1}
      /\ AmoAnd(v, m) # 0 <=> bit = 1
      /\ AmoOr(v, m) = IF bit = 1 THEN v ELSE v + m
      /\ AmoAnd(v, Complement(m)) = IF bit = 1 THEN v - m ELSE v
      /\ AmoXor(v, m) = IF bit = 1 THEN v - m ELSE v + m
      /\ AmoOr(v, m) \in Word
      /\ AmoAnd(v, Complement(m)) \in Word
      /\ AmoXor(v, m) \in Word
  BY <1>1, OneBit
<1>3. m \in Int
  BY <1>1, MaskLaws
<1>4. /\ Wrap(Signed(v)) = v
      /\ Wrap(Signed(v) + m) = Wrap(v + m)
      /\ Wrap(Signed(v) - m) = Wrap(v - m)
  BY <1>1, <1>3, SignedAndMore
<1>5. /\ \A a \in Word : Wrap(a) = a
      /\ Wrap(0) = 0 /\ Wrap(1) = 1
  BY WrapFacts, Ones, SizeEven DEF Word
<1>6. AmoResult(f, v) = Truth(AmoAnd(v, m) # 0)
  BY DEF AmoResult, BitOps
<1>7. AmoResult(f, v) = Wrap(bit)
  BY <1>2, <1>5, <1>6 DEF Truth
<1>8. CASE f.op = "test_and_set_bit"
  <2>1. Amo(f, v) = AmoOr(v, m)
    BY <1>8 DEF Amo, Adds, Subs, Incs, Decs
  <2>2. Promise(f, v) = [new |-> Wrap(IF bit = 1 THEN Signed(v) ELSE Signed(v) + m), res |-> Wrap(bit)]
    BY <1>8 DEF Promise
  <2> HIDE DEF m, bit
  <2> QED BY <2>1, <2>2, <1>2, <1>4, <1>5, <1>7
<1>9. CASE f.op = "test_and_clear_bit"
  <2>1. Amo(f, v) = AmoAnd(v, Complement(m))
    BY <1>9 DEF Amo, Adds, Subs, Incs, Decs
  <2>2. Promise(f, v) = [new |-> Wrap(IF bit = 1 THEN Signed(v) - m ELSE Signed(v)), res |-> Wrap(bit)]
    BY <1>9 DEF Promise
  <2> HIDE DEF m, bit
  <2> QED BY <2>1, <2>2, <1>2, <1>4, <1>5, <1>7
<1>10. CASE f.op = "test_and_change_bit"
  <2>1. Amo(f, v) = AmoXor(v, m)
    BY <1>10 DEF Amo, Adds, Subs, Incs, Decs
  <2>2. Promise(f, v) = [new |-> Wrap(IF bit = 1 THEN Signed(v) - m ELSE Signed(v) + m), res |-> Wrap(bit)]
    BY <1>10 DEF Promise
  <2> HIDE DEF m, bit
  <2> QED BY <2>1, <2>2, <1>2, <1>4, <1>5, <1>7
<1> QED BY <1>8, <1>9, <1>10 DEF BitOps

\* Every operation that is one AMO does what its comment says.
LEMMA AmoAsPromised ==
  ASSUME NEW f \in Funcs, f.op \in AmoOps, NEW v \in Word
  PROVE  /\ Amo(f, v) = Promise(f, v).new
         /\ AmoResult(f, v) = Promise(f, v).res
         /\ Amo(f, v) \in Word
<1>1. f.i \in Word /\ Size \in Nat \ {0} /\ Wrap(0) = 0
  BY FuncParts, SizeEven, WrapFacts DEF Word
<1>2. /\ AmoAnd(v, f.i) \in Word /\ AmoOr(v, f.i) \in Word
      /\ AmoXor(v, f.i) \in Word
      /\ AmoOr(v, f.i) = v + f.i - AmoAnd(v, f.i)
      /\ AmoXor(v, f.i) = v + f.i - 2 * AmoAnd(v, f.i)
  BY <1>1, BitwiseLaws DEF Word
<1>3. /\ Wrap(AmoAnd(v, f.i)) = AmoAnd(v, f.i)
      /\ Wrap(AmoOr(v, f.i)) = AmoOr(v, f.i)
      /\ Wrap(AmoXor(v, f.i)) = AmoXor(v, f.i)
  BY <1>2, WrapFacts
<1>4. CASE f.op = "and"
  BY <1>1, <1>2, <1>3, <1>4 DEF Amo, AmoResult, Promise, Adds, Subs, Incs, Decs, BitOps
<1>5. CASE f.op = "or"
  BY <1>1, <1>2, <1>3, <1>5 DEF Amo, AmoResult, Promise, Adds, Subs, Incs, Decs, BitOps
<1>6. CASE f.op = "xor"
  BY <1>1, <1>2, <1>3, <1>6 DEF Amo, AmoResult, Promise, Adds, Subs, Incs, Decs, BitOps
<1>7. CASE f.op = "xchg"
  <2>1. Wrap(Signed(v)) = v /\ Wrap(Signed(f.i)) = f.i
    BY <1>1, SignedFacts
  <2> QED
    BY <1>1, <1>7, <2>1 DEF Amo, AmoResult, Promise, Adds, Subs, Incs, Decs, BitOps
<1>8. CASE f.op \in Adds \cup Subs \cup Incs \cup Decs
  <2>1. Amo(f, v) = Wrap(v + Addend(f))
    BY <1>8 DEF Amo, Adds, Subs, Incs, Decs
  <2>2. v + Addend(f) \in Int
    <3>1. \A a \in Int : Wrap(a) \in Int
      BY <1>1, WrapFacts DEF Word
    <3>2. f.i \in Int /\ -f.i \in Int /\ 1 \in Int /\ -1 \in Int /\ v \in Int
      BY <1>1 DEF Word
    <3>3. Wrap(f.i) \in Int /\ Wrap(-f.i) \in Int /\ Wrap(1) \in Int /\ Wrap(-1) \in Int
      BY <3>1, <3>2
    <3>4. Addend(f) \in Int
      BY <1>8, <3>3, Adding
    <3> QED BY <3>2, <3>4
  <2> QED BY <2>1, <2>2, <1>8, AddsAsPromised, IncsAsPromised, WrapFacts
<1>9. CASE f.op \in BitOps
  <2>1. /\ AmoOr(v, Mask(f.i)) \in Word
        /\ AmoAnd(v, Complement(Mask(f.i))) \in Word
        /\ AmoXor(v, Mask(f.i)) \in Word
    BY <1>9, FuncParts, OneBit
  <2>2. Amo(f, v) \in Word
    BY <2>1, <1>9 DEF Amo, Adds, Subs, Incs, Decs, BitOps
  <2> QED BY <2>2, <1>9, BitOpsAsPromised
<1> QED BY <1>4, <1>5, <1>6, <1>7, <1>8, <1>9 DEF AmoOps

\* What bltz decides on: the word is positive, or the most negative one, if the
\* word less 1 is not negative.
LEMMA StaysPositive ==
  ASSUME NEW v \in Word
  PROVE  /\ Signed(Wrap(v - 1)) < 0 => ~(Signed(v) > 0)
         /\ ~(Signed(Wrap(v - 1)) < 0) =>
              /\ v \in 1..Size \div 2 /\ Wrap(v - 1) = v - 1
              /\ Signed(v) > 0 \/ v = Size \div 2
<1>1. /\ Size \in Nat \ {0} /\ Size \div 2 \in Nat \ {0}
      /\ Size = 2 * (Size \div 2) /\ v \in Int /\ v >= 0 /\ v < Size
  BY SizeEven DEF Word
<1>2. CASE v = 0
  <2>1. Size - 1 \in Word /\ (v - 1) + Size = Size - 1 /\ v - 1 \in Int
    BY <1>1, <1>2 DEF Word
  <2>2. Wrap(v - 1) = Size - 1
    BY <2>1, WrapFacts
  <2>3. Signed(Size - 1) < 0
    BY <1>1 DEF Signed
  <2>4. ~(Signed(v) > 0)
    BY <1>1, <1>2 DEF Signed
  <2> QED BY <2>2, <2>3, <2>4
<1>3. CASE v # 0
  <2>1. v - 1 \in Word
    BY <1>1, <1>3 DEF Word
  <2>2. Wrap(v - 1) = v - 1
    BY <2>1, WrapFacts
  <2>3. Signed(v - 1) < 0 => ~(Signed(v) > 0)
    BY <1>1, <1>3 DEF Signed
  <2>4. ~(Signed(v - 1) < 0) =>
          /\ v \in 1..Size \div 2
          /\ Signed(v) > 0 \/ v = Size \div 2
    BY <1>1, <1>3 DEF Signed
  <2> QED BY <2>2, <2>3, <2>4
<1> QED BY <1>2, <1>3

\* The upper half of v with the lower half of v less 1.
LEMMA LowerHalf ==
  ASSUME NEW v \in Word, v # 0, Wrap(v - 1) = v - 1
  PROVE  LET new == (v \div HalfSize) * HalfSize + (Wrap(v - 1) % HalfSize)
         IN  /\ v % HalfSize # 0 => new = v - 1
             /\ v % HalfSize = 0 => new = v + HalfSize - 1
             /\ new \in Word
<1> DEFINE q == v \div HalfSize
           r == v % HalfSize
<1>1. /\ HalfSize \in Nat \ {0} /\ Size \in Nat \ {0}
      /\ v \in Int /\ v > 0 /\ v < Size
  BY SizeEven DEF Word
<1>2. /\ q \in Nat /\ r \in 0..HalfSize - 1 /\ v = q * HalfSize + r
  BY <1>1
<1>3. q \in 0..HalfSize - 1
  <2>1. q * HalfSize < HalfSize * HalfSize
    BY <1>1, <1>2, SizeSquare
  <2> HIDE DEF q, r
  <2> SUFFICES ASSUME q >= HalfSize PROVE FALSE
    BY <1>1, <1>2
  <2>2. q * HalfSize >= HalfSize * HalfSize
    BY <1>1, <1>2
  <2> QED BY <2>1, <2>2, <1>1, <1>2
<1> HIDE DEF q, r
<1>4. /\ q * HalfSize \in Nat
      /\ q * HalfSize + HalfSize - 1 < Size
  <2>1. (HalfSize - 1 - q) * HalfSize \in Nat
    BY <1>1, <1>3
  <2>2. (HalfSize - 1 - q) * HalfSize = HalfSize * HalfSize - HalfSize - q * HalfSize
    BY <1>1, <1>3
  <2>3. HalfSize * HalfSize \in Nat /\ q * HalfSize \in Nat
    BY <1>1, <1>3
  <2> QED BY <1>1, <2>1, <2>2, <2>3, SizeSquare
<1>5. CASE r # 0
  <2>1. r - 1 \in 0..HalfSize - 1 /\ v - 1 = q * HalfSize + (r - 1)
    BY <1>1, <1>2, <1>4, <1>5
  <2>2. (v - 1) % HalfSize = r - 1
    <3>1. (q * HalfSize + (r - 1)) % HalfSize = r - 1
      BY <1>1, <1>2, <2>1, LowHalf
    <3> QED BY <2>1, <3>1
  <2>3. q * HalfSize + (r - 1) \in Word
    BY <1>1, <1>4, <2>1 DEF Word
  <2> QED BY <2>1, <2>2, <2>3, <1>5 DEF q, r
<1>6. CASE r = 0
  <2>1. (q - 1) * HalfSize = q * HalfSize - HalfSize
    BY <1>1, <1>3
  <2>2. HalfSize - 1 \in 0..HalfSize - 1
        /\ v - 1 = (q - 1) * HalfSize + (HalfSize - 1)
    BY <1>1, <1>2, <1>4, <1>6, <2>1
  <2>3. (v - 1) % HalfSize = HalfSize - 1
    BY <1>1, <1>3, <2>2, LowHalf
  <2>4. /\ q * HalfSize + (HalfSize - 1) = v + HalfSize - 1
        /\ q * HalfSize + (HalfSize - 1) \in Word
    BY <1>1, <1>2, <1>4, <1>6 DEF Word
  <2> QED BY <2>3, <2>4, <1>6 DEF q, r
<1> QED BY <1>5, <1>6

\* What AtomicAsPromised says of the last call.
AsPromised(f, old, new, results) ==
    LET p == Promise(f, old)
    IN  /\ f.op # "dec_if_positive" => new = p.new
        /\ f.op # "atomic64_add_unless" => results = {p.res}

\* A loop that leaves without a store has done what its comment says, but for
\* what atomic64_add_unless returns.
LEMMA LeavingAsPromised ==
  ASSUME NEW f \in Funcs, f.op \in LoopOps, NEW v \in Word, Leaves(f, v),
         NEW R, R = {1} \/ R = {0, 1}
  PROVE  AsPromised(f, v, v, {LoopResult(f, v, rc) : rc \in R})
<1>1. /\ Wrap(Signed(v)) = v /\ Wrap(v - 1) = Wrap(Signed(v) - 1)
      /\ Wrap(0) = 0 /\ Wrap(1) = 1
  BY SignedFacts, Ones, WrapFacts, SizeEven DEF Word
<1>2. CASE f.op = "cmpxchg"
  <2>1. v # f.u /\ {LoopResult(f, v, rc) : rc \in R} = {v}
    BY <1>2 DEF Leaves, LoopResult
  <2>2. Promise(f, v) = [new |-> v, res |-> v]
    BY <2>1, <1>1, <1>2 DEF Promise
  <2> QED BY <2>1, <2>2 DEF AsPromised
<1>3. CASE f.op = "add_unless"
  <2>1. v = f.u /\ {LoopResult(f, v, rc) : rc \in R} = {v}
    BY <1>3 DEF Leaves, LoopResult
  <2>2. Promise(f, v) = [new |-> v, res |-> v]
    BY <2>1, <1>1, <1>3 DEF Promise
  <2> QED BY <2>1, <2>2 DEF AsPromised
<1>4. CASE f.op = "atomic64_add_unless"
  <2>1. v = f.u
    BY <1>4 DEF Leaves
  <2>2. Promise(f, v) = [new |-> v, res |-> 0]
    BY <2>1, <1>1, <1>4 DEF Promise, Truth
  <2> QED BY <2>2, <1>4 DEF AsPromised
<1>5. CASE f.op = "dec_if_positive"
  <2>1. {LoopResult(f, v, rc) : rc \in R} = {Wrap(v - 1)}
    BY <1>5 DEF LoopResult
  <2>2. Signed(Wrap(v - 1)) < 0
    BY <1>5 DEF Leaves
  <2>3. ~(Signed(v) > 0)
    BY <2>2, StaysPositive
  <2>4. Promise(f, v) = [new |-> v, res |-> Wrap(v - 1)]
    BY <2>3, <1>1, <1>5 DEF Promise
  <2> QED BY <2>1, <2>4 DEF AsPromised
<1> QED BY <1>2, <1>3, <1>4, <1>5 DEF LoopOps

\* So has one whose sc stores, while the word is what lr has loaded, but for
\* the upper half of what atomic64_dec_if_positive stores.
LEMMA StoringAsPromised ==
  ASSUME NEW f \in Funcs, f.op \in LoopOps, NEW v \in Word, ~Leaves(f, v)
  PROVE  /\ AsPromised(f, v, Stores(f, v, v), {LoopResult(f, v, 0)})
         /\ Stores(f, v, v) \in Word
<1>1. /\ f.i \in Word
      /\ Wrap(Signed(v)) = v /\ Wrap(Signed(f.i)) = f.i
      /\ Wrap(v - 1) = Wrap(Signed(v) - 1)
      /\ Wrap(1) = 1
  BY SignedFacts, FuncParts, Ones
<1>2. Wrap(v + f.i) = Wrap(Signed(v) + Signed(f.i)) /\ Wrap(v + f.i) \in Word
  <2>1. v + f.i \in Int
    BY <1>1, SizeEven DEF Word
  <2> QED BY <1>1, <2>1, WrapSums, WrapFacts
<1>3. CASE f.op = "cmpxchg"
  <2>1. v = f.u /\ LoopResult(f, v, 0) = v /\ Stores(f, v, v) = f.i
    BY <1>3 DEF Leaves, LoopResult, Stores
  <2>2. Promise(f, v) = [new |-> f.i, res |-> v]
    BY <2>1, <1>1, <1>3 DEF Promise
  <2> QED BY <2>1, <2>2, <1>1 DEF AsPromised
<1>4. CASE f.op = "add_unless"
  <2>1. v # f.u /\ LoopResult(f, v, 0) = v /\ Stores(f, v, v) = Wrap(v + f.i)
    BY <1>4 DEF Leaves, LoopResult, Stores
  <2>2. Promise(f, v) = [new |-> Wrap(v + f.i), res |-> v]
    BY <2>1, <1>1, <1>2, <1>4 DEF Promise
  <2> QED BY <2>1, <2>2, <1>2 DEF AsPromised
<1>5. CASE f.op = "atomic64_add_unless"
  <2>1. v # f.u /\ LoopResult(f, v, 0) = 1 /\ Stores(f, v, v) = Wrap(v + f.i)
    BY <1>5 DEF Leaves, LoopResult, Stores, Truth
  <2>2. Promise(f, v) = [new |-> Wrap(v + f.i), res |-> 1]
    BY <2>1, <1>1, <1>2, <1>5 DEF Promise, Truth
  <2> QED BY <2>1, <2>2, <1>2 DEF AsPromised
<1>6. CASE f.op = "dec_if_positive"
  <2> DEFINE new == (v \div HalfSize) * HalfSize + (Wrap(v - 1) % HalfSize)
  <2>1. LoopResult(f, v, 0) = Wrap(v - 1) /\ Stores(f, v, v) = new
    BY <1>6 DEF LoopResult, Stores
  <2>2. ~(Signed(Wrap(v - 1)) < 0)
    BY <1>6 DEF Leaves
  <2>3. v \in 1..Size \div 2 /\ Wrap(v - 1) = v - 1
    BY <2>2, StaysPositive
  <2>4. new \in Word
    BY <2>3, LowerHalf
  <2>5. Promise(f, v).res = Wrap(v - 1)
    BY <1>1, <1>6 DEF Promise
  <2> HIDE DEF new
  <2> QED BY <1>6, <2>1, <2>4, <2>5 DEF AsPromised
<1> QED BY <1>3, <1>4, <1>5, <1>6 DEF LoopOps

\* Where the harts are in their calls: a hart that is to do sc is in a loop that
\* has not left for what it has loaded, and that is still in the word while the
\* reservation is valid.
AtomicTypes ==
    /\ counter \in Word
    /\ func \in [Harts -> Funcs \cup {NoFunc}]
    /\ insn \in [Harts -> {"lr", "sc", "again"}]
    /\ prev \in [Harts -> Word]

LoopsInv ==
    \A h \in Harts : insn[h] = "sc" =>
        /\ func[h].op \in LoopOps
        /\ ~Leaves(func[h], prev[h])
        /\ h \in reserved => prev[h] = counter

ReservedInv == reserved \subseteq {h \in Harts : insn[h] = "sc"}

AtomicInv == AtomicTypes /\ LoopsInv /\ ReservedInv /\ AtomicAsPromised

\* A hart that is in no call is neither in an AMO nor in a loop.
LEMMA InCall ==
  ASSUME NEW f \in Funcs \cup {NoFunc}
  PROVE  f.op \in AmoOps \cup LoopOps => f \in Funcs
BY DEF NoFunc, AmoOps, LoopOps, Adds, Subs, Incs, Decs, BitOps

LEMMA AtomicInitInv == AtomicInit \/ AtomicOff => AtomicInv
<1> SUFFICES ASSUME AtomicInit \/ AtomicOff PROVE AtomicInv
  OBVIOUS
<1>1. 0 \in Word
  BY SizeEven DEF Word
<1>2. AtomicTypes
  BY <1>1, AtomicsAssumption DEF AtomicInit, AtomicOff, AtomicTypes, Word
<1>3. LoopsInv /\ ReservedInv
  BY DEF AtomicInit, AtomicOff, LoopsInv, ReservedInv
<1>4. last.func = NoFunc
  BY DEF AtomicInit, AtomicOff, NoLast
<1>5. AtomicAsPromised
  BY <1>4 DEF AtomicAsPromised
<1> QED BY <1>2, <1>3, <1>5 DEF AtomicInv

\* A call that ends leaves every other hart where it is.
LEMMA CompletesKeeps ==
  ASSUME AtomicInv, NEW h \in Harts, NEW new, NEW results,
         Completes(h, new, results)
  PROVE  /\ func' \in [Harts -> Funcs \cup {NoFunc}]
         /\ insn' \in [Harts -> {"lr", "sc", "again"}]
         /\ insn'[h] = "lr"
         /\ \A g \in Harts \ {h} : func'[g] = func[g] /\ insn'[g] = insn[g]
BY DEF Completes, AtomicInv, AtomicTypes

LEMMA CallFuncKeeps ==
  ASSUME AtomicInv, NEW h \in Harts, CallFunc(h)
  PROVE  AtomicInv'
<1>1. PICK f \in Funcs : func' = [func EXCEPT ![h] = f]
  BY DEF CallFunc
<1>2. /\ func[h] = NoFunc /\ last' = NoLast
      /\ UNCHANGED <<counter, insn, prev, reserved>>
  BY DEF CallFunc
<1>3. AtomicTypes'
  BY <1>1, <1>2 DEF AtomicInv, AtomicTypes
<1>4. insn[h] # "sc"
  BY <1>2 DEF AtomicInv, LoopsInv, NoFunc, LoopOps
<1>5. \A g \in Harts \ {h} : func'[g] = func[g]
  BY <1>1 DEF AtomicInv, AtomicTypes
<1>6. LoopsInv' /\ ReservedInv'
  BY <1>2, <1>4, <1>5 DEF AtomicInv, LoopsInv, ReservedInv
<1>7. AtomicAsPromised'
  BY <1>2 DEF AtomicAsPromised, NoLast
<1> QED BY <1>3, <1>6, <1>7 DEF AtomicInv

LEMMA ExecuteAmoKeeps ==
  ASSUME AtomicInv, NEW h \in Harts, ExecuteAmo(h)
  PROVE  AtomicInv'
<1> DEFINE f == func[h]
<1>1. f \in Funcs /\ f.op \in AmoOps /\ counter \in Word
  BY InCall DEF ExecuteAmo, AtomicInv, AtomicTypes
<1>2. /\ Completes(h, counter', {AmoResult(f, counter)})
      /\ counter' = Amo(f, counter) /\ reserved' = {} /\ prev' = prev
  BY DEF ExecuteAmo
<1>3. /\ counter' = Promise(f, counter).new
      /\ AmoResult(f, counter) = Promise(f, counter).res
      /\ counter' \in Word
  BY <1>1, <1>2, AmoAsPromised
<1>4. /\ func' \in [Harts -> Funcs \cup {NoFunc}]
      /\ insn' \in [Harts -> {"lr", "sc", "again"}]
      /\ insn'[h] = "lr"
      /\ \A g \in Harts \ {h} : func'[g] = func[g] /\ insn'[g] = insn[g]
  BY <1>2, CompletesKeeps
<1>5. AtomicTypes'
  BY <1>2, <1>3, <1>4 DEF AtomicInv, AtomicTypes
<1>6. LoopsInv' /\ ReservedInv'
  BY <1>2, <1>4 DEF AtomicInv, LoopsInv, ReservedInv
<1>7. /\ last'.func = f /\ last'.old = counter /\ last'.new = counter'
      /\ last'.results = {AmoResult(f, counter)}
  BY <1>2 DEF Completes
<1>8. AsPromised(f, counter, counter', {AmoResult(f, counter)})
  BY <1>3 DEF AsPromised
<1>9. AtomicAsPromised'
  BY <1>7, <1>8 DEF AtomicAsPromised, AsPromised
<1> QED BY <1>5, <1>6, <1>9 DEF AtomicInv

LEMMA LoadReservedKeeps ==
  ASSUME AtomicInv, NEW h \in Harts, LoadReserved(h)
  PROVE  AtomicInv'
<1> DEFINE f == func[h]
<1>1. f \in Funcs /\ f.op \in LoopOps /\ counter \in Word /\ insn[h] # "sc"
  BY InCall DEF LoadReserved, AtomicInv, AtomicTypes
<1>2. /\ prev' = [prev EXCEPT ![h] = counter] /\ counter' = counter
  BY DEF LoadReserved
<1>3. prev' \in [Harts -> Word] /\ prev'[h] = counter
      /\ \A g \in Harts \ {h} : prev'[g] = prev[g]
  BY <1>1, <1>2 DEF AtomicInv, AtomicTypes
<1>4. CASE Leaves(f, counter)
  <2> DEFINE R == {LoopResult(f, counter, rc) : rc \in Rc(h)}
  <2>1. Completes(h, counter, R) /\ reserved' = reserved
    BY <1>4 DEF LoadReserved
  <2>2. /\ func' \in [Harts -> Funcs \cup {NoFunc}]
        /\ insn' \in [Harts -> {"lr", "sc", "again"}]
        /\ insn'[h] = "lr"
        /\ \A g \in Harts \ {h} : func'[g] = func[g] /\ insn'[g] = insn[g]
    BY <2>1, CompletesKeeps
  <2>3. AtomicTypes'
    BY <1>2, <1>3, <2>2 DEF AtomicInv, AtomicTypes
  <2>4. LoopsInv' /\ ReservedInv'
    BY <1>1, <1>2, <1>3, <2>1, <2>2 DEF AtomicInv, LoopsInv, ReservedInv
  <2>5. Rc(h) = {1} \/ Rc(h) = {0, 1}
    BY DEF Rc
  <2>6. AsPromised(f, counter, counter, R)
    BY <1>1, <1>4, <2>5, LeavingAsPromised
  <2>7. /\ last'.func = f /\ last'.old = counter /\ last'.new = counter
        /\ last'.results = R
    BY <2>1 DEF Completes
  <2> HIDE DEF f, R
  <2>8. AtomicAsPromised'
    BY <2>6, <2>7 DEF AtomicAsPromised, AsPromised
  <2> QED BY <2>3, <2>4, <2>8 DEF AtomicInv
<1>5. CASE ~Leaves(f, counter)
  <2>1. /\ insn' = [insn EXCEPT ![h] = "sc"]
        /\ reserved' = reserved \cup {h}
        /\ UNCHANGED <<func, last>>
    BY <1>5 DEF LoadReserved
  <2>2. /\ insn' \in [Harts -> {"lr", "sc", "again"}] /\ insn'[h] = "sc"
        /\ \A g \in Harts \ {h} : insn'[g] = insn[g]
    BY <2>1 DEF AtomicInv, AtomicTypes
  <2>3. AtomicTypes'
    BY <1>2, <1>3, <2>1, <2>2 DEF AtomicInv, AtomicTypes
  <2>4. LoopsInv' /\ ReservedInv'
    BY <1>1, <1>2, <1>3, <1>5, <2>1, <2>2 DEF AtomicInv, LoopsInv, ReservedInv
  <2>5. AtomicAsPromised'
    BY <2>1 DEF AtomicInv, AtomicAsPromised
  <2> QED BY <2>3, <2>4, <2>5 DEF AtomicInv
<1> QED BY <1>4, <1>5

LEMMA StoreConditionalKeeps ==
  ASSUME AtomicInv, NEW h \in Harts, StoreConditional(h)
  PROVE  AtomicInv'
<1> DEFINE f == func[h]
<1>1. /\ f.op \in LoopOps /\ ~Leaves(f, counter) /\ prev[h] = counter
  BY DEF StoreConditional, AtomicInv, LoopsInv
<1>2. f \in Funcs /\ counter \in Word
  BY <1>1, InCall DEF AtomicInv, AtomicTypes
<1>3. /\ counter' = Stores(f, counter, counter) /\ reserved' = {}
      /\ Completes(h, counter', {LoopResult(f, counter, 0)})
      /\ prev' = prev
  BY <1>1 DEF StoreConditional
<1>4. /\ func' \in [Harts -> Funcs \cup {NoFunc}]
      /\ insn' \in [Harts -> {"lr", "sc", "again"}]
      /\ insn'[h] = "lr"
      /\ \A g \in Harts \ {h} : func'[g] = func[g] /\ insn'[g] = insn[g]
  BY <1>3, CompletesKeeps
<1>5. /\ AsPromised(f, counter, counter', {LoopResult(f, counter, 0)})
      /\ counter' \in Word
  BY <1>1, <1>2, <1>3, StoringAsPromised
<1>6. AtomicTypes'
  BY <1>3, <1>4, <1>5 DEF AtomicInv, AtomicTypes
<1>7. LoopsInv' /\ ReservedInv'
  BY <1>3, <1>4 DEF AtomicInv, LoopsInv, ReservedInv
<1>8. /\ last'.func = f /\ last'.old = counter /\ last'.new = counter'
      /\ last'.results = {LoopResult(f, counter, 0)}
  BY <1>3 DEF Completes
<1> HIDE DEF f
<1>9. AtomicAsPromised'
  BY <1>5, <1>8 DEF AtomicAsPromised, AsPromised
<1> QED BY <1>6, <1>7, <1>9 DEF AtomicInv

LEMMA ScFailsKeeps ==
  ASSUME AtomicInv, NEW h \in Harts, ScFails(h)
  PROVE  AtomicInv'
<1>1. /\ insn' = [insn EXCEPT ![h] = "again"] /\ reserved' = reserved \ {h}
      /\ UNCHANGED <<counter, func, prev, last>>
  BY DEF ScFails
<1>2. /\ insn' \in [Harts -> {"lr", "sc", "again"}] /\ insn'[h] = "again"
      /\ \A g \in Harts \ {h} : insn'[g] = insn[g]
  BY <1>1 DEF AtomicInv, AtomicTypes
<1>3. AtomicTypes'
  BY <1>1, <1>2 DEF AtomicInv, AtomicTypes
<1>4. LoopsInv' /\ ReservedInv'
  BY <1>1, <1>2 DEF AtomicInv, LoopsInv, ReservedInv
<1>5. AtomicAsPromised'
  BY <1>1 DEF AtomicInv, AtomicAsPromised
<1> QED BY <1>3, <1>4, <1>5 DEF AtomicInv

\* Every call of an atomic operation takes effect at one instant, as the comment
\* above it says, whatever the other harts do in the meantime: an AMO, and an
\* lr/sc loop, of include/asm/atomic.h, atomic64.h, bitops.h and cmpxchg.h.
\* The exceptions are those that AtomicAsPromised names.
THEOREM AtomicCorrect == AtomicSpec => []AtomicAsPromised
<1>1. AtomicInit \/ AtomicOff => AtomicInv
  BY AtomicInitInv
<1>2. AtomicInv /\ [AtomicNext]_atomicVars => AtomicInv'
  <2> SUFFICES ASSUME AtomicInv, [AtomicNext]_atomicVars PROVE AtomicInv'
    OBVIOUS
  <2>1. CASE AtomicNext
    BY <2>1, CallFuncKeeps, ExecuteAmoKeeps, LoadReservedKeeps,
       StoreConditionalKeeps, ScFailsKeeps DEF AtomicNext
  <2>2. CASE UNCHANGED atomicVars
    BY <2>2 DEF atomicVars, AtomicInv, AtomicTypes, LoopsInv, ReservedInv, AtomicAsPromised
  <2> QED BY <2>1, <2>2
<1>3. AtomicInv => AtomicAsPromised
  BY DEF AtomicInv
<1> QED BY <1>1, <1>2, <1>3, PTL DEF AtomicSpec

-----------------------------------------------------------------------------
\* The frame buffer.

UintSize == Pow2[UintBits]

\* The virtual width is 2^e, the lines asked for passed the test for enough
\* memory at that width, and there are as many virtual lines as fit.
HasWidth(e) ==
    /\ var.xv = Pow2[e]
    /\ Shl(asked, e + ilog2(var.bpp) - 3) <= VIDEOMEM_SIZE
    /\ var.yv = VIDEOMEM_SIZE \div Pow2[By(e + ilog2(var.bpp) - 3)]

Modes == [bpp : {4, 8, 16, 32}, xres : Nat, yres : Nat, xv : Nat, yv : Nat, xo : Nat, yo : Nat]
Registers == [enable : BOOLEAN, base : Nat, width : Nat, height : Nat, bpl : Nat]

ModeRight ==
    /\ var \in Modes
    /\ \E e \in 0..UintBits - 1 : HasWidth(e)
    /\ asked \in 0..UintSize - 1 /\ var.yres <= asked
    /\ var.xo <= Uint(var.xv - var.xres) /\ var.yo <= Uint(var.yv - var.yres)
    /\ line_length = Bpl(var)
    /\ cr.width = var.xres /\ cr.height = var.yres /\ cr.bpl = Bpl(var)

Scanning == {"register_framebuffer", "ready", "pan"}
Before   == {"off", "init", "probe", "framebuffer_alloc", "set_mode"}

FbInv ==
    /\ stage \in Before \cup Scanning \cup {"failed"}
    /\ cr \in Registers /\ ilog2(panned) \in Int
    /\ stage \in Scanning => cr.enable
    /\ stage \in Before => cr = Off
    /\ stage \in {"framebuffer_alloc", "set_mode"} => memory = "held"
    /\ IF cr.enable
       THEN /\ memory = "held" /\ ModeRight
            /\ stage # "pan" => cr.base = PanBase(var.xo, var.yo, panned)
       ELSE cr = Off

\* The sizes: video memory is 2^m bytes, a quarter of the numbers at most.
LEMMA Sizes ==
  /\ UintBits \in Nat /\ UintBits >= 8 /\ UintSize \in Nat \ {0}
  /\ \E m \in 0..UintBits - 2 : VIDEOMEM_SIZE = Pow2[m]
  /\ VIDEOMEM_SIZE \in Nat \ {0} /\ 4 * VIDEOMEM_SIZE <= UintSize
<1>1. UintBits \in Nat /\ UintBits >= 8 /\ UintSize \in Nat \ {0}
  BY FrameBufferAssumption, Pow2Type DEF UintSize
<1>2. PICK m \in 0..UintBits - 2 : VIDEOMEM_SIZE = Pow2[m]
  BY FrameBufferAssumption
<1>3. m \in Nat /\ m + 1 \in Nat /\ m + 1 < UintBits
  BY <1>1, <1>2
<1>4. 2 * Pow2[m + 1] <= UintSize /\ Pow2[m + 1] = 2 * Pow2[m] /\ Pow2[m] \in Nat \ {0}
  BY <1>1, <1>3, Pow2Less, Pow2Values, Pow2Type DEF UintSize
<1>5. 4 * Pow2[m] <= UintSize
  BY <1>1, <1>4
<1> QED BY <1>1, <1>2, <1>4, <1>5

LEMMA UintFacts ==
  /\ \A n \in Int : Uint(n) \in 0..UintSize - 1
  /\ \A n \in 0..UintSize - 1 : Uint(n) = n
  BY Sizes, ModRange, ModSmall DEF Uint, UintSize

LEMMA ByFacts ==
  /\ \A n \in Int : By(n) \in 0..UintBits - 1
  /\ \A n \in 0..UintBits - 1 : By(n) = n
  /\ By(-1) = UintBits - 1
  /\ \A n \in Int : By(UintBits + n) = By(n)
<1> DEFINE U == UintBits
<1>1. U \in Nat \ {0}
  BY Sizes
<1> HIDE DEF U
<1>2. \A n \in Int : n % U \in 0..U - 1
  BY <1>1, ModRange
<1>3. \A n \in 0..U - 1 : n % U = n
  BY <1>1, ModSmall
<1>4. (-1) % U = U - 1
  <2>1. -1 = (-1) * U + (U - 1) /\ U - 1 \in 0..U - 1
    BY <1>1
  <2> QED BY <1>1, <2>1, LowHalf
<1>5. ASSUME NEW n \in Int PROVE (U + n) % U = n % U
  <2>1. n = (n \div U) * U + (n % U) /\ n \div U \in Int
    BY <1>1
  <2> DEFINE q == n \div U  r == n % U
  <2>2. q \in Int /\ r \in 0..U - 1 /\ n = q * U + r
    BY <1>2, <2>1
  <2> HIDE DEF q, r
  <2>3. (q + 1) * U = q * U + U
    BY <1>1, <2>2
  <2>4. U + n = (q + 1) * U + r
    BY <1>1, <2>2, <2>3
  <2>5. ((q + 1) * U + r) % U = r
    BY <1>1, <2>2, LowHalf
  <2> QED BY <2>4, <2>5 DEF r
<1> QED BY <1>2, <1>3, <1>4, <1>5 DEF By, U

LEMMA ShlType ==
  ASSUME NEW n \in Nat, NEW by \in Int
  PROVE  Shl(n, by) \in 0..UintSize - 1 /\ (n = 0 => Shl(n, by) = 0)
<1>1. By(by) \in Nat
  BY ByFacts, Sizes
<1>2. n * Pow2[By(by)] \in Int /\ (n = 0 => n * Pow2[By(by)] = 0)
  BY <1>1, Pow2Type
<1>3. 0 \in 0..UintSize - 1
  BY Sizes
<1> QED BY <1>2, <1>3, UintFacts DEF Shl

LEMMA Log2Is ==
  ASSUME NEW k \in 0..UintBits, NEW n \in Nat, Pow2[k] <= n, n < Pow2[k + 1]
  PROVE  ilog2(n) = k
<1>1. UintBits \in Nat /\ k \in Nat /\ Pow2[k] \in Nat \ {0} /\ n # 0
  BY Sizes, Pow2Type
<1>2. ASSUME NEW j \in 0..UintBits, Pow2[j] <= n, n < Pow2[j + 1] PROVE j = k
  <2>1. j \in Nat /\ j + 1 \in Nat /\ k + 1 \in Nat
    BY <1>1
  <2>2. /\ Pow2[j] \in Nat /\ Pow2[j + 1] \in Nat
        /\ Pow2[k] \in Nat /\ Pow2[k + 1] \in Nat
    BY <1>1, <2>1, Pow2Type
  <2>3. ~(Pow2[j + 1] <= Pow2[k]) /\ ~(Pow2[k + 1] <= Pow2[j])
    BY <2>2, <1>2
  <2>4. ~(j + 1 <= k) /\ ~(k + 1 <= j)
    BY <1>1, <2>1, <2>3, Pow2Order
  <2> QED BY <1>1, <2>1, <2>4
<1> QED BY <1>1, <1>2 DEF ilog2

LEMMA Log2Type == \A n \in 0..UintSize - 1 : ilog2(n) \in -1..UintBits - 1
<1> SUFFICES ASSUME NEW n \in 0..UintSize - 1 PROVE ilog2(n) \in -1..UintBits - 1
  OBVIOUS
<1>1. UintBits \in Nat /\ UintBits >= 8
  BY Sizes
<1>2. CASE n = 0
  BY <1>1, <1>2 DEF ilog2
<1>3. CASE n # 0
  <2>1. n \in Nat \ {0} /\ n < Pow2[UintBits]
    BY <1>3, Sizes DEF UintSize
  <2>2. PICK k \in 0..UintBits - 1 : Pow2[k] <= n /\ n < Pow2[k + 1]
    BY <1>1, <2>1, BetweenPowers
  <2>3. ilog2(n) = k
    BY <1>1, <2>1, <2>2, Log2Is
  <2> QED BY <1>1, <2>2, <2>3
<1> QED BY <1>2, <1>3

LEMMA Log2Pow2 == \A k \in 0..UintBits : ilog2(Pow2[k]) = k
<1> SUFFICES ASSUME NEW k \in 0..UintBits PROVE ilog2(Pow2[k]) = k
  OBVIOUS
<1>1. k \in Nat /\ Pow2[k] \in Nat \ {0} /\ Pow2[k + 1] = 2 * Pow2[k]
  BY Sizes, Pow2Type, Pow2Values
<1>2. Pow2[k] <= Pow2[k] /\ Pow2[k] < Pow2[k + 1]
  BY <1>1
<1> QED BY <1>1, <1>2, Log2Is

LEMMA DepthLogs ==
  /\ ilog2(4) = 2 /\ ilog2(8) = 3 /\ ilog2(16) = 4 /\ ilog2(32) = 5
  /\ Pow2[0] = 1 /\ Pow2[1] = 2 /\ Pow2[2] = 4 /\ Pow2[3] = 8 /\ Pow2[4] = 16 /\ Pow2[5] = 32
<1>1. Pow2[0] = 1
  BY Pow2Values
<1>2. Pow2[0 + 1] = 2
  BY <1>1, Pow2Values
<1>3. Pow2[1 + 1] = 4
  BY <1>2, Pow2Values
<1>4. Pow2[2 + 1] = 8
  BY <1>3, Pow2Values
<1>5. Pow2[3 + 1] = 16
  BY <1>4, Pow2Values
<1>6. Pow2[4 + 1] = 32
  BY <1>5, Pow2Values
<1>7. 2 \in 0..UintBits /\ 3 \in 0..UintBits /\ 4 \in 0..UintBits /\ 5 \in 0..UintBits
  BY Sizes
<1> QED BY <1>1, <1>2, <1>3, <1>4, <1>5, <1>6, <1>7, Log2Pow2

\* The logarithm of a width rounded up to a power of 2.
LEMMA Log2Width ==
  /\ \A xv \in 0..UintSize - 1 : log2xres(xv) \in 0..UintBits
  /\ \A e \in 0..UintBits - 1 : log2xres(Pow2[e]) = e
<1>1. ilog2(0) = -1
  BY DEF ilog2
<1>2. ASSUME NEW xv \in 0..UintSize - 1 PROVE log2xres(xv) \in 0..UintBits
  <2>1. Uint(xv - 1) \in 0..UintSize - 1 /\ UintBits \in Nat
    BY Sizes, UintFacts
  <2>2. ilog2(Uint(xv - 1)) \in -1..UintBits - 1
    BY <2>1, Log2Type
  <2> QED BY <2>1, <2>2 DEF log2xres
<1>3. ASSUME NEW e \in 0..UintBits - 1 PROVE log2xres(Pow2[e]) = e
  <2>1. e \in Nat /\ UintBits \in Nat /\ Pow2[e] \in Nat \ {0} /\ Pow2[e] < UintSize
    BY Sizes, Pow2Type, Pow2Less DEF UintSize
  <2>2. Uint(Pow2[e] - 1) = Pow2[e] - 1
    BY <2>1, UintFacts, Sizes
  <2>3. CASE e = 0
    BY <1>1, <2>2, <2>3, DepthLogs DEF log2xres
  <2>4. CASE e # 0
    <3>1. e - 1 \in 0..UintBits /\ e - 1 \in Nat /\ (e - 1) + 1 = e
      BY <2>1, <2>4
    <3>2. Pow2[e] = 2 * Pow2[e - 1] /\ Pow2[e - 1] \in Nat \ {0}
      BY <3>1, Pow2Values, Pow2Type
    <3>3. Pow2[e] - 1 \in Nat /\ Pow2[e - 1] <= Pow2[e] - 1 /\ Pow2[e] - 1 < Pow2[(e - 1) + 1]
      BY <3>1, <3>2
    <3>4. ilog2(Pow2[e] - 1) = e - 1
      BY <3>1, <3>3, Log2Is
    <3> QED BY <2>1, <2>2, <3>4 DEF log2xres
  <2> QED BY <2>3, <2>4
<1> QED BY <1>2, <1>3

\* What the test for enough memory has accepted, and what it was given.
Fits(yres, xv, depth) ==
    /\ xv \in 0..UintSize - 1 /\ yres \in 0..UintSize - 1
    /\ depth \in {4, 8, 16, 32} /\ EnoughMemory(yres, xv, depth)

LEMMA DepthLog ==
  ASSUME NEW bpp \in {4, 8, 16, 32}
  PROVE  ilog2(bpp) \in 2..5 /\ bpp = Pow2[ilog2(bpp)]
  BY DepthLogs

\* The width that iris_check_var makes of one, and its logarithm.
LEMMA WidthMade ==
  ASSUME NEW xres \in Nat, NEW yres, NEW xv, NEW depth, Fits(yres, xv, depth)
  PROVE  LET v == CheckVar(xres, yres, xv, depth)
             e == By(log2xres(xv))
         IN  /\ e \in 0..UintBits - 1 /\ v.xv = Pow2[e]
             /\ By(log2bpl(xv, depth)) = By(e + ilog2(depth) - 3)
             /\ Shl(yres, e + ilog2(depth) - 3) <= VIDEOMEM_SIZE
             /\ v.yv = VIDEOMEM_SIZE \div Pow2[By(e + ilog2(depth) - 3)]
<1> DEFINE g == log2xres(xv)
           e == By(g)
           d == ilog2(depth)
<1>1. /\ g \in 0..UintBits /\ d \in 2..5 /\ UintBits \in Nat /\ UintBits >= 8
      /\ yres \in Nat
  BY Log2Width, DepthLog, Sizes DEF Fits
<1>2. e \in 0..UintBits - 1
  BY <1>1, ByFacts
<1>3. By(g + d - 3) = By(e + d - 3)
  <2> HIDE DEF g, d
  <2>1. CASE g = UintBits
    <3>1. e = 0
      <4>1. By(UintBits + 0) = By(0) /\ By(0) = 0
        BY <1>1, ByFacts
      <4> QED BY <4>1, <2>1, <1>1
    <3>2. d - 3 \in Int /\ g + d - 3 = UintBits + (d - 3) /\ e + d - 3 = d - 3
      BY <1>1, <2>1, <3>1
    <3> QED BY <3>2, ByFacts
  <2>2. CASE g # UintBits
    <3>1. e = g
      BY <1>1, <2>2, ByFacts
    <3> QED BY <3>1
  <2> QED BY <2>1, <2>2
<1>4. Shl(1, g) = Pow2[e]
  <2>1. Pow2[e] \in Nat /\ Pow2[e] < UintSize
    BY <1>1, <1>2, Pow2Type, Pow2Less DEF UintSize
  <2>2. Uint(Pow2[e]) = Pow2[e]
    BY <2>1, Sizes, UintFacts
  <2>3. 1 * Pow2[e] = Pow2[e]
    BY <2>1
  <2> QED BY <2>2, <2>3 DEF Shl
<1>5. Shl(yres, e + d - 3) <= VIDEOMEM_SIZE
  <2>1. Shl(yres, g + d - 3) <= VIDEOMEM_SIZE
    BY DEF Fits, EnoughMemory, log2bpl
  <2> QED BY <2>1, <1>3 DEF Shl
<1> QED BY <1>2, <1>3, <1>4, <1>5 DEF CheckVar, log2bpl

LEMMA PanBaseType ==
  ASSUME var \in Modes, line_length = Bpl(var), NEW xo \in Nat, NEW yo \in Nat, NEW bpp,
         ilog2(bpp) \in Int
  PROVE  PanBase(xo, yo, bpp) \in Nat
<1>1. var.xv \in Nat /\ ilog2(var.bpp) - 3 \in Int /\ ilog2(bpp) - 3 \in Int
  BY DepthLog DEF Modes
<1>2. line_length \in 0..UintSize - 1
  BY <1>1, ShlType DEF Bpl
<1>3. ilog2(line_length) \in Int
  BY <1>2, Log2Type, Sizes
<1>4. /\ Shl(yo, ilog2(line_length)) \in 0..UintSize - 1
      /\ Shl(xo, ilog2(bpp) - 3) \in 0..UintSize - 1
  BY <1>1, <1>3, ShlType
<1> QED BY <1>4, UintFacts, Sizes DEF PanBase

\* A mode that passed the test for enough memory is a right one, and its base
\* is the start of the memory.
LEMMA SetParRight ==
  ASSUME FbInv, NEW xres \in Nat, NEW yres, NEW xv, NEW depth, Fits(yres, xv, depth),
         SetPar(CheckVar(xres, yres, xv, depth)), asked' = yres, panned' = panned
  PROVE  ModeRight' /\ PanBase(var.xo, var.yo, panned)' = 0 /\ cr' \in Registers /\ cr'.enable /\ cr'.base = cr.base
<1> DEFINE e == By(log2xres(xv))
           d == ilog2(depth)
           v == CheckVar(xres, yres, xv, depth)
<1>1. /\ yres \in 0..UintSize - 1 /\ depth \in {4, 8, 16, 32} /\ yres \in Nat
      /\ UintSize \in Nat \ {0} /\ MaxX \in Nat /\ MaxY \in Nat /\ VIDEOMEM_SIZE \in Nat
      /\ d \in 2..5 /\ UintBits \in Nat
  BY Sizes, FrameBufferAssumption, DepthLog DEF Fits
<1>2. /\ var' = v /\ v.bpp = depth
      /\ v.xres = Min2(xres, MaxX) /\ v.yres = Min2(yres, MaxY) /\ v.xo = 0 /\ v.yo = 0
  BY DEF SetPar, CheckVar
<1>3. /\ e \in 0..UintBits - 1 /\ v.xv = Pow2[e]
      /\ Shl(yres, e + d - 3) <= VIDEOMEM_SIZE
      /\ v.yv = VIDEOMEM_SIZE \div Pow2[By(e + d - 3)]
  BY WidthMade
<1> HIDE DEF e, d, v
<1>4. HasWidth(e)'
  BY <1>2, <1>3 DEF HasWidth, d
<1>5. v.xres \in Nat /\ v.yres \in Nat /\ v.yres <= yres
  BY <1>1, <1>2 DEF Min2
<1>6. v.xv \in Nat /\ v.yv \in Nat
  <2>1. e \in Nat /\ By(e + d - 3) \in Nat
    BY <1>1, <1>3, ByFacts
  <2>2. Pow2[By(e + d - 3)] \in Nat \ {0} /\ Pow2[e] \in Nat
    BY <2>1, Pow2Type
  <2>3. \A p \in Nat \ {0} : VIDEOMEM_SIZE \div p \in Nat
    BY <1>1
  <2> QED BY <1>3, <2>2, <2>3
<1>7. v \in Modes
  <2>1. v = [bpp |-> v.bpp, xres |-> v.xres, yres |-> v.yres,
             xv |-> v.xv, yv |-> v.yv, xo |-> v.xo, yo |-> v.yo]
    BY DEF v, CheckVar
  <2> QED BY <2>1, <1>1, <1>2, <1>5, <1>6 DEF Modes
<1>8. Bpl(v) \in 0..UintSize - 1 /\ Bpl(v) \in Nat
  <2>1. ilog2(v.bpp) = d
    BY <1>2 DEF d
  <2>2. ilog2(v.bpp) - 3 \in Int
    BY <1>1, <2>1
  <2>3. Bpl(v) \in 0..UintSize - 1
    BY <1>6, <2>2, ShlType DEF Bpl
  <2> QED BY <1>1, <2>3
<1>9. /\ cr' \in Registers /\ cr'.base = cr.base /\ cr'.enable
      /\ cr'.width = v.xres /\ cr'.height = v.yres /\ cr'.bpl = Bpl(v)
      /\ line_length' = Bpl(v)
  <2>1. cr' = [cr EXCEPT !.enable = TRUE, !.width = v.xres, !.height = v.yres, !.bpl = Bpl(v)]
        /\ line_length' = Bpl(v)
    BY DEF SetPar, v
  <2> QED BY <2>1, <1>5, <1>8 DEF FbInv, Registers
<1>10. 0 <= Uint(v.xv - v.xres) /\ 0 <= Uint(v.yv - v.yres)
  <2>1. v.xv - v.xres \in Int /\ v.yv - v.yres \in Int
    BY <1>5, <1>6
  <2> QED BY <2>1, UintFacts, Sizes
<1>11. PanBase(var.xo, var.yo, panned)' = 0
  <2>1. ilog2(line_length') \in Int /\ ilog2(panned) - 3 \in Int
    BY <1>1, <1>2, <1>8, <1>9, Log2Type DEF d, FbInv
  <2>2. Shl(0, ilog2(line_length')) = 0 /\ Shl(0, ilog2(panned) - 3) = 0
    BY <2>1, ShlType
  <2>3. Uint(0 + 0) = 0
    BY Sizes, UintFacts
  <2>4. PanBase(var.xo, var.yo, panned)'
          = Uint(Shl(0, ilog2(line_length')) + Shl(0, ilog2(panned) - 3))
    BY <1>2 DEF PanBase
  <2> QED BY <2>2, <2>3, <2>4
<1>12. ModeRight'
  BY <1>1, <1>2, <1>3, <1>4, <1>5, <1>7, <1>9, <1>10 DEF ModeRight
<1> QED BY <1>9, <1>11, <1>12

LEMMA ProductOrder ==
  ASSUME NEW n \in Nat, NEW a \in Nat, NEW b \in Nat, a <= b
  PROVE  n * a <= n * b /\ n * a \in Nat
<1>1. n * (b - a) >= 0 /\ n * (b - a) = n * b - n * a /\ n * a \in Nat /\ n * b \in Nat
  OBVIOUS
<1> QED BY <1>1

\* The first mode passes the test that the probe does not look at.
LEMMA FirstModeFits == Fits(MaxY, MaxX \div 2, 16)
<1> DEFINE w == MaxX \div 2
           g == log2xres(w)
           U == UintBits
<1>1. PICK k \in 0..UintBits - 2 : w <= Pow2[k] /\ MaxY * Pow2[k + 1] <= VIDEOMEM_SIZE
  BY FrameBufferAssumption
<1>2. /\ U \in Nat /\ U >= 8 /\ k \in Nat /\ k + 1 \in 0..U - 1 /\ k < U
      /\ MaxY \in Nat /\ w \in Nat /\ UintSize \in Nat \ {0}
      /\ VIDEOMEM_SIZE \in Nat \ {0} /\ 4 * VIDEOMEM_SIZE <= UintSize
  BY <1>1, Sizes, FrameBufferAssumption
<1>3. Pow2[k] \in Nat \ {0} /\ Pow2[k] < UintSize /\ Pow2[k + 1] \in Nat \ {0}
  BY <1>2, Pow2Type, Pow2Less DEF UintSize
<1> HIDE DEF w
<1>4. w \in 0..UintSize - 1
  BY <1>1, <1>2, <1>3
<1>5. MaxY \in 0..UintSize - 1
  <2>1. MaxY * 1 <= MaxY * Pow2[k + 1] /\ MaxY * 1 = MaxY /\ MaxY * Pow2[k + 1] \in Nat
    BY <1>2, <1>3, ProductOrder
  <2> QED BY <1>1, <1>2, <2>1
<1>6. By(g + 1) \in 0..k + 1
  <2>1. CASE w = 0
    <3>1. U - 1 \in Nat /\ (U - 1) + 1 = U /\ U - 1 \in 0..UintBits
      BY <1>2
    <3>2. UintSize = 2 * Pow2[U - 1] /\ Pow2[U - 1] \in Nat \ {0}
      BY <3>1, Pow2Values, Pow2Type DEF UintSize
    <3>3. /\ UintSize - 1 \in Nat /\ Pow2[U - 1] <= UintSize - 1
          /\ UintSize - 1 < Pow2[(U - 1) + 1]
      BY <3>1, <3>2 DEF UintSize
    <3>4. ilog2(UintSize - 1) = U - 1
      BY <3>1, <3>3, Log2Is
    <3>5. Uint(0 - 1) = UintSize - 1
      <4>1. -1 = (-1) * UintSize + (UintSize - 1) /\ UintSize - 1 \in 0..UintSize - 1
        BY <1>2
      <4>2. (-1) % UintSize = UintSize - 1
        BY <1>2, <4>1, LowHalf
      <4> QED BY <4>2 DEF Uint, UintSize
    <3>6. g = U
      BY <1>2, <2>1, <3>4, <3>5 DEF log2xres
    <3>7. By(UintBits + 1) = By(1) /\ By(1) = 1
      BY <1>2, ByFacts
    <3> QED BY <1>2, <3>6, <3>7
  <2>2. CASE w # 0
    <3> DEFINE n == w - 1
    <3>1. n \in 0..UintSize - 1 /\ n < Pow2[k] /\ Uint(n) = n
      BY <1>1, <1>2, <1>3, <1>4, <2>2, UintFacts
    <3> HIDE DEF n
    <3>2. ilog2(n) \in -1..k - 1
      <4>1. CASE n = 0
        BY <4>1, <1>2 DEF ilog2
      <4>2. CASE n # 0
        <5>1. n \in Nat \ {0}
          BY <3>1, <4>2, <1>2
        <5>2. PICK j \in 0..k - 1 : Pow2[j] <= n /\ n < Pow2[j + 1]
          BY <1>2, <3>1, <5>1, BetweenPowers
        <5>3. j \in 0..UintBits
          BY <1>2
        <5>4. ilog2(n) = j
          BY <5>1, <5>2, <5>3, Log2Is
        <5> QED BY <5>4, <1>2
      <4> QED BY <4>1, <4>2
    <3>3. g \in 0..k
      BY <1>2, <3>1, <3>2 DEF log2xres, n
    <3>4. g + 1 \in 0..UintBits - 1
      BY <1>2, <3>3
    <3> QED BY <1>2, <3>3, <3>4, ByFacts
  <2> QED BY <2>1, <2>2
<1>7. EnoughMemory(MaxY, w, 16)
  <2> DEFINE b == By(g + 1)
  <2>1. b \in Nat /\ b <= k + 1
    BY <1>2, <1>6
  <2> HIDE DEF b
  <2>2. Pow2[b] \in Nat /\ Pow2[b] <= Pow2[k + 1]
    BY <1>2, <2>1, Pow2Type, Pow2Order
  <2>3. MaxY * Pow2[b] <= MaxY * Pow2[k + 1] /\ MaxY * Pow2[b] \in Nat
    BY <1>2, <1>3, <2>2, ProductOrder
  <2>4. MaxY * Pow2[b] \in 0..UintSize - 1 /\ MaxY * Pow2[b] <= VIDEOMEM_SIZE
    <3> DEFINE s == MaxY * Pow2[b]  t == MaxY * Pow2[k + 1]
    <3>1. s \in Nat /\ s <= t /\ t <= VIDEOMEM_SIZE /\ t \in Nat
      BY <1>1, <2>3, <1>2, <1>3, ProductOrder
    <3> HIDE DEF s, t
    <3>2. s \in 0..UintSize - 1 /\ s <= VIDEOMEM_SIZE
      BY <3>1, <1>2
    <3> QED BY <3>2 DEF s
  <2>5. Uint(MaxY * Pow2[b]) <= VIDEOMEM_SIZE
    BY <2>4, UintFacts
  <2>6. log2bpl(w, 16) = g + 1
    <3>1. g \in Int
      BY <1>4, Log2Width
    <3> QED BY <3>1, DepthLogs DEF log2bpl
  <2> QED BY <2>5, <2>6 DEF EnoughMemory, Shl, b
<1> QED BY <1>4, <1>5, <1>7 DEF Fits, w

LEMMA FbStart == FbInit \/ FbOff => FbInv
<1>1. Off \in Registers /\ ~Off.enable
  BY DEF Off, Registers
<1>2. ilog2(0) \in Int
  BY DEF ilog2
<1> QED BY <1>1, <1>2 DEF FbInit, FbOff, FbInv, Before, Scanning

\* What the driver and the fb core do before and between modes.
LEMMA FbStep == FbInv /\ [FbNext]_fbVars => FbInv'
<1> SUFFICES ASSUME FbInv, [FbNext]_fbVars PROVE FbInv'
  OBVIOUS
<1>1. CASE Load
  BY <1>1 DEF Load, FbInv, Off, Before, Scanning, ModeRight, HasWidth, PanBase
<1>2. CASE GetFreePages
  BY <1>2 DEF GetFreePages, FbInv, Off, Before, Scanning
<1>3. CASE FramebufferAlloc
  <2>1. cr = Off /\ ~cr.enable
    BY <1>3 DEF FramebufferAlloc, FbInv, Before, Off
  <2> QED BY <1>3, <2>1 DEF FramebufferAlloc, FbInv, Before, Scanning
<1>4. CASE RegisterFramebuffer
  <2>1. ModeRight' = ModeRight /\ PanBase(var.xo, var.yo, panned)' = PanBase(var.xo, var.yo, panned)
    BY <1>4 DEF RegisterFramebuffer, ModeRight, HasWidth, PanBase
  <2> QED BY <1>4, <2>1 DEF RegisterFramebuffer, FbInv, Before, Scanning
<1>5. CASE FirstMode
  <2>1. MaxX \div 2 \in Nat
    BY FrameBufferAssumption
  <2>2. /\ ModeRight' /\ PanBase(var.xo, var.yo, panned)' = 0
        /\ cr' \in Registers /\ cr'.enable /\ cr'.base = cr.base
    BY <1>5, <2>1, FirstModeFits, SetParRight DEF FirstMode
  <2>3. cr.base = 0 /\ memory = "held"
    BY <1>5 DEF FirstMode, FbInv, Before, Off
  <2> QED BY <1>5, <2>2, <2>3 DEF FirstMode, FbInv, Before, Scanning
<1>6. CASE SetMode
  <2>1. PICK xres \in Xs, xv \in Xs, yres \in Ys, d \in Depths, bpp \in Depths :
          LET wide  == IF xv < xres THEN xres ELSE xv
              depth == Depth(d, bpp)
          IN  /\ Accepted(yres, wide, depth)
              /\ SetPar(CheckVar(xres, yres, wide, depth))
              /\ asked' = yres
    BY <1>6 DEF SetMode
  <2> DEFINE wide == IF xv < xres THEN xres ELSE xv
             depth == Depth(d, bpp)
  <2>2. xres \in Nat /\ Fits(yres, wide, depth)
    <3>1. Xs \subseteq 0..UintSize - 1 /\ Ys \subseteq 0..UintSize - 1
      BY FrameBufferAssumption DEF UintSize
    <3>2. xres \in 0..UintSize - 1 /\ wide \in 0..UintSize - 1 /\ yres \in 0..UintSize - 1
      BY <3>1
    <3> HIDE DEF wide, depth
    <3>3. xres \in Nat
      BY <3>2, Sizes
    <3> QED BY <2>1, <3>2, <3>3 DEF Accepted, Fits, wide, depth
  <2> HIDE DEF wide, depth
  <2>3. SetPar(CheckVar(xres, yres, wide, depth)) /\ asked' = yres /\ panned' = panned
    BY <1>6, <2>1 DEF SetMode, wide, depth
  <2>4. ModeRight' /\ cr' \in Registers /\ cr'.enable
    BY <2>2, <2>3, SetParRight
  <2>5. memory = "held" /\ memory' = memory /\ stage' = "pan"
    BY <1>6 DEF SetMode, FbInv, Scanning
  <2> QED BY <2>3, <2>4, <2>5 DEF FbInv, Before, Scanning
<1>7. CASE PanDisplay
  <2>1. cr.enable /\ memory = "held" /\ ModeRight /\ cr \in Registers
    BY <1>7 DEF PanDisplay, FbInv, Scanning
  <2>2. var.xo \in Nat /\ var.yo \in Nat /\ ilog2(var.bpp) \in Int
    BY <2>1, DepthLog DEF ModeRight, Modes
  <2>3. PanBase(var.xo, var.yo, var.bpp) \in Nat
    BY <2>1, <2>2, PanBaseType DEF ModeRight
  <2>4. /\ cr' \in Registers /\ cr'.enable /\ cr'.base = PanBase(var.xo, var.yo, var.bpp)
        /\ cr'.width = cr.width /\ cr'.height = cr.height /\ cr'.bpl = cr.bpl
    BY <1>7, <2>1, <2>3 DEF PanDisplay, Registers
  <2>5. cr'.base = PanBase(var.xo, var.yo, panned)' /\ ilog2(panned') \in Int
    BY <1>7, <2>2, <2>4 DEF PanDisplay, PanBase
  <2>6. ModeRight'
    BY <1>7, <2>1, <2>4 DEF PanDisplay, ModeRight, HasWidth
  <2> QED BY <1>7, <2>1, <2>4, <2>5, <2>6 DEF PanDisplay, FbInv, Before, Scanning
<1>8. CASE \E xo \in XOffsets, yo \in YOffsets, bpp \in Depths : Pan(xo, yo, bpp)
  <2>1. PICK xo \in XOffsets, yo \in YOffsets, bpp \in Depths : Pan(xo, yo, bpp)
    BY <1>8
  <2>2. cr.enable /\ memory = "held" /\ ModeRight /\ cr \in Registers
    BY <2>1 DEF Pan, FbInv, Scanning
  <2>3. xo \in Nat /\ yo \in Nat
    BY FrameBufferAssumption, Sizes DEF XOffsets, YOffsets, UintSize
  <2>4. xo <= Uint(var.xv - var.xres) /\ yo <= Uint(var.yv - var.yres)
    BY DEF XOffsets, YOffsets
  <2>5. /\ var' \in Modes /\ var'.bpp = var.bpp /\ var'.xres = var.xres /\ var'.yres = var.yres
        /\ var'.xv = var.xv /\ var'.yv = var.yv /\ var'.xo = xo /\ var'.yo = yo
    BY <2>1, <2>2, <2>3 DEF Pan, ModeRight, Modes
  <2>6. ilog2(bpp) \in Int
    <3>1. bpp \in 0..UintSize - 1
      BY FrameBufferAssumption DEF UintSize
    <3>2. ilog2(bpp) \in -1..UintBits - 1
      BY <3>1, Log2Type
    <3> QED BY <3>2, Sizes
  <2>7. PanBase(xo, yo, bpp) \in Nat
    BY <2>2, <2>3, <2>6, PanBaseType DEF ModeRight
  <2>8. /\ cr' \in Registers /\ cr'.enable /\ cr'.base = PanBase(xo, yo, bpp)
        /\ cr'.width = cr.width /\ cr'.height = cr.height /\ cr'.bpl = cr.bpl
    BY <2>1, <2>2, <2>7 DEF Pan, Registers
  <2>9. cr'.base = PanBase(var.xo, var.yo, panned)' /\ ilog2(panned') \in Int
    BY <2>1, <2>5, <2>6, <2>8 DEF Pan, PanBase
  <2>10. ModeRight'
    <3>1. Bpl(var)' = Bpl(var)
      BY <2>5 DEF Bpl
    <3>2. \A e : HasWidth(e)' <=> HasWidth(e)
      BY <2>1, <2>5 DEF Pan, HasWidth
    <3>3. \E e \in 0..UintBits - 1 : HasWidth(e)'
      BY <2>2, <3>2 DEF ModeRight
    <3>4. UNCHANGED <<line_length, asked>>
      BY <2>1 DEF Pan
    <3> QED BY <2>2, <2>4, <2>5, <2>8, <3>1, <3>3, <3>4 DEF ModeRight
  <2> QED BY <2>1, <2>2, <2>8, <2>9, <2>10 DEF Pan, FbInv, Before, Scanning
<1>9. CASE UNCHANGED fbVars
  <2>1. ModeRight' = ModeRight /\ PanBase(var.xo, var.yo, panned)' = PanBase(var.xo, var.yo, panned)
    BY <1>9 DEF fbVars, ModeRight, HasWidth, PanBase
  <2> QED BY <1>9, <2>1 DEF fbVars, FbInv
<1> QED BY <1>1, <1>2, <1>3, <1>4, <1>5, <1>6, <1>7, <1>8, <1>9 DEF FbNext

\* A mode that is none of the exceptions, by the logarithm of its width.
ScansRight == cr.base >= 0 /\ ScanEnd <= VIDEOMEM_SIZE

\* Modes of whole bytes: a line takes 2^k bytes, 2^b of them for a pixel.
LEMMA WholeBytes ==
  ASSUME ModeRight, cr.base = PanBase(var.xo, var.yo, panned), ilog2(panned) \in Int,
         cr.height > 0, ~Narrow, ~Wrapped, ~Misplaced,
         NEW e \in 0..UintBits - 1, HasWidth(e), var.bpp # 4
  PROVE  ScansRight
<1> DEFINE d == ilog2(var.bpp)
           b == d - 3
           k == e + d - 3
           q == Pow2[b]
           p == Pow2[k]
           w == Pow2[e]
<1>1. /\ UintBits \in Nat /\ UintBits >= 8 /\ UintSize \in Nat \ {0} /\ e \in Nat
      /\ VIDEOMEM_SIZE \in Nat \ {0} /\ 4 * VIDEOMEM_SIZE <= UintSize
  BY Sizes
<1>2. var \in Modes /\ asked \in 0..UintSize - 1 /\ asked \in Nat /\ var.yres <= asked
  BY <1>1 DEF ModeRight
<1>3. d \in 3..5 /\ var.bpp = 8 * Pow2[d - 3] /\ b \in 0..2
  <2>1. 3 - 3 = 0 /\ 4 - 3 = 1 /\ 5 - 3 = 2
    OBVIOUS
  <2>2. var.bpp \in {8, 16, 32}
    BY <1>2 DEF Modes
  <2> QED BY <2>1, <2>2, DepthLogs
<1>4. /\ cr.width = var.xres /\ cr.height = var.yres /\ cr.bpl = Bpl(var)
      /\ line_length = Bpl(var)
      /\ var.xo <= Uint(var.xv - var.xres) /\ var.yo <= Uint(var.yv - var.yres)
  BY DEF ModeRight
<1>5. var.xv = w /\ var.yv = VIDEOMEM_SIZE \div Pow2[By(k)] /\ Shl(asked, k) <= VIDEOMEM_SIZE
  BY DEF HasWidth
<1>6. LineShift = k
  BY <1>5, Log2Width DEF LineShift, log2bpl
<1> HIDE DEF d
<1>7. k \in Nat /\ b \in Nat /\ k = e + b
  BY <1>1, <1>3
<1> HIDE DEF k, b
<1>8. q \in Nat \ {0} /\ p \in Nat \ {0} /\ w \in Nat \ {0} /\ p = w * q
  BY <1>1, <1>7, Pow2Type, Pow2Sum
<1> HIDE DEF q, w
<1>9. asked * p < UintSize
  <2>1. ~(asked * Pow2[k] >= UintSize)
    BY <1>6, <1>7 DEF Wrapped, UintSize
  <2>2. asked * Pow2[k] \in Nat
    BY <1>2, <1>8
  <2> QED BY <1>1, <2>1, <2>2
<1>10. asked >= 1 /\ var.yres >= 1
  BY <1>2, <1>4 DEF Modes
<1>11. p <= asked * p /\ asked * p \in Nat
  <2> HIDE DEF p
  <2>1. p * 1 <= p * asked /\ p * asked = asked * p /\ p * asked \in Nat
    BY <1>2, <1>8, <1>10, ProductOrder
  <2> QED BY <1>8, <2>1
<1>12. k \in 0..UintBits - 1
  <2>1. Pow2[k] < Pow2[UintBits] /\ Pow2[UintBits] \in Nat
    BY <1>1, <1>8, <1>9, <1>11 DEF UintSize
  <2>2. ~(UintBits <= k)
    BY <1>1, <1>7, <1>8, <2>1, Pow2Order
  <2> QED BY <1>1, <1>7, <2>2
<1>13. By(k) = k
  BY <1>12, ByFacts
<1>14. asked * p <= VIDEOMEM_SIZE /\ var.yv = VIDEOMEM_SIZE \div p
  <2>1. asked * p \in 0..UintSize - 1
    BY <1>1, <1>9, <1>11
  <2> QED BY <1>5, <1>13, <2>1, UintFacts DEF Shl
\* Video memory is yv lines.
<1>15. var.yv * p <= VIDEOMEM_SIZE /\ asked <= var.yv /\ var.yv \in Nat
  <2> DEFINE v == VIDEOMEM_SIZE
             y == v \div p
  <2> HIDE DEF p, v
  <2>1. v \in Nat /\ p \in Nat \ {0} /\ asked * p <= v
    BY <1>1, <1>8, <1>14 DEF v
  <2>2. v \div p \in Nat
    BY <2>1
  <2>3. v = p * (v \div p) + (v % p) /\ v % p \in 0..p - 1
    BY <2>1
  <2> HIDE DEF y
  <2>4. PICK r \in 0..p - 1 : v = p * y + r /\ y \in Nat
    BY <2>2, <2>3 DEF y
  <2>5. y * p = p * y /\ p * y \in Nat
    BY <2>1, <2>4
  <2>6. asked <= y
    <3> SUFFICES ASSUME y + 1 <= asked PROVE FALSE
      BY <1>2, <2>4
    <3>1. p * (y + 1) <= p * asked /\ p * (y + 1) = p * y + p /\ p * asked = asked * p
      BY <1>2, <2>1, <2>4, ProductOrder
    <3>2. p * asked \in Nat
      BY <1>2, <2>1
    <3> QED BY <3>1, <3>2, <2>1, <2>4, <2>5
  <2>7. var.yv = y
    BY <1>14 DEF y, v
  <2> QED BY <2>1, <2>4, <2>5, <2>6, <2>7 DEF v
<1> HIDE DEF p
\* What the mode shows lies within the virtual lines and their width.
<1>16. var.xo + var.xres <= w /\ var.yo + var.yres <= var.yv
  <2>1. w < UintSize
    <3>1. w * 1 <= w * q /\ w * 1 = w
      BY <1>8, ProductOrder
    <3> QED BY <1>1, <1>8, <1>9, <1>11, <3>1
  <2>2. var.xres <= w
    BY <1>2, <1>5, <1>8 DEF Narrow, Modes
  <2>3. var.xv - var.xres \in 0..UintSize - 1
    BY <1>1, <1>2, <1>5, <1>8, <2>1, <2>2 DEF Modes
  <2>4. var.yv < UintSize
    <3>1. var.yv * 1 <= var.yv * p /\ var.yv * 1 = var.yv /\ var.yv * p \in Nat
      BY <1>8, <1>15, ProductOrder
    <3> QED BY <1>1, <1>15, <3>1
  <2>5. var.yv - var.yres \in 0..UintSize - 1
    BY <1>1, <1>2, <1>15, <2>4 DEF Modes
  <2>6. var.xo <= w - var.xres /\ var.yo <= var.yv - var.yres
    BY <1>4, <1>5, <2>3, <2>5, UintFacts
  <2> QED BY <1>2, <1>8, <1>15, <2>6 DEF Modes
\* The registers.
<1>17. Bpl(var) = p
  <2>1. w * q \in 0..UintSize - 1
    BY <1>1, <1>8, <1>9, <1>11
  <2>2. By(b) = b
    BY <1>1, <1>3, ByFacts
  <2> QED BY <1>5, <1>8, <2>1, <2>2, UintFacts DEF Bpl, Shl, b, q, d
<1>18. ilog2(line_length) = k
  <2>1. k \in 0..UintBits
    BY <1>1, <1>12
  <2> QED BY <1>4, <1>17, <2>1, Log2Pow2 DEF p
<1> DEFINE X == var.xo  Y == var.yo  W == var.xres  H == var.yres  L == var.yv
<1>19. X \in Nat /\ Y \in Nat /\ W \in Nat /\ H \in Nat /\ L \in Nat /\ H >= 1
  BY <1>2, <1>10, <1>15 DEF Modes
<1>20. /\ X + W <= w /\ Y + H <= L /\ L * p <= VIDEOMEM_SIZE
  BY <1>15, <1>16
<1> HIDE DEF X, Y, W, H, L
<1>21. /\ (X + W) * q <= p /\ (X + W) * q = X * q + W * q
       /\ X * q \in Nat /\ W * q \in Nat
  <2>1. q * (X + W) <= q * w /\ q * w = p /\ q * (X + W) = (X + W) * q
    BY <1>8, <1>19, <1>20, ProductOrder
  <2> QED BY <1>8, <1>19, <2>1
<1>22. /\ (Y + H) * p <= L * p /\ (Y + H) * p = Y * p + H * p
       /\ Y * p \in Nat /\ H * p \in Nat /\ L * p \in Nat /\ H * p >= p
  <2>1. p * (Y + H) <= p * L /\ p * (Y + H) = (Y + H) * p /\ p * L = L * p
    BY <1>8, <1>19, <1>20, ProductOrder
  <2>2. p * 1 <= p * H /\ p * 1 = p /\ p * H = H * p
    BY <1>8, <1>19, ProductOrder
  <2> QED BY <1>8, <1>19, <2>1, <2>2
<1>23. Y * p + X * q + (H - 1) * p + W * q <= VIDEOMEM_SIZE
  <2>1. (H - 1) * p = H * p - p
    BY <1>8, <1>19
  <2> QED BY <1>1, <1>8, <1>20, <1>21, <1>22, <2>1
\* A pan of fewer bits per pixel goes less far to the right.
<1> DEFINE c == ilog2(panned) - 3
<1>24. Shl(X, c) \in 0..X * q
  <2>1. CASE X = 0
    <3>1. Shl(X, c) = 0 BY <1>19, <2>1, ShlType
    <3> QED BY <1>21, <3>1
  <2>2. CASE X # 0
    <3>1. c \in 0..b BY <1>3, <2>2 DEF Misplaced, X, b, d
    <3> HIDE DEF c
    <3>2. c \in Nat /\ By(c) = c /\ c <= b
      <4>1. c \in 0..UintBits - 1 BY <1>1, <1>3, <3>1
      <4> QED BY <1>7, <3>1, <4>1, ByFacts
    <3>3. Pow2[c] <= q /\ Pow2[c] \in Nat
      BY <1>7, <3>2, Pow2Order, Pow2Type DEF q
    <3>4. Pow2[c] * X <= q * X /\ Pow2[c] * X = X * Pow2[c] /\ q * X = X * q
          /\ X * Pow2[c] \in Nat
      <4>1. X * Pow2[c] <= X * q /\ X * Pow2[c] \in Nat
        BY <1>8, <1>19, <3>3, ProductOrder
      <4> QED BY <1>8, <1>19, <3>3, <4>1
    <3>5. X * Pow2[c] \in 0..UintSize - 1
      BY <1>1, <1>8, <1>9, <1>11, <1>19, <1>21, <3>4
    <3>6. Shl(X, c) = X * Pow2[c] BY <3>2, <3>5, UintFacts DEF Shl
    <3> QED BY <1>21, <3>4, <3>6
  <2> QED BY <2>1, <2>2
<1>25. cr.base \in Y * p..Y * p + X * q
  <2>1. /\ Y * p \in 0..UintSize - 1
        /\ Y * p + X * q \in 0..UintSize - 1
    BY <1>1, <1>8, <1>9, <1>11, <1>14, <1>20, <1>21, <1>22
  <2>2. Shl(Y, ilog2(line_length)) = Y * p
    BY <1>13, <1>18, <2>1, UintFacts DEF Shl, p
  <2> DEFINE far == Shl(X, c)
  <2>3. cr.base = Uint(Y * p + far)
    BY <2>2 DEF PanBase, X, Y, c
  <2>4. far \in 0..X * q
    BY <1>24
  <2> HIDE DEF far
  <2>5. Y * p + far \in 0..UintSize - 1 /\ Y * p + far \in Y * p..Y * p + X * q
    BY <1>1, <1>21, <1>22, <2>1, <2>4
  <2> QED BY <2>3, <2>5, UintFacts
<1>26. (cr.width * var.bpp + 7) \div 8 = W * q
  <2>1. cr.width * var.bpp = W * (8 * q)
    BY <1>3, <1>4 DEF W, q, b
  <2> DEFINE n == W * q
  <2>2. W * (8 * q) = 8 * n /\ n \in Nat
    BY <1>8, <1>19, <1>21
  <2> HIDE DEF n
  <2>3. (8 * n + 7) \div 8 = n
    BY <2>2
  <2> QED BY <2>1, <2>2, <2>3 DEF n
<1>27. ScanEnd = cr.base + (H - 1) * p + W * q
  BY <1>4, <1>17, <1>26 DEF ScanEnd, H
<1>28. (H - 1) * p \in Int
  BY <1>8, <1>19
<1>29. cr.base >= 0 /\ ScanEnd <= VIDEOMEM_SIZE
  BY <1>1, <1>21, <1>22, <1>23, <1>25, <1>27, <1>28
<1> QED BY <1>29 DEF ScansRight

\* Modes of half bytes, whose shifts are by -1 and whose offsets are 0.
LEMMA HalfBytes ==
  ASSUME ModeRight, cr.base = PanBase(var.xo, var.yo, panned), ilog2(panned) \in Int,
         cr.height > 0, ~Narrow, ~Wrapped, NEW e \in 0..UintBits - 1, HasWidth(e), var.bpp = 4, var.xo = 0, var.yo = 0
  PROVE  ScansRight
<1> DEFINE w == Pow2[e]
           s == By(e - 1)
<1>1. /\ UintBits \in Nat /\ UintBits >= 8 /\ UintSize \in Nat \ {0} /\ e \in Nat
      /\ VIDEOMEM_SIZE \in Nat \ {0} /\ 4 * VIDEOMEM_SIZE <= UintSize
  BY Sizes
<1>2. var \in Modes /\ asked \in 0..UintSize - 1 /\ asked \in Nat /\ var.yres <= asked
  BY <1>1 DEF ModeRight
<1>3. /\ cr.width = var.xres /\ cr.height = var.yres /\ cr.bpl = Bpl(var)
      /\ line_length = Bpl(var)
  BY DEF ModeRight
<1>4. ilog2(var.bpp) = 2 /\ ilog2(var.bpp) - 3 = -1 /\ e + ilog2(var.bpp) - 3 = e - 1
  BY <1>1, DepthLogs
<1>5. var.xv = w /\ Shl(asked, e - 1) <= VIDEOMEM_SIZE
  BY <1>4 DEF HasWidth
<1>6. LineShift = e - 1
  BY <1>1, <1>4, <1>5, Log2Width DEF LineShift, log2bpl
<1>7. (IF LineShift < 0 THEN LineShift + UintBits ELSE LineShift) = s
  <2>1. CASE e = 0
    BY <1>1, <1>6, <2>1, ByFacts
  <2>2. CASE e # 0
    <3>1. e - 1 \in 0..UintBits - 1
      BY <1>1, <2>2
    <3> QED BY <1>1, <1>6, <3>1, ByFacts
  <2> QED BY <2>1, <2>2
<1>8. asked >= 1 /\ var.yres >= 1 /\ var.xres \in Nat /\ var.xres <= w
  BY <1>1, <1>2, <1>3, <1>5, Pow2Type DEF Modes, Narrow
<1>9. s \in Nat /\ Pow2[s] \in Nat \ {0}
  BY <1>1, ByFacts, Pow2Type
<1>10. asked * Pow2[s] <= VIDEOMEM_SIZE
  <2>1. asked * Pow2[s] \in Nat
    BY <1>2, <1>9
  <2>2. ~(asked * Pow2[s] >= UintSize)
    BY <1>7 DEF Wrapped, UintSize
  <2>3. asked * Pow2[s] \in 0..UintSize - 1
    BY <1>1, <2>1, <2>2
  <2> QED BY <1>5, <2>3, UintFacts DEF Shl
<1>11. Pow2[s] <= VIDEOMEM_SIZE
  <2> DEFINE p == Pow2[s]
  <2> HIDE DEF p
  <2>1. p * 1 <= p * asked /\ p * 1 = p /\ p * asked = asked * p /\ asked * p \in Nat
    BY <1>2, <1>8, <1>9, ProductOrder DEF p
  <2> QED BY <1>1, <1>9, <1>10, <2>1 DEF p
\* A width of 1 would have to fit 2^(UintBits - 1) bytes.
<1>12. e # 0
  <2> SUFFICES ASSUME e = 0 PROVE FALSE
    OBVIOUS
  <2>1. s = UintBits - 1
    BY <1>1, ByFacts
  <2>2. UintBits - 1 \in Nat /\ (UintBits - 1) + 1 = UintBits
    BY <1>1
  <2>3. UintSize = 2 * Pow2[UintBits - 1]
    BY <2>2, Pow2Values DEF UintSize
  <2> HIDE DEF s
  <2> QED BY <1>1, <1>9, <1>11, <2>1, <2>3
<1>13. e - 1 \in Nat /\ (e - 1) + 1 = e /\ s = e - 1
  <2>1. e - 1 \in 0..UintBits - 1
    BY <1>1, <1>12
  <2> QED BY <1>1, <2>1, ByFacts
<1>14. w = 2 * Pow2[s]
  BY <1>13, Pow2Values
<1>15. Bpl(var) = 0
  <2>1. By(-1) = UintBits - 1
    BY ByFacts
  <2>2. UintBits - 1 \in Nat /\ e - 1 \in Nat /\ e + (UintBits - 1) = (e - 1) + UintBits
    BY <1>1, <1>13
  <2>3. Pow2[e] * Pow2[UintBits - 1] = Pow2[e - 1] * UintSize
    BY <1>1, <2>2, Pow2Sum DEF UintSize
  <2>4. (Pow2[e - 1] * UintSize) % UintSize = 0
    <3> DEFINE p == Pow2[e - 1]
    <3>1. p \in Nat /\ UintSize * p = p * UintSize
      BY <1>1, <2>2, Pow2Type
    <3> HIDE DEF p
    <3>2. (UintSize * p) % UintSize = 0
      BY <1>1, <3>1, IsMultiple
    <3> QED BY <3>1, <3>2 DEF p
  <2> QED BY <1>4, <1>5, <2>1, <2>3, <2>4 DEF Bpl, Shl, Uint, UintSize
<1>16. cr.base = 0
  <2>1. ilog2(line_length) \in Int
    BY <1>1, <1>3, <1>15, Log2Type
  <2>2. Shl(0, ilog2(line_length)) = 0 /\ Shl(0, ilog2(panned) - 3) = 0
    BY <2>1, ShlType
  <2>3. Uint(0 + 0) = 0
    BY <1>1, UintFacts
  <2> QED BY <2>2, <2>3 DEF PanBase
<1>17. (cr.width * var.bpp + 7) \div 8 <= Pow2[s]
  <2> DEFINE p == Pow2[s]  x == var.xres
  <2>1. p \in Nat \ {0} /\ x \in Nat /\ x <= 2 * p
    BY <1>8, <1>9, <1>14
  <2> HIDE DEF p, x
  <2>2. (x * 4 + 7) \div 8 <= p
    BY <2>1
  <2> QED BY <1>3, <2>2 DEF p, x
<1>18. ScanEnd <= Pow2[s] /\ ScanEnd \in Int
  <2> DEFINE h == (cr.width * var.bpp + 7) \div 8
  <2>1. (cr.height - 1) * 0 = 0
    BY <1>2, <1>3 DEF Modes
  <2>2. h \in Int
    <3>1. cr.width * var.bpp + 7 \in Int
      BY <1>3, <1>8
    <3> QED BY <3>1
  <2>3. ScanEnd = 0 + 0 + h
    BY <1>3, <1>15, <1>16, <2>1 DEF ScanEnd
  <2> HIDE DEF h
  <2>4. ScanEnd = h
    BY <2>2, <2>3
  <2> QED BY <1>17, <2>2, <2>4 DEF h
<1> QED BY <1>1, <1>9, <1>11, <1>16, <1>18 DEF ScansRight

LEMMA ScanRight == FbInv => ScansVideoMemory
<1> SUFFICES ASSUME FbInv, cr.enable, cr.height > 0, ~Wrapped, ~Narrow, stage # "pan",
                    ~(var.bpp = 4 /\ <<var.xo, var.yo>> # <<0, 0>>), ~Misplaced
             PROVE  memory = "held" /\ ScansRight
  BY DEF FbInv, ScansVideoMemory, ScansRight
<1>1. /\ memory = "held" /\ ModeRight /\ ilog2(panned) \in Int
      /\ cr.base = PanBase(var.xo, var.yo, panned)
  BY DEF FbInv
<1>2. PICK e \in 0..UintBits - 1 : HasWidth(e)
  BY <1>1 DEF ModeRight
<1>3. CASE var.bpp = 4
  BY <1>1, <1>2, <1>3, HalfBytes
<1>4. CASE var.bpp # 4
  BY <1>1, <1>2, <1>4, WholeBytes
<1> QED BY <1>1, <1>3, <1>4

\* The video controller reads the video memory and nothing else but in the
\* modes that ScansVideoMemory excepts.
THEOREM ScanCorrect == FbSpec => []ScansVideoMemory
<1>1. FbInv /\ [FbNext]_fbVars => FbInv'
  BY FbStep
<1> QED BY <1>1, FbStart, ScanRight, PTL DEF FbSpec

-----------------------------------------------------------------------------
\* The configuration string.

ConfigInv == config \in Seq(STRING) /\ \A i \in DOMAIN config : config[i] # Eos

LEMMA ConfigStart == ConfigInit \/ ConfigOff => ConfigInv
<1>1. <<>> \in Seq(STRING) /\ DOMAIN <<>> = {}
  OBVIOUS
<1> QED BY <1>1 DEF ConfigInit, ConfigOff, ConfigInv

LEMMA ConfigStep == ConfigInv /\ [Grow]_configVars => ConfigInv'
<1> SUFFICES ASSUME ConfigInv, [Grow]_configVars PROVE ConfigInv'
  OBVIOUS
<1>1. CASE Grow
  <2>1. PICK f \in Fragments : config' = config \o f
    BY <1>1 DEF Grow
  <2>2. f \in Seq(STRING) /\ \A i \in DOMAIN f : f[i] # Eos
    BY FragmentsAssumption
  <2>3. config' \in Seq(STRING)
    BY <2>1, <2>2 DEF ConfigInv
  <2>4. ASSUME NEW i \in DOMAIN config' PROVE config'[i] # Eos
    <3>1. CASE i <= Len(config)
      BY <2>1, <2>2, <2>4, <3>1 DEF ConfigInv
    <3>2. CASE i > Len(config)
      <4>1. i - Len(config) \in DOMAIN f /\ config'[i] = f[i - Len(config)]
        BY <2>1, <2>2, <2>4, <3>2 DEF ConfigInv
      <4> QED BY <4>1, <2>2
    <3> QED BY <3>1, <3>2, <2>3, <2>4
  <2> QED BY <2>3, <2>4 DEF ConfigInv
<1>2. CASE UNCHANGED configVars
  BY <1>2 DEF ConfigInv, configVars
<1> QED BY <1>1, <1>2

\* What a parser's state is made of.
Tokens == STRING \cup {Eos, ""}
Paths == Seq(Tokens)
Numbers == {Value(t) : t \in Tokens}
Resources == [name : Paths, start : Numbers, end : Numbers]
Devices == [name : Paths, resources : Seq(Resources), override : Tokens,
            start : Nat, end : Nat, at : Paths]
BlockStates == [root : Nat, flags : BOOLEAN, at : Paths, parent : Paths, target : Nat,
           key : Tokens, stage : {"item", "first", "rest"}]
Values == [path : Paths, pos : Nat]
States == [pos : Nat, root : Nat, roots : SUBSET Nat, devices : Seq(Devices),
           names : Seq(Paths), key : Tokens, crash : BOOLEAN, seen : Seq(Values),
           blocks : Seq(BlockStates)]

LEMMA AtType == ConfigInv => \A p \in Nat \ {0} : At(p) \in Tokens /\ (At(p) = Eos <=> p > Len(config))
<1> SUFFICES ASSUME ConfigInv, NEW p \in Nat \ {0}
             PROVE  At(p) \in Tokens /\ (At(p) = Eos <=> p > Len(config))
  OBVIOUS
<1>1. Eos \in Tokens
  BY DEF Tokens
<1>2. Len(config) \in Nat /\ DOMAIN config = 1..Len(config)
  BY DEF ConfigInv
<1>3. CASE p <= Len(config)
  <2>1. At(p) = config[p] /\ p \in DOMAIN config
    BY <1>2, <1>3 DEF At
  <2>2. config[p] \in Tokens
    BY <1>2, <2>1, ElementOfSeq DEF ConfigInv, Tokens
  <2>3. config[p] # Eos
    BY <2>1 DEF ConfigInv
  <2> QED BY <1>2, <1>3, <2>1, <2>2, <2>3
<1>4. CASE ~(p <= Len(config))
  BY <1>1, <1>2, <1>4 DEF At, ConfigInv
<1> QED BY <1>3, <1>4

\* A sequence with one element changed.
LEMMA SeqChange ==
  ASSUME NEW S, NEW s \in Seq(S), NEW i, NEW x, i \in 1..Len(s) => x \in S
  PROVE  LET r == [s EXCEPT ![i] = x]
         IN  /\ r \in Seq(S) /\ Len(r) = Len(s)
             /\ i \in 1..Len(s) => r[i] = x
             /\ \A j \in 1..Len(s) : j # i => r[j] = s[j]
<1>1. CASE i \in 1..Len(s)
  BY <1>1, ExceptSeq
<1>2. CASE i \notin 1..Len(s)
  <2>1. DOMAIN s = 1..Len(s) /\ s = [j \in DOMAIN s |-> s[j]]
    BY LenProperties
  <2>2. [s EXCEPT ![i] = x] = s
    BY <1>2, <2>1
  <2> QED BY <1>2, <2>2
<1> QED BY <1>1, <1>2

LEMMA LastFront ==
  ASSUME NEW S, NEW s \in Seq(S), s # <<>>
  PROVE  /\ Last(s) = s[Len(s)] /\ Last(s) \in S /\ Len(s) \in Nat \ {0}
         /\ Front(s) \in Seq(S) /\ Len(Front(s)) = Len(s) - 1
         /\ \A j \in 1..Len(s) - 1 : Front(s)[j] = s[j]
<1>1. Len(s) \in Nat \ {0} /\ \A j \in 1..Len(s) : s[j] \in S
  BY EmptySeq, ElementOfSeq
<1>2. Last(s) = s[Len(s)] /\ Last(s) \in S
  BY <1>1 DEF Last
<1>3. PICK n \in Nat : Len(s) = n + 1
  BY <1>1
<1>4. Front(s) = SubSeq(s, 1, n) /\ 1 \in Int /\ n \in Int
  BY <1>3 DEF Front
<1>5. \A j \in 1..n : s[j] \in S
  BY <1>1, <1>3
<1>6. /\ Front(s) \in Seq(S)
      /\ Len(Front(s)) = IF 1 <= n THEN n - 1 + 1 ELSE 0
      /\ \A j \in 1..n - 1 + 1 : Front(s)[j] = s[1 + j - 1]
  BY <1>4, <1>5, SubSeqProperties
<1>7. Len(Front(s)) = n
  BY <1>6
<1>8. \A j \in 1..n : Front(s)[j] = s[j]
  BY <1>6
<1> QED BY <1>1, <1>2, <1>3, <1>6, <1>7, <1>8

\* The innermost call goes on with b.
LEMMA InnerIs ==
  ASSUME NEW st \in States, st.blocks # <<>>
  PROVE  /\ Inner(st) \in BlockStates /\ Len(st.blocks) \in Nat \ {0}
         /\ Inner(st) = st.blocks[Len(st.blocks)]
<1>1. st.blocks \in Seq(BlockStates)
  BY DEF States
<1> QED BY <1>1, LastFront DEF Inner

LEMMA WithInnerIs ==
  ASSUME NEW st \in States, st.blocks # <<>>, NEW b \in BlockStates
  PROVE  /\ WithInner(st.blocks, b) \in Seq(BlockStates)
         /\ Len(WithInner(st.blocks, b)) = Len(st.blocks)
         /\ WithInner(st.blocks, b)[Len(st.blocks)] = b
         /\ \A i \in 1..Len(st.blocks) :
               i # Len(st.blocks) => WithInner(st.blocks, b)[i] = st.blocks[i]
<1>1. st.blocks \in Seq(BlockStates)
  BY DEF States
<1>2. Len(st.blocks) \in 1..Len(st.blocks)
  BY InnerIs
<1> QED BY <1>1, <1>2, SeqChange DEF WithInner

\* The parser s is the parser st, but for names and resources.
Keeps(st, s) ==
    /\ s \in States
    /\ s.pos = st.pos /\ s.root = st.root /\ s.roots = st.roots
    /\ s.key = st.key /\ s.blocks = st.blocks
    /\ Len(s.devices) = Len(st.devices)
    /\ \A i \in 1..Len(st.devices) :
          /\ s.devices[i].start = st.devices[i].start
          /\ s.devices[i].end = st.devices[i].end
          /\ s.devices[i].at = st.devices[i].at

\* One device is changed, and not its window or its place.
LEMMA KeepsChange ==
  ASSUME NEW st \in States, NEW s, NEW i \in Nat, NEW d,
         s = [st EXCEPT !.names = s.names, !.devices = [st.devices EXCEPT ![i] = d],
                        !.crash = s.crash],
         s.names \in Seq(Paths), s.crash \in BOOLEAN,
         i \in 1..Len(st.devices) =>
            /\ d \in Devices
            /\ d.start = st.devices[i].start /\ d.end = st.devices[i].end
            /\ d.at = st.devices[i].at
  PROVE  Keeps(st, s)
<1>1. st.devices \in Seq(Devices)
  BY DEF States
<1> DEFINE r == [st.devices EXCEPT ![i] = d]
<1>2. /\ r \in Seq(Devices) /\ Len(r) = Len(st.devices)
      /\ i \in 1..Len(st.devices) => r[i] = d
      /\ \A j \in 1..Len(st.devices) : j # i => r[j] = st.devices[j]
  BY <1>1, SeqChange
<1>3. s.devices = r
  BY DEF States
<1> HIDE DEF r
<1>4. s \in States
  BY <1>2, <1>3 DEF States
<1>5. /\ s.pos = st.pos /\ s.root = st.root /\ s.roots = st.roots
      /\ s.key = st.key /\ s.blocks = st.blocks
  BY DEF States
<1>6. ASSUME NEW j \in 1..Len(st.devices)
      PROVE  /\ s.devices[j].start = st.devices[j].start
             /\ s.devices[j].end = st.devices[j].end
             /\ s.devices[j].at = st.devices[j].at
  BY <1>2, <1>3
<1> QED BY <1>2, <1>3, <1>4, <1>5, <1>6 DEF Keeps

LEMMA KeepsSame == \A st \in States : Keeps(st, st)
  BY DEF Keeps

LEMMA KeepsTwice ==
  ASSUME NEW st, NEW s, NEW r, Keeps(st, s), Keeps(s, r) PROVE Keeps(st, r)
  BY DEF Keeps

LEMMA InterfaceKeeps ==
  ASSUME NEW st \in States, NEW target \in Nat, NEW t \in Tokens
  PROVE  LET s == ParseInterface(st, target, t) IN Keeps(st, s) /\ s.crash = st.crash
<1> DEFINE s == ParseInterface(st, target, t)
           d == [st.devices[target] EXCEPT !.override = t]
<1>1. /\ st.devices \in Seq(Devices) /\ st.names \in Seq(Paths) /\ st.crash \in BOOLEAN
      /\ <<t>> \in Paths
  BY DEF States, Paths
<1>2. s.names = Append(st.names, <<t>>) /\ s.crash = st.crash
  BY DEF States, ParseInterface
<1>3. s.names \in Seq(Paths)
  BY <1>1, <1>2, AppendProperties
<1>4. CASE target # 0
  <2>1. s = [st EXCEPT !.names = s.names, !.devices = [st.devices EXCEPT ![target] = d],
                       !.crash = s.crash]
    BY <1>2, <1>4 DEF States, ParseInterface
  <2>2. target \in 1..Len(st.devices) =>
            /\ d \in Devices
            /\ d.start = st.devices[target].start /\ d.end = st.devices[target].end
            /\ d.at = st.devices[target].at
    <3>1. target \in 1..Len(st.devices) => st.devices[target] \in Devices
      BY <1>1, ElementOfSeq
    <3> QED BY <3>1 DEF Devices
  <2> HIDE DEF s, d
  <2>3. Keeps(st, s)
    BY <1>1, <1>2, <1>3, <2>1, <2>2, KeepsChange
  <2> QED BY <2>3, <1>2 DEF s
<1>5. CASE target = 0
  <2>1. s = [st EXCEPT !.names = s.names, !.devices = [st.devices EXCEPT ![0] = 0],
                       !.crash = s.crash]
    <3>1. st.devices = [st.devices EXCEPT ![0] = 0]
      BY <1>1
    <3> QED BY <1>2, <1>5, <3>1 DEF States, ParseInterface
  <2>2. 0 \in Nat /\ 0 \notin 1..Len(st.devices)
    BY <1>1
  <2> HIDE DEF s
  <2>3. Keeps(st, s)
    BY <1>1, <1>2, <1>3, <2>1, <2>2, KeepsChange
  <2> QED BY <2>3, <1>2 DEF s
<1> QED BY <1>4, <1>5

LEMMA AddResourceKeeps ==
  ASSUME NEW st \in States, NEW target \in Nat, NEW path \in Paths,
         NEW from \in Numbers, NEW till \in Numbers
  PROVE  LET s == AddResource(st, target, path, from, till)
         IN  Keeps(st, s) /\ s.crash = st.crash
<1> DEFINE s == AddResource(st, target, path, from, till)
           new == [name |-> path, start |-> from, end |-> till]
           d == [st.devices[target] EXCEPT
                    !.resources = Append(st.devices[target].resources, new)]
<1>1. st.devices \in Seq(Devices) /\ st.names \in Seq(Paths) /\ st.crash \in BOOLEAN
  BY DEF States
<1>2. s.names = Append(st.names, path) /\ s.crash = st.crash
  BY DEF States, AddResource
<1>3. s.names \in Seq(Paths)
  BY <1>1, <1>2, AppendProperties
<1>4. s = [st EXCEPT !.names = s.names, !.devices = [st.devices EXCEPT ![target] = d],
                     !.crash = s.crash]
  BY <1>2 DEF States, AddResource
<1>5. ASSUME target \in 1..Len(st.devices)
      PROVE  /\ d \in Devices
             /\ d.start = st.devices[target].start /\ d.end = st.devices[target].end
             /\ d.at = st.devices[target].at
  <2>1. st.devices[target] \in Devices
    BY <1>1, <1>5, ElementOfSeq
  <2>2. new \in Resources
    BY DEF Resources
  <2>3. Append(st.devices[target].resources, new) \in Seq(Resources)
    <3>1. st.devices[target].resources \in Seq(Resources)
      BY <2>1 DEF Devices
    <3> QED BY <2>2, <3>1, AppendProperties
  <2> HIDE DEF new
  <2> QED BY <2>1, <2>3 DEF Devices
<1> HIDE DEF s, d
<1>6. Keeps(st, s)
  <2>1. s.crash \in BOOLEAN
    BY <1>1, <1>2
  <2>2. target \in 1..Len(st.devices) =>
            /\ d \in Devices
            /\ d.start = st.devices[target].start /\ d.end = st.devices[target].end
            /\ d.at = st.devices[target].at
    BY <1>5
  <2>3. \A r : (/\ r = [st EXCEPT !.names = r.names,
                                  !.devices = [st.devices EXCEPT ![target] = d],
                                  !.crash = r.crash]
               /\ r.names \in Seq(Paths) /\ r.crash \in BOOLEAN) => Keeps(st, r)
    BY <2>2, KeepsChange, ZenonT(60)
  <2> QED BY <1>3, <1>4, <2>1, <2>3
<1> QED BY <1>6, <1>2 DEF s

LEMMA ValueType == \A t \in Tokens : Value(t) \in Numbers
  BY DEF Numbers

LEMMA SingleKeeps ==
  ASSUME NEW st \in States, NEW b \in BlockStates, NEW t \in Tokens
  PROVE  LET s == ParseSingle(st, b, t) IN Keeps(st, s) /\ s.crash = st.crash
<1>1. b.target \in Nat /\ b.parent \in Paths /\ Value(t) \in Numbers
  BY ValueType DEF BlockStates
<1>2. LET s == AddResource(st, b.target, b.parent, Value(t), Value(t))
      IN  Keeps(st, s) /\ s.crash = st.crash
  BY <1>1, AddResourceKeeps
<1> QED BY <1>2, KeepsSame DEF ParseSingle

\* parse_range follows its parent for a device only.
LEMMA RangeKeeps ==
  ASSUME NEW st \in States, NEW b \in BlockStates, NEW t \in Tokens
  PROVE  LET s == ParseRange(st, b, t)
         IN  /\ Keeps(st, s)
             /\ s.crash => st.crash \/ (b.parent = <<>> /\ b.target # 0)
<1>1. b.target \in Nat /\ b.parent \in Paths /\ Value(t) \in Numbers
      /\ st.key \in Tokens /\ Value(st.key) \in Numbers
  BY ValueType DEF BlockStates, States
<1>2. CASE ~IsNumber(st.key) \/ ~IsNumber(t) \/ b.target = 0
  BY <1>2, KeepsSame DEF ParseRange
<1>3. CASE IsNumber(st.key) /\ IsNumber(t) /\ b.target # 0 /\ b.parent = <<>>
  <2>1. Keeps(st, [st EXCEPT !.crash = TRUE])
    BY DEF Keeps, States
  <2> QED BY <1>3, <2>1 DEF ParseRange
<1>4. CASE IsNumber(st.key) /\ IsNumber(t) /\ b.target # 0 /\ b.parent # <<>>
  <2>1. Front(b.parent) \in Paths
    BY <1>1, <1>4, LastFront DEF Paths
  <2>2. LET s == AddResource(st, b.target, Front(b.parent), Value(st.key), Value(t))
        IN  Keeps(st, s) /\ s.crash = st.crash
    BY <1>1, <2>1, AddResourceKeeps
  <2> QED BY <1>4, <2>2 DEF ParseRange
<1> QED BY <1>2, <1>3, <1>4

LEMMA ValueKeeps ==
  ASSUME NEW st \in States, NEW b \in BlockStates, NEW t \in Tokens
  PROVE  LET s == ParseValue(st, b, t)
         IN  /\ Keeps(st, s)
             /\ s.crash => st.crash \/ (b.flags /\ b.parent = <<>> /\ b.target # 0)
<1> DEFINE s1 == IF b.stage = "first" /\ b.key = "interface"
                 THEN ParseInterface(st, b.target, t) ELSE st
           s2 == IF b.flags THEN ParseRange(s1, b, t) ELSE s1
<1>1. b.target \in Nat
  BY DEF BlockStates
<1>2. Keeps(st, s1) /\ s1.crash = st.crash
  BY <1>1, InterfaceKeeps, KeepsSame
<1>3. s1 \in States
  BY <1>2 DEF Keeps
<1>4. Keeps(s1, s2) /\ (s2.crash => s1.crash \/ (b.flags /\ b.parent = <<>> /\ b.target # 0))
  <2> HIDE DEF s1
  <2> QED BY <1>3, RangeKeeps, KeepsSame
<1>5. s2 \in States
  BY <1>4 DEF Keeps
<1>6. Keeps(s2, ParseSingle(s2, b, t)) /\ ParseSingle(s2, b, t).crash = s2.crash
  <2> HIDE DEF s2
  <2> QED BY <1>5, SingleKeeps
<1>7. Keeps(st, s2) /\ Keeps(st, ParseSingle(s2, b, t))
  BY <1>2, <1>4, <1>6, KeepsTwice
<1>8. ParseValue(st, b, t) = IF t = Quoted THEN s1
         ELSE IF b.key \in Keywords THEN ParseSingle(s2, b, t) ELSE s2
  BY DEF ParseValue
<1> HIDE DEF s1, s2
<1> QED BY <1>2, <1>4, <1>6, <1>7, <1>8

\* In s the innermost call of st has this key and is at this stage.
GoesTo(st, s, key, next) ==
    /\ s.blocks # <<>> /\ Len(s.blocks) = Len(st.blocks)
    /\ \A i \in 1..Len(st.blocks) :
          /\ s.blocks[i].root = st.blocks[i].root
          /\ s.blocks[i].flags = st.blocks[i].flags
          /\ s.blocks[i].parent = st.blocks[i].parent
          /\ s.blocks[i].target = st.blocks[i].target
          /\ s.blocks[i].key = IF i = Len(st.blocks) THEN key ELSE st.blocks[i].key
          /\ s.blocks[i].stage = IF i = Len(st.blocks) THEN next ELSE st.blocks[i].stage

LEMMA GoesToIs ==
  ASSUME NEW st \in States, st.blocks # <<>>, NEW s, NEW key \in Tokens,
         NEW next \in {"item", "first", "rest"},
         s.blocks = WithInner(st.blocks, [Inner(st) EXCEPT !.key = key, !.stage = next])
  PROVE  GoesTo(st, s, key, next) /\ s.blocks \in Seq(BlockStates)
<1> DEFINE b == [Inner(st) EXCEPT !.key = key, !.stage = next]
<1>1. Inner(st) \in BlockStates /\ Len(st.blocks) \in Nat \ {0} /\ Inner(st) = st.blocks[Len(st.blocks)]
  BY InnerIs
<1>2. b \in BlockStates
  BY <1>1 DEF BlockStates
<1>3. /\ b.root = Inner(st).root /\ b.flags = Inner(st).flags /\ b.parent = Inner(st).parent
      /\ b.target = Inner(st).target /\ b.key = key /\ b.stage = next
  BY <1>1 DEF BlockStates
<1> HIDE DEF b
<1>4. /\ s.blocks \in Seq(BlockStates) /\ Len(s.blocks) = Len(st.blocks)
      /\ s.blocks[Len(st.blocks)] = b
      /\ \A i \in 1..Len(st.blocks) : i # Len(st.blocks) => s.blocks[i] = st.blocks[i]
  <2>1. s.blocks = WithInner(st.blocks, b)
    BY DEF b
  <2> QED BY <1>2, <2>1, WithInnerIs
<1>5. s.blocks # <<>>
  BY <1>1, <1>4
<1>6. ASSUME NEW i \in 1..Len(st.blocks)
      PROVE  /\ s.blocks[i].root = st.blocks[i].root
             /\ s.blocks[i].flags = st.blocks[i].flags
             /\ s.blocks[i].parent = st.blocks[i].parent
             /\ s.blocks[i].target = st.blocks[i].target
             /\ s.blocks[i].key = IF i = Len(st.blocks) THEN key ELSE st.blocks[i].key
             /\ s.blocks[i].stage = IF i = Len(st.blocks) THEN next ELSE st.blocks[i].stage
  BY <1>1, <1>3, <1>4
<1> QED BY <1>4, <1>5, <1>6 DEF GoesTo

LEMMA BeginItemIs ==
  ASSUME NEW st \in States, st.blocks # <<>>, At(st.pos) \in Tokens
  PROVE  LET s == BeginItem(st)
             w == IsWord(At(st.pos))
         IN  /\ s \in States
             /\ s.pos = (IF w THEN st.pos + 1 ELSE st.pos)
             /\ s.root = st.root /\ s.devices = st.devices /\ s.crash = st.crash
             /\ s.key = (IF w THEN At(st.pos) ELSE "")
             /\ s.roots = (IF s.key = "interface" THEN st.roots \cup {Inner(st).root}
                                                  ELSE st.roots)
             /\ GoesTo(st, s, s.key, "first")
<1> DEFINE s == BeginItem(st)
           key == IF IsWord(At(st.pos)) THEN At(st.pos) ELSE ""
<1>1. key \in Tokens
  BY DEF Tokens
<1>2. /\ s.pos = (IF IsWord(At(st.pos)) THEN st.pos + 1 ELSE st.pos)
      /\ s.root = st.root /\ s.devices = st.devices /\ s.crash = st.crash
      /\ s.key = key
      /\ s.roots = (IF key = "interface" THEN st.roots \cup {Inner(st).root} ELSE st.roots)
      /\ s.blocks = WithInner(st.blocks, [Inner(st) EXCEPT !.key = key, !.stage = "first"])
      /\ s.names = st.names /\ s.seen = st.seen
      /\ s = [st EXCEPT !.pos = s.pos, !.key = s.key, !.roots = s.roots, !.blocks = s.blocks]
  BY DEF States, BeginItem
<1> HIDE DEF s, key
<1>3. GoesTo(st, s, key, "first") /\ s.blocks \in Seq(BlockStates)
  BY <1>1, <1>2, GoesToIs, Zenon
<1>4. Inner(st).root \in Nat
  BY InnerIs DEF BlockStates
<1>5. s \in States
  BY <1>1, <1>2, <1>3, <1>4 DEF States
<1> QED BY <1>2, <1>3, <1>5 DEF s, key

LEMMA SeenIs ==
  ASSUME NEW st \in States, st.blocks # <<>>
  PROVE  LET s == Seen(st)
         IN  /\ s \in States
             /\ s.pos = st.pos + 1
             /\ s.root = st.root /\ s.devices = st.devices /\ s.crash = st.crash
             /\ s.key = st.key /\ s.roots = st.roots
             /\ GoesTo(st, s, Inner(st).key, "rest")
<1> DEFINE s == Seen(st)
           v == [path |-> Append(Inner(st).at, Inner(st).key), pos |-> st.pos]
<1>1. Inner(st) \in BlockStates
  BY InnerIs
<1>2. v \in Values
  <2>1. Inner(st).at \in Seq(Tokens) /\ Inner(st).key \in Tokens
    BY <1>1 DEF BlockStates, Paths
  <2>2. Append(Inner(st).at, Inner(st).key) \in Paths
    BY <2>1, AppendProperties DEF Paths
  <2> QED BY <2>2 DEF Values, States
<1>3. [Inner(st) EXCEPT !.stage = "rest"]
         = [Inner(st) EXCEPT !.key = Inner(st).key, !.stage = "rest"]
  BY <1>1 DEF BlockStates
<1>4. /\ s.pos = st.pos + 1
      /\ s.root = st.root /\ s.devices = st.devices /\ s.crash = st.crash
      /\ s.key = st.key /\ s.roots = st.roots
      /\ s.blocks = WithInner(st.blocks, [Inner(st) EXCEPT !.stage = "rest"])
      /\ s.seen = Append(st.seen, v)
      /\ s = [st EXCEPT !.pos = s.pos, !.seen = s.seen, !.blocks = s.blocks]
  BY DEF States, Seen
<1> HIDE DEF s, v
<1>5. GoesTo(st, s, Inner(st).key, "rest") /\ s.blocks \in Seq(BlockStates)
  <2>1. Inner(st).key \in Tokens
    BY <1>1 DEF BlockStates
  <2>2. s.blocks = WithInner(st.blocks, [Inner(st) EXCEPT !.key = Inner(st).key, !.stage = "rest"])
    BY <1>3, <1>4
  <2> QED BY <2>1, <2>2, GoesToIs, Zenon
<1>6. s.seen \in Seq(Values)
  <2>1. st.seen \in Seq(Values)
    BY DEF States
  <2> QED BY <1>2, <1>4, <2>1, AppendProperties
<1>7. s \in States
  <2>1. s.pos \in Nat /\ s.blocks \in Seq(BlockStates)
    BY <1>4, <1>5 DEF States
  <2> QED BY <1>4, <1>6, <2>1 DEF States
<1> QED BY <1>4, <1>5, <1>7 DEF s

LEMMA EndItemIs ==
  ASSUME NEW st \in States, st.blocks # <<>>
  PROVE  LET s == EndItem(st)
             b == Inner(st)
         IN  /\ s \in States
             /\ s.pos = (IF At(st.pos) = Semicolon THEN st.pos + 1 ELSE st.pos)
             /\ s.root = st.root /\ s.crash = st.crash
             /\ s.key = st.key /\ s.roots = st.roots
             /\ GoesTo(st, s, b.key, "item")
             /\ Len(s.devices) = Len(st.devices)
             /\ \A i \in 1..Len(st.devices) :
                   /\ s.devices[i].start = st.devices[i].start
                   /\ s.devices[i].at = st.devices[i].at
                   /\ s.devices[i].end = IF b.root \in st.roots /\ i = b.target
                                         THEN s.pos ELSE st.devices[i].end
<1> DEFINE s == EndItem(st)
           b == Inner(st)
           pos == IF At(st.pos) = Semicolon THEN st.pos + 1 ELSE st.pos
           d == [st.devices[b.target] EXCEPT !.end = pos]
<1>1. Inner(st) \in BlockStates /\ b.target \in Nat
  BY InnerIs DEF BlockStates
<1>2. pos \in Nat
  <2>1. st.pos \in Nat
    BY DEF States
  <2> QED BY <2>1
<1>3. [Inner(st) EXCEPT !.stage = "item"]
         = [Inner(st) EXCEPT !.key = Inner(st).key, !.stage = "item"]
  BY <1>1 DEF BlockStates
<1>4. /\ s.pos = pos
      /\ s.root = st.root /\ s.crash = st.crash
      /\ s.key = st.key /\ s.roots = st.roots
      /\ s.blocks = WithInner(st.blocks, [Inner(st) EXCEPT !.stage = "item"])
      /\ s.devices = IF b.root \in st.roots /\ b.target # 0
                     THEN [st.devices EXCEPT ![b.target] = d] ELSE st.devices
      /\ s = [st EXCEPT !.pos = s.pos, !.devices = s.devices, !.blocks = s.blocks]
  BY DEF States, EndItem
<1>5. st.devices \in Seq(Devices)
  BY DEF States
<1>6. b.target \in 1..Len(st.devices) =>
         d \in Devices /\ d.start = st.devices[b.target].start /\ d.end = pos
         /\ d.at = st.devices[b.target].at
  <2>1. b.target \in 1..Len(st.devices) => st.devices[b.target] \in Devices
    BY <1>5, ElementOfSeq
  <2> HIDE DEF pos
  <2> QED BY <1>2, <2>1 DEF Devices
<1> HIDE DEF s, pos, d
<1>7. GoesTo(st, s, Inner(st).key, "item") /\ s.blocks \in Seq(BlockStates)
  <2>1. Inner(st).key \in Tokens
    BY <1>1 DEF BlockStates
  <2>2. s.blocks = WithInner(st.blocks, [Inner(st) EXCEPT !.key = Inner(st).key, !.stage = "item"])
    BY <1>3, <1>4
  <2> QED BY <2>1, <2>2, GoesToIs, Zenon
<1>8. /\ s.devices \in Seq(Devices)
      /\ Len(s.devices) = Len(st.devices)
      /\ \A i \in 1..Len(st.devices) :
            /\ s.devices[i].start = st.devices[i].start
            /\ s.devices[i].at = st.devices[i].at
            /\ s.devices[i].end = IF b.root \in st.roots /\ i = b.target
                                  THEN pos ELSE st.devices[i].end
  <2> HIDE DEF b
  <2>1. CASE b.root \in st.roots /\ b.target # 0
    <3>1. s.devices = [st.devices EXCEPT ![b.target] = d]
      BY <1>4, <2>1
    <3>2. LET r == [st.devices EXCEPT ![b.target] = d]
          IN  /\ r \in Seq(Devices) /\ Len(r) = Len(st.devices)
              /\ b.target \in 1..Len(st.devices) => r[b.target] = d
              /\ \A j \in 1..Len(st.devices) : j # b.target => r[j] = st.devices[j]
      <4>1. b.target \in 1..Len(st.devices) => d \in Devices
        BY <1>6
      <4>2. \A i, x : (i \in 1..Len(st.devices) => x \in Devices) =>
               LET r == [st.devices EXCEPT ![i] = x]
               IN  /\ r \in Seq(Devices) /\ Len(r) = Len(st.devices)
                   /\ i \in 1..Len(st.devices) => r[i] = x
                   /\ \A j \in 1..Len(st.devices) : j # i => r[j] = st.devices[j]
        <5> SUFFICES ASSUME NEW i, NEW x, i \in 1..Len(st.devices) => x \in Devices
                     PROVE  LET r == [st.devices EXCEPT ![i] = x]
                            IN  /\ r \in Seq(Devices) /\ Len(r) = Len(st.devices)
                                /\ i \in 1..Len(st.devices) => r[i] = x
                                /\ \A j \in 1..Len(st.devices) : j # i => r[j] = st.devices[j]
          OBVIOUS
        <5> QED BY <1>5, SeqChange
      <4> QED BY <4>1, <4>2
    <3> QED BY <1>6, <2>1, <3>1, <3>2
  <2>2. CASE ~(b.root \in st.roots /\ b.target # 0)
    <3>1. s.devices = st.devices
      BY <1>4, <2>2
    <3>2. \A i \in 1..Len(st.devices) : ~(b.root \in st.roots /\ i = b.target)
      BY <1>1, <2>2
    <3> QED BY <1>5, <3>1, <3>2
  <2> QED BY <2>1, <2>2
<1>9. s \in States
  <2>1. s.pos \in Nat /\ s.blocks \in Seq(BlockStates) /\ s.devices \in Seq(Devices)
    BY <1>2, <1>4, <1>7, <1>8
  <2> QED BY <1>4, <2>1 DEF States
<1> QED BY <1>4, <1>7, <1>8, <1>9 DEF s, pos, b

LEMMA CloseBlockIs ==
  ASSUME NEW st \in States, st.blocks # <<>>
  PROVE  LET s == CloseBlock(st)
         IN  /\ s \in States
             /\ s.pos = (IF Len(st.blocks) > 1 /\ At(st.pos) = RBrace THEN st.pos + 1 ELSE st.pos)
             /\ s.root = st.root /\ s.crash = st.crash /\ s.devices = st.devices
             /\ s.key = st.key /\ s.roots = st.roots
             /\ Len(s.blocks) = Len(st.blocks) - 1
             /\ \A i \in 1..Len(s.blocks) : s.blocks[i] = st.blocks[i]
<1> DEFINE s == CloseBlock(st)
<1>1. /\ s.pos = (IF Len(st.blocks) > 1 /\ At(st.pos) = RBrace THEN st.pos + 1 ELSE st.pos)
      /\ s.root = st.root /\ s.crash = st.crash /\ s.devices = st.devices
      /\ s.key = st.key /\ s.roots = st.roots
      /\ s.blocks = Front(st.blocks)
      /\ s = [st EXCEPT !.pos = s.pos, !.blocks = s.blocks]
  BY DEF States, CloseBlock
<1> HIDE DEF s
<1>2. st.blocks \in Seq(BlockStates)
  BY DEF States
<1>3. /\ Len(st.blocks) \in Nat \ {0}
      /\ s.blocks \in Seq(BlockStates) /\ Len(s.blocks) = Len(st.blocks) - 1
      /\ \A i \in 1..Len(st.blocks) - 1 : s.blocks[i] = st.blocks[i]
  <2>1. s.blocks = Front(st.blocks)
    BY <1>1
  <2> QED BY <1>2, <2>1, LastFront
<1>4. s.pos \in Nat
  <2>1. st.pos \in Nat
    BY DEF States
  <2> QED BY <1>1, <2>1
<1>5. s \in States
  BY <1>1, <1>3, <1>4 DEF States
<1> QED BY <1>1, <1>3, <1>5 DEF s

\* What a call adds to st.
Calls(st, s, parent, flags, target, at) ==
    LET marked == st.root \in st.roots
        n == Len(st.devices)
        m == Len(st.blocks)
    IN  /\ s \in States
        /\ s.pos = st.pos /\ s.root = st.root + 1 /\ s.crash = st.crash
        /\ s.key = st.key /\ s.roots = st.roots
        /\ s.blocks # <<>> /\ Len(s.blocks) = m + 1
        /\ \A i \in 1..m : s.blocks[i] = st.blocks[i]
        /\ s.blocks[m + 1].root = st.root
        /\ s.blocks[m + 1].flags = flags
        /\ s.blocks[m + 1].key = "" /\ s.blocks[m + 1].stage = "item"
        /\ s.blocks[m + 1].parent = IF marked THEN <<>> ELSE parent
        /\ s.blocks[m + 1].target = IF marked THEN n + 1 ELSE target
        /\ Len(s.devices) = IF marked THEN n + 1 ELSE n
        /\ \A i \in 1..n : s.devices[i] = st.devices[i]
        /\ marked => /\ s.devices[n + 1].start = st.pos
                     /\ s.devices[n + 1].end = st.pos
                     /\ s.devices[n + 1].at = at

LEMMA CallIs ==
  ASSUME NEW st \in States, NEW parent \in Paths, NEW flags \in BOOLEAN,
         NEW target \in Nat, NEW at \in Paths
  PROVE  Calls(st, Call(st, parent, flags, target, at), parent, flags, target, at)
<1> DEFINE marked == st.root \in st.roots
           n == Len(st.devices)
           m == Len(st.blocks)
           new == NewDevice(parent, at, st.pos)
           devices == IF marked THEN Append(st.devices, new) ELSE st.devices
           block == [root |-> st.root, flags |-> flags, at |-> at,
                     parent |-> IF marked THEN <<>> ELSE parent,
                     target |-> IF marked THEN Len(devices) ELSE target,
                     key |-> "", stage |-> "item"]
           s == Call(st, parent, flags, target, at)
<1>1. /\ st.devices \in Seq(Devices) /\ st.blocks \in Seq(BlockStates) /\ st.names \in Seq(Paths)
      /\ st.pos \in Nat /\ st.root \in Nat
  BY DEF States
<1>2. new \in Devices /\ new.start = st.pos /\ new.end = st.pos /\ new.at = at
  <2>1. <<>> \in Seq(Resources) /\ "" \in Tokens
    BY EmptySeq DEF Tokens
  <2> QED BY <1>1, <2>1 DEF NewDevice, Devices
<1>3. /\ s.pos = st.pos /\ s.root = st.root + 1 /\ s.crash = st.crash
      /\ s.key = st.key /\ s.roots = st.roots /\ s.devices = devices
      /\ s.blocks = Append(st.blocks, block)
      /\ s.names = IF marked THEN Append(st.names, parent) ELSE st.names
      /\ s = [st EXCEPT !.root = s.root, !.devices = s.devices, !.blocks = s.blocks,
                        !.names = s.names]
  BY DEF States, Call
<1> HIDE DEF s, new
<1>4. /\ s.devices \in Seq(Devices) /\ n \in Nat
      /\ Len(s.devices) = IF marked THEN n + 1 ELSE n
      /\ \A i \in 1..n : s.devices[i] = st.devices[i]
      /\ marked => s.devices[n + 1] = new
  <2>1. n \in Nat
    BY <1>1, LenProperties
  <2>2. CASE marked
    <3>1. s.devices = Append(st.devices, new)
      BY <1>3, <2>2
    <3> QED BY <1>1, <1>2, <2>1, <2>2, <3>1, AppendProperties
  <2>3. CASE ~marked
    BY <1>1, <1>3, <2>1, <2>3
  <2> QED BY <2>2, <2>3
<1>5. block \in BlockStates
  <2>1. <<>> \in Paths /\ "" \in Tokens
    BY EmptySeq DEF Paths, Tokens
  <2>2. block.target \in Nat /\ Len(devices) = Len(s.devices)
    <3>1. devices = s.devices
      BY <1>3
    <3> QED BY <1>4, <3>1
  <2> HIDE DEF devices
  <2> QED BY <1>1, <2>1, <2>2 DEF BlockStates
<1>6. /\ block.root = st.root /\ block.flags = flags /\ block.key = "" /\ block.stage = "item"
      /\ block.parent = (IF marked THEN <<>> ELSE parent)
      /\ block.target = (IF marked THEN n + 1 ELSE target)
  BY <1>3, <1>4
<1> HIDE DEF block
<1>7. /\ s.blocks \in Seq(BlockStates) /\ Len(s.blocks) = m + 1 /\ s.blocks # <<>>
      /\ \A i \in 1..m : s.blocks[i] = st.blocks[i]
      /\ s.blocks[m + 1] = block
  <2>1. st.blocks \in Seq(BlockStates) /\ block \in BlockStates
        /\ s.blocks = Append(st.blocks, block)
    BY <1>1, <1>3, <1>5
  <2> QED BY <2>1, AppendProperties
<1>8. s.names \in Seq(Paths)
  BY <1>1, <1>3, AppendProperties
<1>9. s \in States
  <2>1. s.root \in Nat /\ s.blocks \in Seq(BlockStates) /\ s.devices \in Seq(Devices)
    BY <1>1, <1>3, <1>4, <1>7
  <2> QED BY <1>3, <1>8, <2>1 DEF States
<1> HIDE DEF devices
<1>10. marked => /\ s.devices[n + 1].start = st.pos /\ s.devices[n + 1].end = st.pos
                 /\ s.devices[n + 1].at = at
  BY <1>2, <1>4
<1>11. /\ s.blocks[m + 1].root = st.root /\ s.blocks[m + 1].flags = flags
       /\ s.blocks[m + 1].key = "" /\ s.blocks[m + 1].stage = "item"
       /\ s.blocks[m + 1].parent = (IF marked THEN <<>> ELSE parent)
       /\ s.blocks[m + 1].target = (IF marked THEN n + 1 ELSE target)
  BY <1>6, <1>7
<1>12. Calls(st, s, parent, flags, target, at)
  BY <1>3, <1>4, <1>7, <1>9, <1>10, <1>11 DEF Calls
<1> QED BY <1>12 DEF s

LEMMA TakeValueIs ==
  ASSUME NEW st \in States, st.blocks # <<>>, At(st.pos) \in Tokens
  PROVE  LET s == TakeValue(st)
             b == Inner(st)
         IN  /\ s \in States
             /\ s.pos = st.pos + 1
             /\ s.root = st.root /\ s.key = st.key /\ s.roots = st.roots
             /\ GoesTo(st, s, b.key, "rest")
             /\ s.crash => st.crash \/ (b.flags /\ b.parent = <<>> /\ b.target # 0)
             /\ Len(s.devices) = Len(st.devices)
             /\ \A i \in 1..Len(st.devices) :
                   /\ s.devices[i].start = st.devices[i].start
                   /\ s.devices[i].end = st.devices[i].end
                   /\ s.devices[i].at = st.devices[i].at
<1> DEFINE v == ParseValue(st, Inner(st), At(st.pos))
           b == Inner(st)
<1>1. /\ Keeps(st, v)
      /\ v.crash => st.crash \/ (b.flags /\ b.parent = <<>> /\ b.target # 0)
  BY InnerIs, ValueKeeps
<1>2. TakeValue(st) = Seen(v)
  BY DEF TakeValue
<1> HIDE DEF v
<1>3. v \in States /\ v.blocks = st.blocks /\ Inner(v) = b
  BY <1>1 DEF Keeps, Inner
<1>4. LET s == Seen(v)
      IN  /\ s \in States
          /\ s.pos = v.pos + 1
          /\ s.root = v.root /\ s.devices = v.devices /\ s.crash = v.crash
          /\ s.key = v.key /\ s.roots = v.roots
          /\ GoesTo(v, s, Inner(v).key, "rest")
  BY <1>3, SeenIs
<1>5. GoesTo(st, Seen(v), b.key, "rest")
  BY <1>3, <1>4 DEF GoesTo
<1> QED BY <1>1, <1>2, <1>4, <1>5 DEF Keeps

LEMMA OpenBlockIs ==
  ASSUME NEW st \in States, st.blocks # <<>>
  PROVE  LET b == Inner(st)
         IN  /\ Seen(st) \in States
             /\ Append(b.parent, st.key) # <<>>
             /\ Append(b.at, b.key) # <<>> /\ Last(Append(b.at, b.key)) = b.key
             /\ Calls(Seen(st), OpenBlock(st), Append(b.parent, st.key), b.key \in Keywords,
                      b.target, Append(b.at, b.key))
<1> DEFINE b == Inner(st)
<1>1. b.parent \in Paths /\ b.at \in Paths /\ b.target \in Nat /\ b.key \in Tokens
  BY InnerIs DEF BlockStates
<1>2. st.key \in Tokens
  BY DEF States
<1>3. /\ Append(b.parent, st.key) \in Paths /\ Append(b.at, b.key) \in Paths
      /\ Append(b.parent, st.key) # <<>> /\ Append(b.at, b.key) # <<>>
      /\ Append(b.at, b.key)[Len(b.at) + 1] = b.key
      /\ Len(Append(b.at, b.key)) = Len(b.at) + 1
  BY <1>1, <1>2, AppendProperties, SMTT(30) DEF Paths
<1>4. Seen(st) \in States
  BY SeenIs
<1>5. (b.key \in Keywords) \in BOOLEAN
  OBVIOUS
<1>6. OpenBlock(st) = Call(Seen(st), Append(b.parent, st.key), b.key \in Keywords, b.target,
                           Append(b.at, b.key))
  BY DEF OpenBlock
<1> HIDE DEF b
<1>7. Calls(Seen(st), OpenBlock(st), Append(b.parent, st.key), b.key \in Keywords,
            b.target, Append(b.at, b.key))
  BY <1>1, <1>3, <1>4, <1>5, <1>6, CallIs
<1>8. Last(Append(b.at, b.key)) = b.key
  BY <1>3 DEF Last
<1> QED BY <1>3, <1>4, <1>7, <1>8 DEF b

\* A step is the one of these that the stage and the token call for.
LEMMA StepCases ==
  ASSUME NEW st, ~Over(st), Inner(st).stage \in {"item", "first", "rest"}
  PROVE  LET t == At(st.pos)
             s == Step(st)
             item == Inner(st).stage = "item"
         IN  \/ item /\ t \in {Eos, RBrace} /\ s = CloseBlock(st)
             \/ item /\ t # Eos /\ s = BeginItem(st)
             \/ ~item /\ t \in {Eos, Semicolon} /\ s = EndItem(st)
             \/ ~item /\ t # Eos /\ t = LBrace /\ s = OpenBlock(st)
             \/ ~item /\ t # Eos /\ s = TakeValue(st)
  BY DEF Step

-----------------------------------------------------------------------------
\* A pass ends.

Basic(st) == st \in States /\ st.pos \in 1..Len(config) + 1

LEMMA BasicFacts ==
  ASSUME ConfigInv, NEW st, Basic(st), ~Over(st)
  PROVE  /\ st \in States /\ st.blocks # <<>> /\ ~st.crash /\ st.pos \in Nat \ {0}
         /\ Len(config) \in Nat /\ Len(st.blocks) \in Nat \ {0}
         /\ At(st.pos) \in Tokens /\ (At(st.pos) = Eos <=> st.pos > Len(config))
         /\ Inner(st) \in BlockStates /\ Inner(st).stage \in {"item", "first", "rest"}
         /\ Inner(st) = st.blocks[Len(st.blocks)]
         /\ IsWord(At(st.pos)) => st.pos <= Len(config)
<1>1. st \in States /\ st.blocks # <<>> /\ ~st.crash
  BY DEF Basic, Over
<1>2. Len(config) \in Nat
  BY DEF ConfigInv
<1>3. st.pos \in Nat \ {0}
  BY <1>2 DEF Basic
<1>4. Inner(st) \in BlockStates /\ Len(st.blocks) \in Nat \ {0} /\ Inner(st) = st.blocks[Len(st.blocks)]
  BY <1>1, InnerIs
<1>5. Inner(st).stage \in {"item", "first", "rest"}
  BY <1>4 DEF BlockStates
<1>6. At(st.pos) \in Tokens /\ (At(st.pos) = Eos <=> st.pos > Len(config))
  BY <1>3, AtType
<1>7. IsWord(At(st.pos)) => At(st.pos) # Eos
  BY DEF IsWord
<1> QED BY <1>1, <1>2, <1>3, <1>4, <1>5, <1>6, <1>7

\* What the steps to come use up: tokens, blocks, and before the end the
\* beginning of an item, at the end the end of one.
Late(st) ==
    IF st.blocks = <<>> THEN 0
    ELSE IF (st.pos <= Len(config) <=> Inner(st).stage = "item") THEN 1 ELSE 0
Rank(st) == 4 * (Len(config) + 1 - st.pos) + 2 * Len(st.blocks) + Late(st)

LEMMA LateType == \A st : Late(st) \in {0, 1}
  BY DEF Late

LEMMA RankType == ConfigInv => \A st : Basic(st) => Rank(st) \in Nat
<1> SUFFICES ASSUME ConfigInv, NEW st, Basic(st) PROVE Rank(st) \in Nat
  OBVIOUS
<1>1. Len(config) \in Nat
  BY DEF ConfigInv
<1>2. Len(config) + 1 - st.pos \in Nat
  BY <1>1 DEF Basic
<1>3. st.blocks \in Seq(BlockStates)
  BY DEF Basic, States
<1>4. Len(st.blocks) \in Nat
  BY <1>3
<1>5. Late(st) \in {0, 1}
  BY LateType
<1> HIDE DEF Late
<1> QED BY <1>2, <1>4, <1>5 DEF Rank

LEMMA StageAfter ==
  ASSUME NEW st \in States, NEW s \in States, NEW key, NEW next, st.blocks # <<>>,
         GoesTo(st, s, key, next)
  PROVE  Inner(s).stage = next /\ Len(s.blocks) = Len(st.blocks) /\ s.blocks # <<>>
<1>1. Len(st.blocks) \in 1..Len(st.blocks)
  BY InnerIs
<1>2. Inner(s) = s.blocks[Len(s.blocks)]
  BY InnerIs DEF GoesTo
<1> QED BY <1>1, <1>2 DEF GoesTo

LEMMA Decreases ==
  ASSUME NEW l \in Nat, NEW n \in Nat, NEW m \in Nat, NEW p \in 1..l + 1, NEW q \in 1..l + 1,
         NEW a \in {0, 1}, NEW c \in {0, 1},
         \/ q = p + 1 /\ m \in {n, n + 1}
         \/ q = p /\ m = n /\ c < a
         \/ q \in {p, p + 1} /\ m = n - 1
  PROVE  4 * (l + 1 - q) + 2 * m + c < 4 * (l + 1 - p) + 2 * n + a
  OBVIOUS

LEMMA RankLess ==
  ASSUME ConfigInv, NEW st, NEW s, Basic(st), Basic(s),
         \/ s.pos = st.pos + 1 /\ Len(s.blocks) \in {Len(st.blocks), Len(st.blocks) + 1}
         \/ s.pos = st.pos /\ Len(s.blocks) = Len(st.blocks) /\ Late(s) < Late(st)
         \/ s.pos \in {st.pos, st.pos + 1} /\ Len(s.blocks) = Len(st.blocks) - 1
  PROVE  Rank(s) < Rank(st)
<1>1. Late(st) \in {0, 1} /\ Late(s) \in {0, 1}
  BY LateType
<1>2. Len(config) \in Nat
  BY DEF ConfigInv
<1>3. st.blocks \in Seq(BlockStates) /\ s.blocks \in Seq(BlockStates)
  BY DEF Basic, States
<1>4. Len(st.blocks) \in Nat /\ Len(s.blocks) \in Nat
  BY <1>3
<1>5. st.pos \in 1..Len(config) + 1 /\ s.pos \in 1..Len(config) + 1
  BY DEF Basic
<1>6. 4 * (Len(config) + 1 - s.pos) + 2 * Len(s.blocks) + Late(s)
        < 4 * (Len(config) + 1 - st.pos) + 2 * Len(st.blocks) + Late(st)
  BY <1>1, <1>2, <1>4, <1>5, Decreases
<1> QED BY <1>6 DEF Rank

LEMMA BasicStep ==
  ASSUME ConfigInv, NEW st, Basic(st), ~Over(st)
  PROVE  Basic(Step(st)) /\ Rank(Step(st)) < Rank(st)
<1> DEFINE s == Step(st)
           L == Len(config)
<1>1. /\ st \in States /\ st.blocks # <<>> /\ ~st.crash /\ st.pos \in Nat \ {0}
      /\ L \in Nat /\ Len(st.blocks) \in Nat \ {0}
      /\ At(st.pos) \in Tokens /\ (At(st.pos) = Eos <=> st.pos > L)
      /\ Inner(st).stage \in {"item", "first", "rest"}
      /\ IsWord(At(st.pos)) => st.pos <= L
      /\ st.pos <= L + 1
  BY BasicFacts DEF Basic
<1>4. CASE Inner(st).stage = "item" /\ At(st.pos) \in {Eos, RBrace} /\ s = CloseBlock(st)
  <2>1. /\ s \in States /\ s.pos \in {st.pos, st.pos + 1} /\ Len(s.blocks) = Len(st.blocks) - 1
        /\ s.pos # st.pos => At(st.pos) = RBrace
    BY <1>1, <1>4, CloseBlockIs
  <2>2. s.pos # st.pos => st.pos <= L
    <3>1. RBrace # Eos
      BY Zenon DEF RBrace, Eos
    <3> QED BY <1>1, <2>1, <3>1
  <2>3. s.pos \in 1..L + 1
    BY <1>1, <2>1, <2>2
  <2> QED BY <1>1, <2>1, <2>3, RankLess DEF Basic
<1>5. CASE Inner(st).stage = "item" /\ At(st.pos) # Eos /\ s = BeginItem(st)
  <2>1. /\ s \in States /\ s.pos \in {st.pos, st.pos + 1} /\ GoesTo(st, s, s.key, "first")
    BY <1>1, <1>5, BeginItemIs
  <2>2. st.pos <= L
    BY <1>1, <1>5
  <2>3. s.pos \in 1..L + 1
    BY <1>1, <2>1, <2>2
  <2>4. Inner(s).stage = "first" /\ Len(s.blocks) = Len(st.blocks) /\ s.blocks # <<>>
    BY <1>1, <2>1, StageAfter
  <2>5. s.pos = st.pos => Late(s) < Late(st)
    BY <1>1, <1>5, <2>2, <2>4 DEF Late
  <2> QED BY <1>1, <2>1, <2>3, <2>4, <2>5, RankLess DEF Basic
<1>6. CASE Inner(st).stage # "item" /\ At(st.pos) \in {Eos, Semicolon} /\ s = EndItem(st)
  <2>1. /\ s \in States /\ GoesTo(st, s, Inner(st).key, "item")
        /\ s.pos = IF At(st.pos) = Semicolon THEN st.pos + 1 ELSE st.pos
    BY <1>1, <1>6, EndItemIs
  <2>2. At(st.pos) = Semicolon => st.pos <= L
    <3>1. Semicolon # Eos
      BY Zenon DEF Semicolon, Eos
    <3> QED BY <1>1, <3>1
  <2>3. s.pos \in 1..L + 1
    BY <1>1, <2>1, <2>2
  <2>4. Inner(s).stage = "item" /\ Len(s.blocks) = Len(st.blocks) /\ s.blocks # <<>>
    BY <1>1, <2>1, StageAfter
  <2>5. s.pos = st.pos => Late(s) < Late(st)
    <3>1. s.pos = st.pos => st.pos > L
      BY <1>1, <1>6, <2>1
    <3> QED BY <1>1, <1>6, <3>1, <2>4 DEF Late
  <2> QED BY <1>1, <2>1, <2>3, <2>4, <2>5, RankLess DEF Basic
<1>7. CASE Inner(st).stage # "item" /\ At(st.pos) # Eos /\ s = OpenBlock(st)
  <2>1. /\ s \in States /\ s.pos = st.pos + 1 /\ Len(s.blocks) = Len(st.blocks) + 1
    <3>1. s.pos = Seen(st).pos /\ Len(s.blocks) = Len(Seen(st).blocks) + 1 /\ s \in States
      BY <1>1, <1>7, OpenBlockIs DEF Calls
    <3>2. Seen(st).pos = st.pos + 1 /\ Len(Seen(st).blocks) = Len(st.blocks)
      BY <1>1, SeenIs DEF GoesTo
    <3> QED BY <3>1, <3>2
  <2>2. s.pos \in 1..L + 1
    BY <1>1, <1>7, <2>1
  <2> QED BY <1>1, <2>1, <2>2, RankLess DEF Basic
<1>8. CASE Inner(st).stage # "item" /\ At(st.pos) # Eos /\ s = TakeValue(st)
  <2>1. /\ s \in States /\ s.pos = st.pos + 1 /\ Len(s.blocks) = Len(st.blocks)
    BY <1>1, <1>8, TakeValueIs DEF GoesTo
  <2>2. s.pos \in 1..L + 1
    BY <1>1, <1>8, <2>1
  <2> QED BY <1>1, <2>1, <2>2, RankLess DEF Basic
<1> QED BY <1>1, <1>4, <1>5, <1>6, <1>7, <1>8, StepCases

-----------------------------------------------------------------------------
\* Pass 0 makes no device, so that no parent is followed, and marks only the
\* roots it has met.

Marks(st) ==
    \/ st.root <= st.pos
    \/ st.root = st.pos + 1 /\ \A i \in 1..st.pos - 1 : config[i] = LBrace

Plain(st) ==
    \A i \in 1..Len(st.blocks) :
        st.blocks[i].root \in 1..st.root - 1 /\ st.blocks[i].target = 0

Pass0Inv(st) ==
    /\ Basic(st) /\ ~st.crash
    /\ st.root \in Nat \ {0} /\ st.roots \subseteq 1..st.root - 1
    /\ Marks(st)
    /\ Plain(st)
    /\ st.blocks = <<>> => At(st.pos) \in {Eos, RBrace}

LEMMA MarksStep ==
  ASSUME NEW st, NEW s, st.pos \in Nat \ {0}, st.root \in Nat, Marks(st),
         \/ s.pos \in {st.pos, st.pos + 1} /\ s.root = st.root
         \/ s.pos = st.pos + 1 /\ s.root = st.root + 1 /\ config[st.pos] = LBrace
  PROVE  Marks(s)
<1>1. CASE s.pos \in {st.pos, st.pos + 1} /\ s.root = st.root
  BY <1>1 DEF Marks
<1>2. CASE s.pos = st.pos + 1 /\ s.root = st.root + 1 /\ config[st.pos] = LBrace
  BY <1>2 DEF Marks
<1> QED BY <1>1, <1>2

\* The innermost call goes on.
LEMMA PlainGoesOn ==
  ASSUME NEW st, NEW s, NEW key, NEW next, Plain(st), GoesTo(st, s, key, next),
         s.root = st.root
  PROVE  Plain(s) /\ s.blocks # <<>>
  BY DEF Plain, GoesTo

LEMMA Pass0Step ==
  ASSUME ConfigInv, NEW st, Pass0Inv(st), ~Over(st)
  PROVE  Pass0Inv(Step(st)) /\ st.roots \subseteq Step(st).roots
<1> DEFINE s == Step(st)
           m == Len(st.blocks)
<1>1. /\ st \in States /\ st.blocks # <<>> /\ ~st.crash /\ st.pos \in Nat \ {0}
      /\ Len(config) \in Nat /\ m \in Nat \ {0}
      /\ At(st.pos) \in Tokens /\ (At(st.pos) = Eos <=> st.pos > Len(config))
      /\ Inner(st).stage \in {"item", "first", "rest"}
      /\ Inner(st) = st.blocks[m]
  BY BasicFacts DEF Pass0Inv
<1>2. /\ st.root \in Nat \ {0} /\ st.roots \subseteq 1..st.root - 1
      /\ Marks(st) /\ Plain(st)
  BY DEF Pass0Inv
<1>3. Basic(s)
  BY BasicStep DEF Pass0Inv
<1>4. Inner(st).root \in 1..st.root - 1 /\ Inner(st).target = 0
  <2>1. m \in 1..m
    BY <1>1
  <2> QED BY <1>1, <1>2, <2>1 DEF Plain
<1>5. CASE Inner(st).stage = "item" /\ At(st.pos) \in {Eos, RBrace} /\ s = CloseBlock(st)
  <2>1. /\ s.pos = (IF m > 1 /\ At(st.pos) = RBrace THEN st.pos + 1 ELSE st.pos)
        /\ s.root = st.root /\ s.crash = st.crash /\ s.roots = st.roots
        /\ Len(s.blocks) = m - 1
        /\ \A i \in 1..Len(s.blocks) : s.blocks[i] = st.blocks[i]
    BY <1>1, <1>5, CloseBlockIs
  <2>2. Plain(s)
    <3>1. \A i \in 1..Len(s.blocks) : i \in 1..m /\ s.blocks[i] = st.blocks[i]
      BY <1>1, <2>1
    <3>2. s.root = st.root
      BY <2>1
    <3> QED BY <1>2, <3>1, <3>2 DEF Plain
  <2>3. Marks(s)
    BY <1>1, <1>2, <2>1, MarksStep
  <2>4. s.blocks = <<>> => At(s.pos) \in {Eos, RBrace}
    <3>1. s.blocks = <<>> => m = 1
      BY <1>1, <2>1
    <3>2. m = 1 => s.pos = st.pos
      BY <2>1
    <3> QED BY <1>5, <3>1, <3>2
  <2> QED BY <1>1, <1>2, <1>3, <2>1, <2>2, <2>3, <2>4 DEF Pass0Inv
<1>6. CASE Inner(st).stage = "item" /\ At(st.pos) # Eos /\ s = BeginItem(st)
  <2>1. /\ s.pos \in {st.pos, st.pos + 1} /\ s.root = st.root /\ s.crash = st.crash
        /\ s.roots \in {st.roots, st.roots \cup {Inner(st).root}}
        /\ GoesTo(st, s, s.key, "first")
    BY <1>1, <1>6, BeginItemIs
  <2>2. Plain(s) /\ s.blocks # <<>>
    BY <1>2, <2>1, PlainGoesOn
  <2>3. Marks(s)
    BY <1>1, <1>2, <2>1, MarksStep
  <2>4. s.roots \subseteq 1..s.root - 1 /\ st.roots \subseteq s.roots
    BY <1>2, <1>4, <2>1
  <2> QED BY <1>1, <1>2, <1>3, <2>1, <2>2, <2>3, <2>4 DEF Pass0Inv
<1>7. CASE Inner(st).stage # "item" /\ At(st.pos) \in {Eos, Semicolon} /\ s = EndItem(st)
  <2>1. /\ s.pos \in {st.pos, st.pos + 1} /\ s.root = st.root /\ s.crash = st.crash
        /\ s.roots = st.roots /\ GoesTo(st, s, Inner(st).key, "item")
    BY <1>1, <1>7, EndItemIs
  <2>2. Plain(s) /\ s.blocks # <<>>
    BY <1>2, <2>1, PlainGoesOn
  <2>3. Marks(s)
    BY <1>1, <1>2, <2>1, MarksStep
  <2> QED BY <1>1, <1>2, <1>3, <2>1, <2>2, <2>3 DEF Pass0Inv
<1>8. CASE Inner(st).stage # "item" /\ At(st.pos) # Eos /\ At(st.pos) = LBrace /\ s = OpenBlock(st)
  <2>1. /\ Calls(Seen(st), s, Append(Inner(st).parent, st.key), Inner(st).key \in Keywords,
                 Inner(st).target, Append(Inner(st).at, Inner(st).key))
        /\ Seen(st).pos = st.pos + 1 /\ Seen(st).root = st.root /\ Seen(st).crash = st.crash
        /\ Seen(st).roots = st.roots /\ GoesTo(st, Seen(st), Inner(st).key, "rest")
    BY <1>1, <1>8, OpenBlockIs, SeenIs
  <2>2. /\ s.pos = st.pos + 1 /\ s.root = st.root + 1 /\ s.crash = st.crash
        /\ s.roots = st.roots /\ s.blocks # <<>> /\ Len(s.blocks) = m + 1
    BY <2>1 DEF Calls, GoesTo
  <2>3. config[st.pos] = LBrace
    BY <1>1, <1>8 DEF At
  <2>4. Marks(s)
    BY <1>1, <1>2, <2>2, <2>3, MarksStep
  <2>5. Plain(Seen(st))
    BY <1>2, <2>1, PlainGoesOn
  <2>6. ~(Seen(st).root \in Seen(st).roots)
    BY <1>2, <2>1
  <2>7. s.blocks[m + 1].root = st.root /\ s.blocks[m + 1].target = 0
    BY <1>4, <2>1, <2>6 DEF Calls, GoesTo
  <2>8. \A i \in 1..m : s.blocks[i] = Seen(st).blocks[i] /\ Len(Seen(st).blocks) = m
    BY <2>1 DEF Calls, GoesTo
  <2>9. ASSUME NEW i \in 1..Len(s.blocks)
        PROVE  s.blocks[i].root \in 1..s.root - 1 /\ s.blocks[i].target = 0
    <3>1. CASE i = m + 1
      BY <1>2, <2>2, <2>7, <3>1
    <3>2. CASE i # m + 1
      <4>1. i \in 1..m
        BY <1>1, <2>2, <2>9, <3>2
      <4>2. Seen(st).blocks[i].root \in 1..st.root - 1 /\ Seen(st).blocks[i].target = 0
        BY <2>1, <2>5, <2>8, <4>1 DEF Plain
      <4>3. s.blocks[i] = Seen(st).blocks[i]
        BY <2>8, <4>1
      <4>4. s.blocks[i].root \in 1..st.root - 1 /\ s.blocks[i].target = 0
        BY <4>2, <4>3
      <4> QED BY <1>2, <2>2, <4>4
    <3> QED BY <3>1, <3>2
  <2> QED BY <1>1, <1>2, <1>3, <2>2, <2>4, <2>9 DEF Pass0Inv, Plain
<1>9. CASE Inner(st).stage # "item" /\ At(st.pos) # Eos /\ s = TakeValue(st)
  <2>1. /\ s.pos = st.pos + 1 /\ s.root = st.root /\ s.roots = st.roots
        /\ GoesTo(st, s, Inner(st).key, "rest")
        /\ s.crash => st.crash \/ Inner(st).target # 0
    BY <1>1, <1>9, TakeValueIs
  <2>2. Plain(s) /\ s.blocks # <<>>
    BY <1>2, <2>1, PlainGoesOn
  <2>3. Marks(s)
    BY <1>1, <1>2, <2>1, MarksStep
  <2>4. ~s.crash
    BY <1>1, <1>4, <2>1
  <2> QED BY <1>2, <1>3, <2>1, <2>2, <2>3, <2>4 DEF Pass0Inv
<1> QED BY <1>1, <1>5, <1>6, <1>7, <1>8, <1>9, StepCases

-----------------------------------------------------------------------------
\* The pass that makes the devices keeps in step with pass 0, until it
\* follows a null parent.

Same(st, s) ==
    /\ s.pos = st.pos /\ s.root = st.root /\ Len(s.blocks) = Len(st.blocks)
    /\ \A i \in 1..Len(st.blocks) :
          s.blocks[i].root = st.blocks[i].root /\ s.blocks[i].stage = st.blocks[i].stage

LEMMA SameGoesOn ==
  ASSUME NEW st, NEW s, NEW p, NEW q, NEW key, NEW lock, NEW next, Same(st, s),
         GoesTo(st, p, key, next), GoesTo(s, q, lock, next), q.pos = p.pos, q.root = p.root
  PROVE  Same(p, q)
  BY DEF Same, GoesTo

LEMMA OpenBlockAdds ==
  ASSUME NEW st \in States, st.blocks # <<>>
  PROVE  LET v == Seen(st)
             s == OpenBlock(st)
             m == Len(v.blocks)
         IN  /\ s.pos = v.pos /\ s.root = v.root + 1 /\ s.roots = v.roots
             /\ Len(s.blocks) = m + 1
             /\ \A i \in 1..m : s.blocks[i] = v.blocks[i]
             /\ s.blocks[m + 1].root = v.root /\ s.blocks[m + 1].stage = "item"
<1>1. Calls(Seen(st), OpenBlock(st), Append(Inner(st).parent, st.key),
            Inner(st).key \in Keywords, Inner(st).target, Append(Inner(st).at, Inner(st).key))
  BY OpenBlockIs
<1> QED BY <1>1 DEF Calls

LEMMA SameStep ==
  ASSUME ConfigInv, NEW st, NEW s, Basic(st), Basic(s), ~Over(st), ~s.crash, Same(st, s)
  PROVE  /\ ~Over(s) /\ Same(Step(st), Step(s))
         /\ s.roots \subseteq Step(s).roots
         /\ Step(s).roots \subseteq s.roots \cup Step(st).roots
<1> DEFINE p == Step(st)  q == Step(s)  t == At(st.pos)  m == Len(st.blocks)
<1>1. /\ st \in States /\ st.blocks # <<>> /\ t \in Tokens /\ m \in Nat \ {0}
      /\ Inner(st) = st.blocks[m]
  BY BasicFacts
<1>2. /\ ~Over(s) /\ s \in States /\ s.blocks # <<>> /\ Inner(s) = s.blocks[m]
      /\ At(s.pos) = t /\ Len(s.blocks) = m /\ s.pos = st.pos /\ s.root = st.root
  <2>1. s \in States /\ s.blocks \in Seq(BlockStates)
    BY DEF Basic, States
  <2>2. s.pos = st.pos /\ s.root = st.root /\ Len(s.blocks) = m
    BY DEF Same
  <2>3. s.blocks # <<>>
    BY <1>1, <2>1, <2>2
  <2>4. Inner(s) = s.blocks[m]
    BY <2>1, <2>2, <2>3, InnerIs
  <2> QED BY <2>1, <2>2, <2>3, <2>4 DEF Over
<1>3. Inner(s).root = Inner(st).root /\ Inner(s).stage = Inner(st).stage
  <2>1. m \in 1..m
    BY <1>1
  <2> QED BY <1>1, <1>2, <2>1 DEF Same
<1>4. CASE Inner(st).stage = "item" /\ t \in {Eos, RBrace}
  <2>1. p = CloseBlock(st) /\ q = CloseBlock(s)
    BY <1>2, <1>3, <1>4 DEF Step
  <2>2. /\ p.pos = (IF m > 1 /\ t = RBrace THEN st.pos + 1 ELSE st.pos)
        /\ p.root = st.root /\ p.roots = st.roots /\ Len(p.blocks) = m - 1
        /\ \A i \in 1..Len(p.blocks) : p.blocks[i] = st.blocks[i]
    BY <1>1, <2>1, CloseBlockIs
  <2>3. /\ q.pos = (IF m > 1 /\ t = RBrace THEN s.pos + 1 ELSE s.pos)
        /\ q.root = s.root /\ q.roots = s.roots /\ Len(q.blocks) = m - 1
        /\ \A i \in 1..Len(q.blocks) : q.blocks[i] = s.blocks[i]
    BY <1>2, <2>1, CloseBlockIs
  <2>4. q.pos = p.pos /\ q.root = p.root /\ Len(q.blocks) = Len(p.blocks)
    BY <1>2, <2>2, <2>3
  <2>5. ASSUME NEW i \in 1..Len(p.blocks)
        PROVE  q.blocks[i].root = p.blocks[i].root /\ q.blocks[i].stage = p.blocks[i].stage
    <3>1. i \in 1..m /\ i \in 1..Len(q.blocks)
      BY <1>1, <2>2, <2>4
    <3>2. p.blocks[i] = st.blocks[i] /\ q.blocks[i] = s.blocks[i]
      BY <2>2, <2>3, <3>1
    <3>3. s.blocks[i].root = st.blocks[i].root /\ s.blocks[i].stage = st.blocks[i].stage
      BY <3>1 DEF Same
    <3> QED BY <3>2, <3>3
  <2> QED BY <1>2, <2>3, <2>4, <2>5 DEF Same
<1>5. CASE Inner(st).stage = "item" /\ t \notin {Eos, RBrace}
  <2>1. p = BeginItem(st) /\ q = BeginItem(s)
    BY <1>2, <1>3, <1>5 DEF Step
  <2>2. /\ p.pos = (IF IsWord(t) THEN st.pos + 1 ELSE st.pos) /\ p.root = st.root
        /\ p.key = (IF IsWord(t) THEN t ELSE "")
        /\ p.roots = (IF p.key = "interface" THEN st.roots \cup {Inner(st).root} ELSE st.roots)
        /\ GoesTo(st, p, p.key, "first")
    BY <1>1, <2>1, BeginItemIs
  <2>3. /\ q.pos = (IF IsWord(t) THEN s.pos + 1 ELSE s.pos) /\ q.root = s.root
        /\ q.key = (IF IsWord(t) THEN t ELSE "")
        /\ q.roots = (IF q.key = "interface" THEN s.roots \cup {Inner(s).root} ELSE s.roots)
        /\ GoesTo(s, q, q.key, "first")
    <3>1. At(s.pos) \in Tokens
      BY <1>1, <1>2
    <3>2. /\ q.pos = (IF IsWord(At(s.pos)) THEN s.pos + 1 ELSE s.pos) /\ q.root = s.root
          /\ q.key = (IF IsWord(At(s.pos)) THEN At(s.pos) ELSE "")
          /\ q.roots = (IF q.key = "interface" THEN s.roots \cup {Inner(s).root} ELSE s.roots)
          /\ GoesTo(s, q, q.key, "first")
      <4>1. s \in States /\ s.blocks # <<>> /\ q = BeginItem(s)
        BY <1>2, <2>1
      <4> HIDE DEF q
      <4> QED BY <3>1, <4>1, BeginItemIs
    <3> QED BY <1>2, <3>2
  <2>4. q.pos = p.pos /\ q.root = p.root /\ q.key = p.key
    BY <1>2, <2>2, <2>3
  <2>5. Same(p, q)
    BY <2>2, <2>3, <2>4, SameGoesOn
  <2>6. s.roots \subseteq q.roots /\ q.roots \subseteq s.roots \cup p.roots
    BY <1>3, <2>2, <2>3, <2>4
  <2> QED BY <1>2, <2>5, <2>6
<1>6. CASE Inner(st).stage # "item" /\ t \in {Eos, Semicolon}
  <2>1. p = EndItem(st) /\ q = EndItem(s)
    BY <1>2, <1>3, <1>6 DEF Step
  <2>2. /\ p.pos = (IF t = Semicolon THEN st.pos + 1 ELSE st.pos) /\ p.root = st.root
        /\ GoesTo(st, p, Inner(st).key, "item")
    BY <1>1, <2>1, EndItemIs
  <2>3. /\ q.pos = (IF t = Semicolon THEN s.pos + 1 ELSE s.pos) /\ q.root = s.root
        /\ q.roots = s.roots /\ GoesTo(s, q, Inner(s).key, "item")
    BY <1>2, <2>1, EndItemIs
  <2>4. q.pos = p.pos /\ q.root = p.root
    BY <1>2, <2>2, <2>3
  <2>5. Same(p, q)
    BY <2>2, <2>3, <2>4, SameGoesOn
  <2> QED BY <1>2, <2>3, <2>5
<1>7. CASE Inner(st).stage # "item" /\ t \notin {Eos, Semicolon} /\ t = LBrace
  <2>1. p = OpenBlock(st) /\ q = OpenBlock(s)
    BY <1>2, <1>3, <1>7 DEF Step
  <2>2. /\ Seen(st).pos = st.pos + 1 /\ Seen(st).root = st.root
        /\ GoesTo(st, Seen(st), Inner(st).key, "rest")
        /\ Seen(s).pos = s.pos + 1 /\ Seen(s).root = s.root /\ Seen(s).roots = s.roots
        /\ GoesTo(s, Seen(s), Inner(s).key, "rest")
    BY <1>1, <1>2, SeenIs
  <2>3. Same(Seen(st), Seen(s)) /\ Len(Seen(st).blocks) = m /\ Len(Seen(s).blocks) = m
    <3>1. Seen(s).pos = Seen(st).pos /\ Seen(s).root = Seen(st).root
      BY <1>2, <2>2
    <3>2. Same(Seen(st), Seen(s))
      BY <2>2, <3>1, SameGoesOn
    <3> QED BY <1>2, <2>2, <3>2 DEF GoesTo
  <2>4. /\ p.pos = st.pos + 1 /\ p.root = st.root + 1 /\ Len(p.blocks) = m + 1
        /\ \A i \in 1..m : p.blocks[i] = Seen(st).blocks[i]
        /\ p.blocks[m + 1].root = st.root /\ p.blocks[m + 1].stage = "item"
    BY <1>1, <2>1, <2>2, <2>3, OpenBlockAdds
  <2>5. /\ q.pos = s.pos + 1 /\ q.root = s.root + 1 /\ Len(q.blocks) = m + 1
        /\ q.roots = s.roots
        /\ \A i \in 1..m : q.blocks[i] = Seen(s).blocks[i]
        /\ q.blocks[m + 1].root = s.root /\ q.blocks[m + 1].stage = "item"
    BY <1>2, <2>1, <2>2, <2>3, OpenBlockAdds
  <2>6. ASSUME NEW i \in 1..Len(p.blocks)
        PROVE  q.blocks[i].root = p.blocks[i].root /\ q.blocks[i].stage = p.blocks[i].stage
    <3>1. CASE i = m + 1
      BY <1>2, <2>4, <2>5, <3>1
    <3>2. CASE i # m + 1
      <4>1. i \in 1..m
        BY <1>1, <2>4, <2>6, <3>2
      <4>2. p.blocks[i] = Seen(st).blocks[i] /\ q.blocks[i] = Seen(s).blocks[i]
        BY <2>4, <2>5, <4>1
      <4> QED BY <2>3, <4>1, <4>2 DEF Same
    <3> QED BY <3>1, <3>2
  <2> QED BY <1>2, <2>4, <2>5, <2>6 DEF Same
<1>8. CASE Inner(st).stage # "item" /\ t \notin {Eos, Semicolon} /\ t # LBrace
  <2>1. p = TakeValue(st) /\ q = TakeValue(s)
    BY <1>2, <1>3, <1>8 DEF Step
  <2>2. p.pos = st.pos + 1 /\ p.root = st.root /\ GoesTo(st, p, Inner(st).key, "rest")
    BY <1>1, <2>1, TakeValueIs
  <2>3. /\ q.pos = s.pos + 1 /\ q.root = s.root /\ q.roots = s.roots
        /\ GoesTo(s, q, Inner(s).key, "rest")
    BY <1>1, <1>2, <2>1, TakeValueIs
  <2>4. q.pos = p.pos /\ q.root = p.root
    BY <1>2, <2>2, <2>3
  <2>5. Same(p, q)
    BY <2>2, <2>3, <2>4, SameGoesOn
  <2> QED BY <1>2, <2>3, <2>5
<1> QED BY <1>4, <1>5, <1>6, <1>7, <1>8

-----------------------------------------------------------------------------
\* The devices of a pass with the marks R.

\* The windows are nested or disjoint, in the order of their starts.
Nested(st) ==
    \A j \in 1..Len(st.devices) :
        /\ st.devices[j].start <= st.devices[j].end /\ st.devices[j].end <= st.pos
        /\ \A i \in 1..j - 1 :
              /\ st.devices[i].start < st.devices[j].start
              /\ \/ st.devices[i].end <= st.devices[j].start
                 \/ st.devices[j].end <= st.devices[i].end

\* The device of a block: deeper blocks have later ones, a marked block has one
\* of its own, which begins after all before it have ended so far, and a block
\* that would follow a null parent is a keyword's.
Target(R, st, k) ==
    LET b == st.blocks[k]
    IN  /\ b.target <= Len(st.devices)
        /\ \A l \in 1..k - 1 : st.blocks[l].target <= b.target
        /\ b.root \in R =>
              /\ b.target # 0
              /\ \A j \in 1..b.target - 1 :
                    st.devices[j].end <= st.devices[b.target].start
        /\ b.flags /\ b.parent = <<>> /\ b.target # 0 => InKeyword(st.devices[b.target])
Targets(R, st) == \A k \in 1..Len(st.blocks) : Target(R, st, k)

Made(R, st) == {r \in R : r < st.root}

Pass1Inv(R, st) ==
    /\ Basic(st) /\ st.roots = R
    /\ Len(st.devices) = Cardinality(Made(R, st))
    /\ Nested(st) /\ Targets(R, st)
    /\ st.crash => \E i \in 1..Len(st.devices) : InKeyword(st.devices[i])

LEMMA DeviceTypes ==
  ASSUME NEW st \in States
  PROVE  /\ st.devices \in Seq(Devices) /\ Len(st.devices) \in Nat
         /\ \A i \in 1..Len(st.devices) :
               st.devices[i].start \in Nat /\ st.devices[i].end \in Nat
<1>1. st.devices \in Seq(Devices)
  BY DEF States
<1>2. Len(st.devices) \in Nat
  BY <1>1, LenProperties
<1>3. ASSUME NEW i \in 1..Len(st.devices)
      PROVE  st.devices[i].start \in Nat /\ st.devices[i].end \in Nat
  <2>1. st.devices[i] \in Devices
    BY <1>1, ElementOfSeq
  <2> QED BY <2>1 DEF Devices
<1> QED BY <1>1, <1>2, <1>3

\* The devices are where they were.
Stay(st, s) ==
    /\ Len(s.devices) = Len(st.devices)
    /\ \A i \in 1..Len(st.devices) :
          /\ s.devices[i].start = st.devices[i].start
          /\ s.devices[i].end = st.devices[i].end
          /\ s.devices[i].at = st.devices[i].at

LEMMA NestedStays ==
  ASSUME NEW st \in States, NEW s \in States, Nested(st), Stay(st, s),
         s.pos \in {st.pos, st.pos + 1}
  PROVE  Nested(s)
<1>1. /\ Len(st.devices) \in Nat /\ st.pos \in Nat
      /\ \A i \in 1..Len(st.devices) :
            st.devices[i].start \in Nat /\ st.devices[i].end \in Nat
  BY DeviceTypes DEF States
<1> SUFFICES ASSUME NEW j \in 1..Len(s.devices)
             PROVE  /\ s.devices[j].start <= s.devices[j].end /\ s.devices[j].end <= s.pos
                    /\ \A i \in 1..j - 1 :
                          /\ s.devices[i].start < s.devices[j].start
                          /\ \/ s.devices[i].end <= s.devices[j].start
                             \/ s.devices[j].end <= s.devices[i].end
  BY DEF Nested
<1>2. /\ j \in 1..Len(st.devices)
      /\ s.devices[j].start = st.devices[j].start /\ s.devices[j].end = st.devices[j].end
  BY DEF Stay
<1>3. /\ st.devices[j].start <= st.devices[j].end /\ st.devices[j].end <= st.pos
      /\ \A i \in 1..j - 1 :
            /\ st.devices[i].start < st.devices[j].start
            /\ \/ st.devices[i].end <= st.devices[j].start
               \/ st.devices[j].end <= st.devices[i].end
  BY <1>2 DEF Nested
<1>4. s.devices[j].start <= s.devices[j].end /\ s.devices[j].end <= s.pos
  BY <1>1, <1>2, <1>3
<1>5. ASSUME NEW i \in 1..j - 1
      PROVE  /\ s.devices[i].start < s.devices[j].start
             /\ \/ s.devices[i].end <= s.devices[j].start
                \/ s.devices[j].end <= s.devices[i].end
  <2>1. i \in 1..Len(st.devices)
    BY <1>1, <1>2
  <2>2. s.devices[i].start = st.devices[i].start /\ s.devices[i].end = st.devices[i].end
    BY <2>1 DEF Stay
  <2> QED BY <1>2, <1>3, <2>2
<1> QED BY <1>4, <1>5

\* The block k of s is the block k of st, and its device is where it was.
LEMMA TargetStays ==
  ASSUME NEW R, NEW st \in States, NEW s \in States, NEW k \in 1..Len(st.blocks),
         Target(R, st, k),
         Len(st.devices) <= Len(s.devices),
         \A i \in 1..Len(st.devices) :
            /\ s.devices[i].start = st.devices[i].start
            /\ s.devices[i].at = st.devices[i].at
            /\ st.blocks[k].root \in R /\ i < st.blocks[k].target =>
                  s.devices[i].end = st.devices[i].end,
         \A l \in 1..k :
            /\ s.blocks[l].root = st.blocks[l].root /\ s.blocks[l].flags = st.blocks[l].flags
            /\ s.blocks[l].parent = st.blocks[l].parent
            /\ s.blocks[l].target = st.blocks[l].target
  PROVE  Target(R, s, k)
<1>1. /\ Len(st.devices) \in Nat /\ Len(s.devices) \in Nat
      /\ \A i \in 1..Len(st.devices) :
            st.devices[i].start \in Nat /\ st.devices[i].end \in Nat
  BY DeviceTypes
<1>2. st.blocks \in Seq(BlockStates)
  BY DEF States
<1>3. k \in Nat /\ k \in 1..k /\ \A l \in 1..k - 1 : l \in 1..k
  BY <1>2
<1>4. st.blocks[k].target \in Nat
  <2>1. st.blocks[k] \in BlockStates
    BY <1>2, ElementOfSeq
  <2> QED BY <2>1 DEF BlockStates
<1> DEFINE b == st.blocks[k]  c == s.blocks[k]
<1>5. c.root = b.root /\ c.flags = b.flags /\ c.parent = b.parent /\ c.target = b.target
  BY <1>3
<1>6. /\ b.target <= Len(st.devices)
      /\ \A l \in 1..k - 1 : st.blocks[l].target <= b.target
      /\ b.root \in R =>
            /\ b.target # 0
            /\ \A j \in 1..b.target - 1 : st.devices[j].end <= st.devices[b.target].start
      /\ b.flags /\ b.parent = <<>> /\ b.target # 0 => InKeyword(st.devices[b.target])
  BY DEF Target
<1>7. b.target # 0 => b.target \in 1..Len(st.devices)
  BY <1>1, <1>4, <1>6
<1>8. c.target <= Len(s.devices) /\ \A l \in 1..k - 1 : s.blocks[l].target <= c.target
  <2>1. \A l \in 1..k - 1 : s.blocks[l].target = st.blocks[l].target
    BY <1>3
  <2> QED BY <1>1, <1>4, <1>5, <1>6, <2>1
<1>9. ASSUME c.root \in R
      PROVE  /\ c.target # 0
             /\ \A j \in 1..c.target - 1 : s.devices[j].end <= s.devices[c.target].start
  <2>1. b.root \in R /\ b.target # 0 /\ b.target \in 1..Len(st.devices)
    BY <1>5, <1>6, <1>7, <1>9
  <2>2. s.devices[b.target].start = st.devices[b.target].start
    BY <2>1
  <2>3. ASSUME NEW j \in 1..b.target - 1
        PROVE  s.devices[j].end <= s.devices[b.target].start
    <3>1. j \in 1..Len(st.devices) /\ j < b.target
      BY <1>1, <2>1
    <3>2. s.devices[j].end = st.devices[j].end
      BY <2>1, <3>1
    <3> QED BY <1>6, <2>1, <2>2, <3>2
  <2> QED BY <1>5, <2>1, <2>3
<1>10. ASSUME c.flags /\ c.parent = <<>> /\ c.target # 0
       PROVE  InKeyword(s.devices[c.target])
  <2>1. InKeyword(st.devices[b.target])
    BY <1>5, <1>6, <1>10
  <2>2. s.devices[b.target].at = st.devices[b.target].at
    BY <1>5, <1>7, <1>10
  <2> QED BY <1>5, <2>1, <2>2 DEF InKeyword
<1> QED BY <1>8, <1>9, <1>10 DEF Target

\* The innermost call goes on, its device and the others where they were.
LEMMA TargetsGoOn ==
  ASSUME NEW R, NEW st \in States, NEW s \in States, NEW key, NEW next,
         Targets(R, st), GoesTo(st, s, key, next), Stay(st, s)
  PROVE  Targets(R, s)
<1> SUFFICES ASSUME NEW k \in 1..Len(s.blocks) PROVE Target(R, s, k)
  BY DEF Targets
<1>1. k \in 1..Len(st.blocks) /\ Target(R, st, k)
  BY DEF GoesTo, Targets
<1>2. Len(st.devices) \in Nat /\ Len(s.devices) = Len(st.devices)
  BY DeviceTypes DEF Stay
<1>3. Len(st.blocks) \in Nat
  <2>1. st.blocks \in Seq(BlockStates)
    BY DEF States
  <2> QED BY <2>1
<1>4. \A l \in 1..k :
         /\ s.blocks[l].root = st.blocks[l].root /\ s.blocks[l].flags = st.blocks[l].flags
         /\ s.blocks[l].parent = st.blocks[l].parent
         /\ s.blocks[l].target = st.blocks[l].target
  <2>1. \A l \in 1..k : l \in 1..Len(st.blocks)
    BY <1>1, <1>3
  <2> QED BY <2>1 DEF GoesTo
<1>5. Len(st.devices) <= Len(s.devices)
  BY <1>2
<1>6. \A i \in 1..Len(st.devices) :
         /\ s.devices[i].start = st.devices[i].start
         /\ s.devices[i].at = st.devices[i].at
         /\ st.blocks[k].root \in R /\ i < st.blocks[k].target =>
               s.devices[i].end = st.devices[i].end
  BY DEF Stay
<1> QED BY <1>1, <1>4, <1>5, <1>6, TargetStays

\* An item of a marked block ends, and with it the window of its device.
LEMMA NestedEnds ==
  ASSUME NEW R, NEW st \in States, NEW s \in States, NEW k \in 1..Len(st.blocks),
         Nested(st), Target(R, st, k), st.blocks[k].root \in R,
         Len(s.devices) = Len(st.devices), s.pos \in {st.pos, st.pos + 1},
         \A i \in 1..Len(st.devices) :
            /\ s.devices[i].start = st.devices[i].start
            /\ s.devices[i].end = IF i = st.blocks[k].target THEN s.pos ELSE st.devices[i].end
  PROVE  Nested(s)
<1> DEFINE t == st.blocks[k].target
<1>1. /\ Len(st.devices) \in Nat /\ st.pos \in Nat
      /\ \A i \in 1..Len(st.devices) :
            st.devices[i].start \in Nat /\ st.devices[i].end \in Nat
  BY DeviceTypes DEF States
<1>2. /\ t \in Nat /\ t # 0 /\ t <= Len(st.devices)
      /\ \A j \in 1..t - 1 : st.devices[j].end <= st.devices[t].start
  <2>1. st.blocks \in Seq(BlockStates)
    BY DEF States
  <2>2. st.blocks[k] \in BlockStates
    BY <2>1, ElementOfSeq
  <2> QED BY <2>2 DEF BlockStates, Target
<1> HIDE DEF t
<1>3. \A i \in 1..Len(st.devices) :
         /\ s.devices[i].start = st.devices[i].start
         /\ s.devices[i].end = IF i = t THEN s.pos ELSE st.devices[i].end
  BY DEF t
<1>4. \A j \in 1..Len(st.devices) :
         /\ st.devices[j].start <= st.devices[j].end /\ st.devices[j].end <= st.pos
         /\ \A i \in 1..j - 1 :
               /\ st.devices[i].start < st.devices[j].start
               /\ \/ st.devices[i].end <= st.devices[j].start
                  \/ st.devices[j].end <= st.devices[i].end
  BY DEF Nested
<1> SUFFICES ASSUME NEW j \in 1..Len(st.devices)
             PROVE  /\ s.devices[j].start <= s.devices[j].end /\ s.devices[j].end <= s.pos
                    /\ \A i \in 1..j - 1 :
                          /\ s.devices[i].start < s.devices[j].start
                          /\ \/ s.devices[i].end <= s.devices[j].start
                             \/ s.devices[j].end <= s.devices[i].end
  BY DEF Nested
<1>5. s.devices[j].start <= s.devices[j].end /\ s.devices[j].end <= s.pos
  <2>1. CASE j = t
    <3>1. s.devices[j].end = s.pos /\ s.devices[j].start = st.devices[j].start
      BY <1>3, <2>1
    <3>2. st.devices[j].start <= st.devices[j].end /\ st.devices[j].end <= st.pos
          /\ st.devices[j].start \in Nat /\ st.devices[j].end \in Nat
      BY <1>1, <1>4
    <3>3. s.pos \in Nat /\ st.pos <= s.pos
      BY <1>1
    <3> QED BY <1>1, <3>1, <3>2, <3>3
  <2>2. CASE j # t
    BY <1>1, <1>3, <1>4, <2>2
  <2> QED BY <2>1, <2>2
<1>6. ASSUME NEW i \in 1..j - 1
      PROVE  /\ s.devices[i].start < s.devices[j].start
             /\ \/ s.devices[i].end <= s.devices[j].start
                \/ s.devices[j].end <= s.devices[i].end
  <2>1. i \in 1..Len(st.devices)
    BY <1>1
  <2>2. s.devices[i].start = st.devices[i].start /\ s.devices[j].start = st.devices[j].start
    BY <1>3, <2>1
  <2>3. st.devices[i].start < st.devices[j].start
    BY <1>4
  <2>4. CASE i = t
    <3>1. j # t
      BY <2>4
    <3>2. s.devices[i].end = s.pos /\ s.devices[j].end = st.devices[j].end
      BY <1>3, <2>1, <2>4, <3>1
    <3>3. st.devices[j].end <= s.pos
      BY <1>1, <1>4
    <3> QED BY <2>2, <2>3, <3>2, <3>3
  <2>5. CASE j = t
    <3>1. i # t
      BY <2>5
    <3>2. s.devices[i].end = st.devices[i].end
      BY <1>3, <2>1, <3>1
    <3>3. st.devices[i].end <= st.devices[j].start
      BY <1>2, <2>5
    <3> QED BY <2>2, <2>3, <3>2, <3>3
  <2>6. CASE i # t /\ j # t
    <3>1. s.devices[i].end = st.devices[i].end /\ s.devices[j].end = st.devices[j].end
      BY <1>3, <2>1, <2>6
    <3> QED BY <1>4, <2>2, <2>3, <3>1
  <2> QED BY <2>4, <2>5, <2>6
<1> QED BY <1>5, <1>6

\* The device of a marked block is not one before the device of a block around.
LEMMA TargetsEnd ==
  ASSUME NEW R, NEW st \in States, NEW s \in States, NEW key, NEW next, st.blocks # <<>>,
         Targets(R, st), GoesTo(st, s, key, next),
         Len(s.devices) = Len(st.devices),
         \A i \in 1..Len(st.devices) :
            /\ s.devices[i].start = st.devices[i].start
            /\ s.devices[i].at = st.devices[i].at
            /\ i # Inner(st).target => s.devices[i].end = st.devices[i].end
  PROVE  Targets(R, s)
<1> DEFINE m == Len(st.blocks)
<1> SUFFICES ASSUME NEW k \in 1..Len(s.blocks) PROVE Target(R, s, k)
  BY DEF Targets
<1>1. k \in 1..m /\ Target(R, st, k)
  BY DEF GoesTo, Targets
<1>2. Len(st.devices) \in Nat
  BY DeviceTypes
<1>3. m \in Nat \ {0} /\ Inner(st) = st.blocks[m]
  BY InnerIs
<1>4. st.blocks[k].target \in Nat /\ st.blocks[m].target \in Nat
  <2>1. st.blocks \in Seq(BlockStates) /\ m \in 1..m
    BY <1>3 DEF States
  <2>2. st.blocks[k] \in BlockStates /\ st.blocks[m] \in BlockStates
    BY <1>1, <2>1, ElementOfSeq
  <2> QED BY <2>2 DEF BlockStates
<1>5. st.blocks[k].target <= st.blocks[m].target
  <2>1. Target(R, st, m)
    BY <1>3 DEF Targets
  <2>2. k # m => k \in 1..m - 1
    BY <1>1, <1>3
  <2> QED BY <1>4, <2>1, <2>2 DEF Target
<1>6. \A l \in 1..k :
         /\ s.blocks[l].root = st.blocks[l].root /\ s.blocks[l].flags = st.blocks[l].flags
         /\ s.blocks[l].parent = st.blocks[l].parent
         /\ s.blocks[l].target = st.blocks[l].target
  <2>1. \A l \in 1..k : l \in 1..m
    BY <1>1, <1>3
  <2> QED BY <2>1 DEF GoesTo
<1>7. Len(st.devices) <= Len(s.devices)
  BY <1>2
<1>8. ASSUME NEW i \in 1..Len(st.devices)
      PROVE  /\ s.devices[i].start = st.devices[i].start
             /\ s.devices[i].at = st.devices[i].at
             /\ st.blocks[k].root \in R /\ i < st.blocks[k].target =>
                   s.devices[i].end = st.devices[i].end
  <2>1. i < st.blocks[k].target => i # Inner(st).target
    BY <1>2, <1>3, <1>4, <1>5
  <2> QED BY <2>1
<1> QED BY <1>1, <1>6, <1>7, <1>8, TargetStays

\* A call at a marked root makes a device.
LEMMA MadeOneMore ==
  ASSUME NEW R \in SUBSET Nat, NEW st, NEW s, st.root \in Nat, s.root = st.root + 1
  PROVE  /\ Cardinality(Made(R, st)) \in Nat
         /\ Cardinality(Made(R, s)) = Cardinality(Made(R, st))
                                        + (IF st.root \in R THEN 1 ELSE 0)
<1> DEFINE n == st.root
<1>0. /\ n \in Nat /\ Made(R, st) = {r \in R : r < n} /\ Made(R, s) = {r \in R : r < n + 1}
      /\ \A r \in R : r \in Nat
  BY DEF Made
<1> HIDE DEF n
<1>1. IsFiniteSet(0..n)
  BY <1>0, FS_Interval
<1>2. Made(R, st) \subseteq 0..n
  <2>1. ASSUME NEW r \in Made(R, st) PROVE r \in 0..n
    <3>1. r \in Nat /\ r < n
      BY <1>0, <2>1
    <3> QED BY <1>0, <3>1
  <2> QED BY <2>1
<1>3. IsFiniteSet(Made(R, st))
  BY <1>1, <1>2, FS_Subset
<1>4. Cardinality(Made(R, st)) \in Nat
  BY <1>3, FS_CardinalityType
<1>5. CASE n \in R
  <2>1. Made(R, s) = Made(R, st) \cup {n} /\ n \notin Made(R, st)
    <3>1. \A r \in R : r < n + 1 <=> r < n \/ r = n
      BY <1>0
    <3>2. n \in R /\ n < n + 1 /\ ~(n < n)
      BY <1>0, <1>5
    <3>3. Made(R, st) = {r \in R : r < n} /\ Made(R, s) = {r \in R : r < n + 1}
      BY <1>0
    <3>4. ASSUME NEW r PROVE r \in Made(R, s) <=> r \in Made(R, st) \cup {n}
      BY <3>1, <3>2, <3>3
    <3>5. n \notin Made(R, st)
      BY <3>2, <3>3
    <3> QED BY <3>4, <3>5
  <2>2. Cardinality(Made(R, st) \cup {n}) = Cardinality(Made(R, st)) + 1
    BY <1>3, <2>1, FS_AddElement
  <2> QED BY <1>4, <1>5, <2>1, <2>2 DEF n
<1>6. CASE n \notin R
  <2>1. Made(R, s) = Made(R, st)
    <3>1. \A r \in R : r < n + 1 <=> r < n
      BY <1>0, <1>6
    <3> QED BY <1>0, <3>1
  <2> QED BY <1>4, <1>6, <2>1 DEF n
<1> QED BY <1>4, <1>5, <1>6

\* What a call needs, for its device and its block to be as the others are.
LEMMA CallNested ==
  ASSUME NEW st \in States, NEW s, NEW parent, NEW flags, NEW target, NEW at,
         Calls(st, s, parent, flags, target, at), Nested(st),
         \A i \in 1..Len(st.devices) : st.devices[i].start < st.pos
  PROVE  Nested(s)
<1> DEFINE n == Len(st.devices)
           marked == st.root \in st.roots
<1>1. /\ n \in Nat /\ st.pos \in Nat
      /\ \A i \in 1..n : st.devices[i].start \in Nat /\ st.devices[i].end \in Nat
  BY DeviceTypes DEF States
<1>2. /\ s.pos = st.pos
      /\ Len(s.devices) = (IF marked THEN n + 1 ELSE n)
      /\ \A i \in 1..n : s.devices[i] = st.devices[i]
      /\ marked => s.devices[n + 1].start = st.pos /\ s.devices[n + 1].end = st.pos
  BY DEF Calls
<1> HIDE DEF marked
<1>3. \A j \in 1..n :
         /\ st.devices[j].start <= st.devices[j].end /\ st.devices[j].end <= st.pos
         /\ \A i \in 1..j - 1 :
               /\ st.devices[i].start < st.devices[j].start
               /\ \/ st.devices[i].end <= st.devices[j].start
                  \/ st.devices[j].end <= st.devices[i].end
  BY DEF Nested
<1> SUFFICES ASSUME NEW j \in 1..Len(s.devices)
             PROVE  /\ s.devices[j].start <= s.devices[j].end /\ s.devices[j].end <= s.pos
                    /\ \A i \in 1..j - 1 :
                          /\ s.devices[i].start < s.devices[j].start
                          /\ \/ s.devices[i].end <= s.devices[j].start
                             \/ s.devices[j].end <= s.devices[i].end
  BY DEF Nested
<1>4. CASE j \in 1..n
  <2>1. \A i \in 1..j - 1 : i \in 1..n
    BY <1>1, <1>4
  <2>2. s.devices[j] = st.devices[j] /\ \A i \in 1..j - 1 : s.devices[i] = st.devices[i]
    BY <1>2, <1>4, <2>1
  <2> QED BY <1>2, <1>3, <1>4, <2>2
<1>5. CASE j \notin 1..n
  <2>1. marked /\ j = n + 1
    BY <1>1, <1>2, <1>5
  <2>2. s.devices[j].start = st.pos /\ s.devices[j].end = st.pos
    BY <1>2, <2>1
  <2>3. ASSUME NEW i \in 1..j - 1
        PROVE  s.devices[i].start < s.devices[j].start /\ s.devices[i].end <= s.devices[j].start
    <3>1. i \in 1..n
      BY <1>1, <2>1
    <3>2. s.devices[i] = st.devices[i] /\ st.devices[i].end <= st.pos
      BY <1>2, <1>3, <3>1
    <3> QED BY <2>2, <3>1, <3>2
  <2> QED BY <1>1, <1>2, <2>2, <2>3
<1> QED BY <1>4, <1>5

LEMMA CallTargets ==
  ASSUME NEW R, NEW st \in States, NEW s, NEW parent, NEW flags, NEW target \in Nat, NEW at,
         Calls(st, s, parent, flags, target, at), Nested(st), Targets(R, st), st.roots = R,
         target <= Len(st.devices),
         \A l \in 1..Len(st.blocks) : st.blocks[l].target <= target,
         flags => parent # <<>> /\ at # <<>> /\ Last(at) \in Keywords
  PROVE  Targets(R, s)
<1> DEFINE n == Len(st.devices)
           m == Len(st.blocks)
           marked == st.root \in R
<1>1. /\ n \in Nat /\ st.pos \in Nat
      /\ \A i \in 1..n : st.devices[i].start \in Nat /\ st.devices[i].end \in Nat
  BY DeviceTypes DEF States
<1>2. st.blocks \in Seq(BlockStates) /\ m \in Nat
  <2>1. st.blocks \in Seq(BlockStates)
    BY DEF States
  <2> QED BY <2>1
<1>3. /\ s \in States /\ s.pos = st.pos /\ Len(s.blocks) = m + 1
      /\ \A i \in 1..m : s.blocks[i] = st.blocks[i]
      /\ s.blocks[m + 1].root = st.root
      /\ s.blocks[m + 1].flags = flags
      /\ s.blocks[m + 1].parent = (IF marked THEN <<>> ELSE parent)
      /\ s.blocks[m + 1].target = (IF marked THEN n + 1 ELSE target)
      /\ Len(s.devices) = (IF marked THEN n + 1 ELSE n)
      /\ \A i \in 1..n : s.devices[i] = st.devices[i]
      /\ marked => s.devices[n + 1].start = st.pos /\ s.devices[n + 1].at = at
  BY DEF Calls
<1> HIDE DEF marked
<1> SUFFICES ASSUME NEW k \in 1..Len(s.blocks) PROVE Target(R, s, k)
  BY DEF Targets
<1>4. CASE k \in 1..m
  <2>1. Target(R, st, k)
    BY <1>4 DEF Targets
  <2>2. \A l \in 1..k : s.blocks[l] = st.blocks[l]
    BY <1>2, <1>3, <1>4
  <2>3. n <= Len(s.devices)
    BY <1>1, <1>3
  <2> HIDE DEF n, m
  <2>4. \A i \in 1..Len(st.devices) :
           /\ s.devices[i].start = st.devices[i].start
           /\ s.devices[i].at = st.devices[i].at
           /\ st.blocks[k].root \in R /\ i < st.blocks[k].target =>
                 s.devices[i].end = st.devices[i].end
    BY <1>3 DEF n
  <2>5. \A l \in 1..k :
            /\ s.blocks[l].root = st.blocks[l].root /\ s.blocks[l].flags = st.blocks[l].flags
            /\ s.blocks[l].parent = st.blocks[l].parent
            /\ s.blocks[l].target = st.blocks[l].target
    BY <2>2
  <2>6. s \in States /\ k \in 1..Len(st.blocks) /\ Len(st.devices) <= Len(s.devices)
    BY <1>3, <1>4, <2>3 DEF n, m
  <2> QED BY <2>1, <2>4, <2>5, <2>6, TargetStays
<1>5. CASE k \notin 1..m
  <2>1. k = m + 1
    BY <1>2, <1>3, <1>5
  <2>2. \A l \in 1..k - 1 : s.blocks[l].target = st.blocks[l].target /\ st.blocks[l].target <= target
    BY <1>2, <1>3, <2>1
  <2> DEFINE c == s.blocks[k]
  <2>3. /\ c.root = st.root /\ c.flags = flags
        /\ c.parent = (IF marked THEN <<>> ELSE parent)
        /\ c.target = (IF marked THEN n + 1 ELSE target)
    BY <1>3, <2>1
  <2> HIDE DEF c
  <2>4. \A l \in 1..k - 1 : st.blocks[l].target \in Nat
    <3>1. \A l \in 1..k - 1 : l \in 1..m
      BY <1>2, <2>1
    <3>2. \A l \in 1..m : st.blocks[l] \in BlockStates
      BY <1>2, ElementOfSeq
    <3> QED BY <3>1, <3>2 DEF BlockStates
  <2>5. CASE marked
    <3>1. c.target = n + 1 /\ Len(s.devices) = n + 1
      BY <1>3, <2>3, <2>5
    <3>2. c.target # 0 /\ c.target <= Len(s.devices)
      BY <1>1, <3>1
    <3>3. ASSUME NEW l \in 1..k - 1 PROVE s.blocks[l].target <= c.target
      <4>1. st.blocks[l].target \in Nat /\ st.blocks[l].target <= target
            /\ s.blocks[l].target = st.blocks[l].target
        BY <2>2, <2>4
      <4>2. target <= n /\ n \in Nat /\ target \in Nat
        BY <1>1
      <4> HIDE DEF n
      <4> QED BY <3>1, <4>1, <4>2
    <3>4. ASSUME NEW j \in 1..c.target - 1
          PROVE  s.devices[j].end <= s.devices[c.target].start
      <4>1. j \in 1..n
        BY <1>1, <3>1
      <4>2. s.devices[j] = st.devices[j] /\ st.devices[j].end <= st.pos
        BY <1>3, <4>1 DEF Nested
      <4>3. s.devices[c.target].start = st.pos
        BY <1>3, <2>5, <3>1
      <4> QED BY <4>2, <4>3
    <3>5. ASSUME c.flags PROVE InKeyword(s.devices[c.target])
      <4>1. s.devices[c.target].at = at /\ at # <<>> /\ Last(at) \in Keywords
        BY <1>3, <2>3, <2>5, <3>1, <3>5
      <4> QED BY <4>1 DEF InKeyword
    <3> QED BY <3>2, <3>3, <3>4, <3>5 DEF Target, c
  <2>6. CASE ~marked
    <3>1. /\ c.target = target /\ Len(s.devices) = n /\ c.parent = parent
          /\ ~(c.root \in R)
      BY <1>3, <2>3, <2>6 DEF marked
    <3>2. \A l \in 1..k - 1 : s.blocks[l].target <= c.target
      BY <2>2, <3>1
    <3>3. ~(c.flags /\ c.parent = <<>>)
      BY <2>3, <3>1
    <3> QED BY <3>1, <3>2, <3>3 DEF Target, c
  <2> QED BY <2>5, <2>6
<1> QED BY <1>4, <1>5

LEMMA Pass1Step ==
  ASSUME ConfigInv, NEW R, NEW st, Pass1Inv(R, st), ~Over(st), Step(st).roots = R
  PROVE  Pass1Inv(R, Step(st))
<1> DEFINE s == Step(st)
           m == Len(st.blocks)
           n == Len(st.devices)
           b == Inner(st)
<1>1. /\ st \in States /\ st.blocks # <<>> /\ ~st.crash /\ st.pos \in Nat \ {0}
      /\ m \in Nat \ {0} /\ At(st.pos) \in Tokens /\ b \in BlockStates /\ b = st.blocks[m]
      /\ b.stage \in {"item", "first", "rest"}
  BY BasicFacts DEF Pass1Inv
<1>2. /\ st.roots = R /\ Nested(st) /\ Targets(R, st) /\ n = Cardinality(Made(R, st))
      /\ Basic(s) /\ s \in States
  BY BasicStep DEF Pass1Inv, Basic
<1>3. /\ n \in Nat /\ st.root \in Nat /\ R \in SUBSET Nat /\ m \in 1..m /\ b.target \in Nat
      /\ \A i \in 1..n : st.devices[i].start \in Nat /\ st.devices[i].end \in Nat
  <2>1. st.root \in Nat /\ R \in SUBSET Nat
    BY <1>1, <1>2 DEF States
  <2>2. b.target \in Nat
    <3> HIDE DEF b
    <3> QED BY <1>1 DEF BlockStates
  <2>3. m \in 1..m
    BY <1>1
  <2> QED BY <1>1, <2>1, <2>2, <2>3, DeviceTypes
<1>4. ASSUME s.root = st.root, Len(s.devices) = n
      PROVE  Len(s.devices) = Cardinality(Made(R, s))
  BY <1>2, <1>4 DEF Made
<1>5. CASE b.stage = "item" /\ At(st.pos) \in {Eos, RBrace} /\ s = CloseBlock(st)
  <2>1. /\ s.pos \in {st.pos, st.pos + 1}
        /\ s.root = st.root /\ s.crash = st.crash /\ s.devices = st.devices
        /\ Len(s.blocks) = m - 1
        /\ \A i \in 1..Len(s.blocks) : s.blocks[i] = st.blocks[i]
    BY <1>1, <1>5, CloseBlockIs
  <2>2. Nested(s)
    BY <1>1, <1>2, <2>1, NestedStays DEF Stay
  <2>3. ASSUME NEW k \in 1..Len(s.blocks) PROVE Target(R, s, k)
    <3>1. k \in 1..m /\ Target(R, st, k)
      BY <1>1, <1>2, <2>1 DEF Targets
    <3>2. \A l \in 1..k : s.blocks[l] = st.blocks[l]
      BY <1>1, <2>1
    <3>3. k \in 1..k /\ \A l \in 1..k - 1 : l \in 1..k
      BY <1>1, <2>1
    <3> QED BY <2>1, <3>1, <3>2, <3>3 DEF Target
  <2> QED BY <1>1, <1>2, <1>4, <2>1, <2>2, <2>3 DEF Pass1Inv, Targets
<1>6. CASE b.stage = "item" /\ At(st.pos) # Eos /\ s = BeginItem(st)
  <2>1. /\ s.pos \in {st.pos, st.pos + 1} /\ s.root = st.root /\ s.crash = st.crash
        /\ s.devices = st.devices /\ GoesTo(st, s, s.key, "first")
    BY <1>1, <1>6, BeginItemIs
  <2>2. Stay(st, s)
    BY <2>1 DEF Stay
  <2>3. Nested(s)
    BY <1>1, <1>2, <2>1, <2>2, NestedStays
  <2>4. Targets(R, s)
    BY <1>1, <1>2, <2>1, <2>2, TargetsGoOn
  <2> QED BY <1>1, <1>2, <1>4, <2>1, <2>3, <2>4 DEF Pass1Inv
<1>7. CASE b.stage # "item" /\ At(st.pos) \in {Eos, Semicolon} /\ s = EndItem(st)
  <2>1. /\ s.pos \in {st.pos, st.pos + 1} /\ s.root = st.root /\ s.crash = st.crash
        /\ GoesTo(st, s, b.key, "item")
        /\ Len(s.devices) = n
        /\ \A i \in 1..n :
              /\ s.devices[i].start = st.devices[i].start
              /\ s.devices[i].at = st.devices[i].at
              /\ s.devices[i].end = IF b.root \in st.roots /\ i = b.target
                                    THEN s.pos ELSE st.devices[i].end
    BY <1>1, <1>7, EndItemIs
  <2>2. Targets(R, s)
    <3>1. \A i \in 1..n :
             /\ s.devices[i].start = st.devices[i].start
             /\ s.devices[i].at = st.devices[i].at
             /\ i # b.target => s.devices[i].end = st.devices[i].end
      BY <2>1
    <3> QED BY <1>1, <1>2, <2>1, <3>1, TargetsEnd
  <2>3. Nested(s)
    <3>1. CASE b.root \in R
      <4>1. Target(R, st, m) /\ st.blocks[m].root \in R
        BY <1>1, <1>2, <1>3, <3>1 DEF Targets
      <4>2. \A i \in 1..n :
               /\ s.devices[i].start = st.devices[i].start
               /\ s.devices[i].end = IF i = st.blocks[m].target
                                     THEN s.pos ELSE st.devices[i].end
        BY <1>1, <1>2, <2>1, <3>1
      <4> QED BY <1>1, <1>2, <1>3, <2>1, <4>1, <4>2, NestedEnds
    <3>2. CASE b.root \notin R
      <4>1. Stay(st, s)
        BY <1>2, <2>1, <3>2 DEF Stay
      <4> QED BY <1>1, <1>2, <2>1, <4>1, NestedStays
    <3> QED BY <3>1, <3>2
  <2> QED BY <1>1, <1>2, <1>4, <2>1, <2>2, <2>3 DEF Pass1Inv
<1>8. CASE b.stage # "item" /\ At(st.pos) # Eos /\ At(st.pos) = LBrace /\ s = OpenBlock(st)
  <2> DEFINE v == Seen(st)
             parent == Append(b.parent, st.key)
             at == Append(b.at, b.key)
             flags == b.key \in Keywords
  <2>1. /\ v \in States /\ v.pos = st.pos + 1 /\ v.root = st.root /\ v.crash = st.crash
        /\ v.devices = st.devices /\ v.roots = st.roots /\ GoesTo(st, v, b.key, "rest")
    BY <1>1, SeenIs
  <2>2. /\ Calls(v, s, parent, flags, b.target, at)
        /\ parent # <<>> /\ at # <<>> /\ Last(at) = b.key
    BY <1>1, <1>8, OpenBlockIs
  <2> HIDE DEF v, parent, at
  <2>3. Stay(st, v)
    BY <2>1 DEF Stay
  <2>4. Nested(v)
    BY <1>1, <1>2, <2>1, <2>3, NestedStays
  <2>5. Targets(R, v)
    BY <1>1, <1>2, <2>1, <2>3, TargetsGoOn
  <2>6. \A i \in 1..Len(v.devices) : v.devices[i].start < v.pos
    <3>1. \A i \in 1..n : st.devices[i].start <= st.devices[i].end /\ st.devices[i].end <= st.pos
      BY <1>2 DEF Nested
    <3>2. \A i \in 1..n : st.devices[i].start < st.pos + 1
      <4>1. \A x, y, z \in Nat : x <= y /\ y <= z => x < z + 1
        OBVIOUS
      <4>2. st.pos \in Nat
        BY <1>1
      <4> QED BY <1>3, <3>1, <4>1, <4>2
    <3> QED BY <2>1, <3>2
  <2>7. Nested(s)
    BY <2>1, <2>2, <2>4, <2>6, CallNested
  <2>8. /\ b.target <= Len(v.devices)
        /\ \A l \in 1..Len(v.blocks) : v.blocks[l].target <= b.target
    <3>1. Target(R, st, m)
      BY <1>2, <1>3 DEF Targets
    <3>2. b.target <= n /\ \A l \in 1..m - 1 : st.blocks[l].target <= b.target
      BY <1>1, <3>1 DEF Target
    <3>3. \A l \in 1..m : st.blocks[l].target <= b.target
      BY <1>1, <1>3, <3>2
    <3> QED BY <2>1, <3>2, <3>3 DEF GoesTo
  <2>9. Targets(R, s)
    <3>1. flags => parent # <<>> /\ at # <<>> /\ Last(at) \in Keywords
      BY <2>2
    <3> QED BY <1>2, <1>3, <2>1, <2>2, <2>4, <2>5, <2>8, <3>1, CallTargets
  <2>10. /\ s.root = st.root + 1 /\ s.crash = st.crash
         /\ Len(s.devices) = IF st.root \in R THEN n + 1 ELSE n
    BY <1>2, <2>1, <2>2 DEF Calls
  <2>11. Len(s.devices) = Cardinality(Made(R, s))
    BY <1>2, <1>3, <2>10, MadeOneMore
  <2> QED BY <1>1, <1>2, <2>7, <2>9, <2>10, <2>11 DEF Pass1Inv
<1>9. CASE b.stage # "item" /\ At(st.pos) # Eos /\ s = TakeValue(st)
  <2>1. /\ s.pos = st.pos + 1 /\ s.root = st.root
        /\ GoesTo(st, s, b.key, "rest")
        /\ s.crash => st.crash \/ (b.flags /\ b.parent = <<>> /\ b.target # 0)
        /\ Stay(st, s)
    BY <1>1, <1>9, TakeValueIs DEF Stay
  <2>2. Nested(s)
    BY <1>1, <1>2, <2>1, NestedStays
  <2>3. Targets(R, s)
    BY <1>1, <1>2, <2>1, TargetsGoOn
  <2>4. Len(s.devices) = n
    BY <2>1 DEF Stay
  <2>5. ASSUME s.crash PROVE \E i \in 1..Len(s.devices) : InKeyword(s.devices[i])
    <3>1. Target(R, st, m)
      BY <1>2, <1>3 DEF Targets
    <3>2. b.target \in 1..n /\ InKeyword(st.devices[b.target])
      BY <1>1, <1>3, <2>1, <2>5, <3>1 DEF Target
    <3>3. s.devices[b.target].at = st.devices[b.target].at
      BY <2>1, <3>2 DEF Stay
    <3> QED BY <2>4, <3>2, <3>3 DEF InKeyword
  <2> QED BY <1>2, <1>4, <2>1, <2>2, <2>3, <2>4, <2>5 DEF Pass1Inv
<1> QED BY <1>1, <1>5, <1>6, <1>7, <1>8, <1>9, StepCases

-----------------------------------------------------------------------------
\* A pass is its steps, one after the other, and they are enough.

\* The beginning: nothing parsed, and no call yet.
Blank(roots) ==
    [pos |-> 1, root |-> 1, roots |-> roots, devices |-> <<>>, names |-> <<>>,
     key |-> "", crash |-> FALSE, seen |-> <<>>, blocks |-> <<>>]

LEMMA StartIs ==
  ASSUME ConfigInv, NEW roots \in SUBSET Nat
  PROVE  /\ Blank(roots) \in States
         /\ Blank(roots).devices = <<>> /\ Len(Blank(roots).devices) = 0
         /\ Blank(roots).blocks = <<>> /\ Len(Blank(roots).blocks) = 0
         /\ Blank(roots).pos = 1 /\ Blank(roots).root = 1 /\ Blank(roots).roots = roots
         /\ ~Blank(roots).crash
         /\ Calls(Blank(roots), StartPass(roots), <<>>, FALSE, 0, <<>>)
         /\ Basic(StartPass(roots))
<1> DEFINE st == Blank(roots)
<1>1. "" \in Tokens /\ <<>> \in Paths /\ <<>> \in Seq(Paths)
      /\ <<>> \in Seq(Devices) /\ <<>> \in Seq(Values) /\ <<>> \in Seq(BlockStates)
  BY EmptySeq DEF Tokens, Paths
<1>2. st \in States
  BY <1>1 DEF States, Blank
<1>3. /\ st.devices = <<>> /\ Len(st.devices) = 0 /\ st.blocks = <<>> /\ Len(st.blocks) = 0
      /\ st.pos = 1 /\ st.root = 1 /\ st.roots = roots /\ ~st.crash
  BY EmptySeq DEF Blank
<1>4. StartPass(roots) = Call(st, <<>>, FALSE, 0, <<>>)
  BY DEF StartPass, Blank
<1> HIDE DEF st
<1>5. Calls(st, StartPass(roots), <<>>, FALSE, 0, <<>>)
  <2>1. FALSE \in BOOLEAN /\ 0 \in Nat
    OBVIOUS
  <2> QED BY <1>1, <1>2, <1>4, <2>1, CallIs
<1>6. Basic(StartPass(roots))
  <2>1. StartPass(roots) \in States /\ StartPass(roots).pos = 1
    BY <1>3, <1>5 DEF Calls
  <2>2. Len(config) \in Nat
    BY DEF ConfigInv
  <2> QED BY <2>1, <2>2 DEF Basic
<1> QED BY <1>2, <1>3, <1>5, <1>6 DEF st

LEMMA FirstCall ==
  ASSUME ConfigInv, NEW roots \in SUBSET Nat, NEW s, s = StartPass(roots)
  PROVE  /\ s.pos = 1 /\ s.root = 2 /\ s.roots = roots /\ ~s.crash
         /\ s.blocks # <<>> /\ Len(s.blocks) = 1
         /\ s.blocks[1].root = 1 /\ s.blocks[1].stage = "item"
         /\ 1 \notin roots => s.blocks[1].target = 0
         /\ Len(s.devices) = IF 1 \in roots THEN 1 ELSE 0
<1> DEFINE st == Blank(roots)
           m == Len(st.blocks)  n == Len(st.devices)
<1>1. /\ Calls(st, s, <<>>, FALSE, 0, <<>>)
      /\ st.pos = 1 /\ st.root = 1 /\ st.roots = roots /\ ~st.crash /\ m = 0 /\ n = 0
  BY StartIs
<1> HIDE DEF st
<1>2. /\ s.pos = st.pos /\ s.root = st.root + 1 /\ s.roots = st.roots /\ s.crash = st.crash
      /\ s.blocks # <<>> /\ Len(s.blocks) = m + 1
      /\ s.blocks[m + 1].root = st.root /\ s.blocks[m + 1].stage = "item"
      /\ st.root \notin st.roots => s.blocks[m + 1].target = 0
      /\ Len(s.devices) = IF st.root \in st.roots THEN n + 1 ELSE n
  BY <1>1 DEF Calls
<1> HIDE DEF m, n
<1>3. m + 1 = 1 /\ n + 1 = 1 /\ 1 + 1 = 2
  BY <1>1
<1>4. s.pos = 1 /\ s.root = 2 /\ s.roots = roots /\ ~s.crash /\ s.blocks # <<>>
  BY <1>1, <1>2, <1>3
<1>5. /\ Len(s.blocks) = 1 /\ s.blocks[1].root = 1 /\ s.blocks[1].stage = "item"
      /\ 1 \notin roots => s.blocks[1].target = 0
  BY <1>1, <1>2, <1>3
<1>6. Len(s.devices) = IF 1 \in roots THEN 1 ELSE 0
  BY <1>1, <1>2, <1>3
<1> QED BY <1>4, <1>5, <1>6

\* g is the pass with these marks, state by state.
Runs(g, roots) ==
    /\ \A n \in Nat : Basic(g[n]) /\ g[n + 1] = Step(g[n])
    /\ g[0] = StartPass(roots)
    /\ Pass(roots) = g[Steps]

LEMMA StepsType == ConfigInv => Steps \in Nat
<1> SUFFICES ASSUME ConfigInv PROVE Steps \in Nat
  OBVIOUS
<1>1. Len(config) \in Nat
  BY DEF ConfigInv
<1> QED BY <1>1 DEF Steps

LEMMA RunExists ==
  ASSUME ConfigInv, NEW roots \in SUBSET Nat
  PROVE  \E g : Runs(g, roots)
<1> DEFINE V == {st \in States : Basic(st)}
           succ == [nv \in Nat \X V |-> Step(nv[2])]
           init == StartPass(roots)
<1>1. init \in V
  BY StartIs DEF Basic
<1>2. \A st \in V : Step(st) \in V
  <2> SUFFICES ASSUME NEW st \in V PROVE Step(st) \in V
    OBVIOUS
  <2>1. CASE Over(st)
    BY <2>1 DEF Step
  <2>2. CASE ~Over(st)
    <3>1. Basic(Step(st))
      BY <2>2, BasicStep
    <3> QED BY <3>1 DEF Basic
  <2> QED BY <2>1, <2>2
<1>3. succ \in [Nat \X V -> V]
  <2> HIDE DEF V
  <2> QED BY <1>2
<1>4. PICK g \in [Nat -> V] : g[0] = init /\ \A n \in Nat : g[n + 1] = succ[<<n, g[n]>>]
  <2> HIDE DEF V, succ, init
  <2>1. \E g \in [Nat -> V] : Recursion(g, init, succ)
    BY <1>1, <1>3, RecursionExists
  <2> QED BY <2>1 DEF Recursion
<1>5. \A n \in Nat : g[n] \in V /\ g[n + 1] = Step(g[n])
  <2> SUFFICES ASSUME NEW n \in Nat PROVE g[n] \in V /\ g[n + 1] = Step(g[n])
    OBVIOUS
  <2>1. g[n] \in V
    BY <1>4
  <2>2. g[n + 1] = succ[<<n, g[n]>>]
    BY <1>4
  <2>3. <<n, g[n]>> \in Nat \X V /\ <<n, g[n]>>[2] = g[n]
    BY <2>1
  <2> HIDE DEF V
  <2> QED BY <2>1, <2>2, <2>3
<1>6. g[0] = init
  BY <1>4
<1> HIDE DEF succ, init
<1>7. \A n \in Nat : Basic(g[n])
  BY <1>5
<1> HIDE DEF V
<1> DEFINE a == After(roots)
           G == [n \in Nat |-> {g[n]}]
<1>8. G = [n \in Nat |-> IF n = 0 THEN {init} ELSE {Step(st) : st \in G[n - 1]}]
  <2>1. ASSUME NEW n \in Nat
        PROVE  {g[n]} = IF n = 0 THEN {init} ELSE {Step(st) : st \in G[n - 1]}
    <3>1. CASE n = 0
      BY <1>6, <3>1
    <3>2. CASE n # 0
      <4>1. n - 1 \in Nat /\ (n - 1) + 1 = n
        BY <3>2
      <4>2. g[n] = Step(g[n - 1])
        BY <1>5, <4>1
      <4>3. G[n - 1] = {g[n - 1]}
        BY <4>1
      <4>4. {Step(st) : st \in {g[n - 1]}} = {Step(g[n - 1])}
        OBVIOUS
      <4> QED BY <3>2, <4>2, <4>3, <4>4
    <3> QED BY <3>1, <3>2
  <2> QED BY <2>1
<1> HIDE DEF G
<1>9. a = CHOOSE h : h = [n \in Nat |-> IF n = 0 THEN {init} ELSE {Step(st) : st \in h[n - 1]}]
  BY DEF After, init
<1>10. a = [n \in Nat |-> IF n = 0 THEN {init} ELSE {Step(st) : st \in a[n - 1]}]
  <2> HIDE DEF a
  <2> QED BY <1>8, <1>9
<1> HIDE DEF a
<1> DEFINE S == {n \in Nat : a[n] = {g[n]}}
<1>11. 0 \in S
  BY <1>6, <1>10
<1>12. ASSUME NEW n \in S PROVE n + 1 \in S
  <2>1. n \in Nat /\ n + 1 \in Nat /\ n + 1 # 0 /\ (n + 1) - 1 = n /\ a[n] = {g[n]}
    OBVIOUS
  <2>2. a[n + 1] = {Step(st) : st \in a[n]}
    BY <1>10, <2>1
  <2>3. a[n + 1] = {Step(g[n])}
    BY <2>1, <2>2
  <2>4. g[n + 1] = Step(g[n])
    BY <1>5, <2>1
  <2> QED BY <2>1, <2>3, <2>4
<1>13. S = Nat
  <2> HIDE DEF S
  <2>1. S \subseteq Nat
    BY DEF S
  <2> QED BY <1>11, <1>12, <2>1, Induction
<1>14. a[Steps] = {g[Steps]}
  BY <1>13, StepsType
<1>15. Pass(roots) = g[Steps]
  BY <1>14 DEF Pass, a
<1> QED BY <1>5, <1>6, <1>7, <1>15 DEF Runs, init

\* There are steps enough.
LEMMA RunEnds ==
  ASSUME ConfigInv, NEW roots \in SUBSET Nat, NEW g, Runs(g, roots)
  PROVE  Over(g[Steps])
<1> DEFINE L == Len(config)
           S == {n \in Nat : Over(g[n]) \/ Rank(g[n]) + n <= 4 * L + 3}
<1>1. L \in Nat /\ \A n \in Nat : Basic(g[n]) /\ g[n + 1] = Step(g[n])
  BY DEF ConfigInv, Runs
<1>2. 0 \in S
  <2>1. g[0].pos = 1 /\ Len(g[0].blocks) = 1
    <3>1. Calls(Blank(roots), g[0], <<>>, FALSE, 0, <<>>)
          /\ Blank(roots).pos = 1 /\ Len(Blank(roots).blocks) = 0
      BY StartIs DEF Runs
    <3>2. g[0].pos = Blank(roots).pos /\ Len(g[0].blocks) = Len(Blank(roots).blocks) + 1
      BY <3>1 DEF Calls
    <3> QED BY <3>1, <3>2
  <2>2. Late(g[0]) \in {0, 1}
    BY LateType
  <2>3. Rank(g[0]) <= 4 * L + 3
    <3>1. Rank(g[0]) = 4 * (L + 1 - 1) + 2 * 1 + Late(g[0])
      BY <2>1 DEF Rank
    <3>2. \A l \in Nat, x \in {0, 1} : 4 * (l + 1 - 1) + 2 * 1 + x <= 4 * l + 3
      OBVIOUS
    <3> HIDE DEF L
    <3> QED BY <1>1, <2>2, <3>1, <3>2 DEF L
  <2>4. Rank(g[0]) \in Nat
    BY <1>1, RankType
  <2> QED BY <1>1, <2>3, <2>4
<1>3. ASSUME NEW n \in S PROVE n + 1 \in S
  <2>1. n \in Nat /\ g[n + 1] = Step(g[n]) /\ Basic(g[n]) /\ Basic(g[n + 1])
    <3>1. n \in Nat /\ n + 1 \in Nat
      OBVIOUS
    <3> HIDE DEF S
    <3> QED BY <1>1, <3>1
  <2>2. CASE Over(g[n])
    <3>1. Over(g[n + 1])
      BY <2>1, <2>2 DEF Step
    <3> QED BY <2>1, <3>1
  <2>3. CASE ~Over(g[n])
    <3>1. Rank(g[n + 1]) < Rank(g[n])
      BY <2>1, <2>3, BasicStep
    <3>2. Rank(g[n]) \in Nat /\ Rank(g[n + 1]) \in Nat
      BY <2>1, RankType
    <3>3. Rank(g[n]) + n <= 4 * L + 3
      BY <2>3
    <3>4. Rank(g[n + 1]) + (n + 1) <= 4 * L + 3
      BY <1>1, <2>1, <3>1, <3>2, <3>3
    <3> QED BY <2>1, <3>4
  <2> QED BY <2>2, <2>3
<1>4. S = Nat
  <2> HIDE DEF S
  <2>1. S \subseteq Nat
    BY DEF S
  <2> QED BY <1>2, <1>3, <2>1, Induction
<1>5. Steps \in Nat /\ Steps = 4 * L + 4
  BY StepsType DEF Steps
<1>6. Rank(g[Steps]) \in Nat
  BY <1>1, <1>5, RankType
<1>7. Over(g[Steps]) \/ Rank(g[Steps]) + Steps <= 4 * L + 3
  BY <1>4, <1>5
<1> QED BY <1>1, <1>5, <1>6, <1>7

-----------------------------------------------------------------------------
\* The passes together.

LEMMA Pass0Runs ==
  ASSUME ConfigInv, NEW g, Runs(g, {})
  PROVE  /\ \A n \in Nat : Pass0Inv(g[n])
         /\ \A n \in 0..Steps : g[n].roots \subseteq g[Steps].roots
<1>1. \A n \in Nat : g[n + 1] = Step(g[n])
  BY DEF Runs
<1> DEFINE S == {n \in Nat : Pass0Inv(g[n])}
<1>2. 0 \in S
  <2>1. Basic(g[0]) /\ g[0] = StartPass({}) /\ {} \in SUBSET Nat
    BY DEF Runs
  <2>2. /\ g[0].pos = 1 /\ g[0].root = 2 /\ g[0].roots = {} /\ ~g[0].crash
        /\ g[0].blocks # <<>> /\ Len(g[0].blocks) = 1
        /\ g[0].blocks[1].root = 1 /\ g[0].blocks[1].target = 0
    BY <2>1, FirstCall
  <2>3. Marks(g[0]) /\ Plain(g[0])
    BY <2>2 DEF Marks, Plain
  <2> QED BY <2>1, <2>2, <2>3 DEF Pass0Inv
<1>3. \A n \in Nat : Pass0Inv(g[n]) => Pass0Inv(g[n + 1]) /\ g[n].roots \subseteq g[n + 1].roots
  <2> SUFFICES ASSUME NEW n \in Nat, Pass0Inv(g[n])
               PROVE  Pass0Inv(g[n + 1]) /\ g[n].roots \subseteq g[n + 1].roots
    OBVIOUS
  <2>1. g[n + 1] = Step(g[n])
    BY <1>1
  <2>2. CASE Over(g[n])
    BY <2>1, <2>2 DEF Step
  <2>3. CASE ~Over(g[n])
    BY <2>1, <2>3, Pass0Step
  <2> QED BY <2>2, <2>3
<1>4. S = Nat
  <2>1. \A n \in S : n + 1 \in S
    BY <1>3
  <2>2. S \subseteq Nat
    OBVIOUS
  <2> HIDE DEF S
  <2> QED BY <1>2, <2>1, <2>2, Induction
<1>5. ASSUME NEW n \in 0..Steps PROVE g[n].roots \subseteq g[Steps].roots
  <2> DEFINE T == {k \in Nat : g[n].roots \subseteq g[n + k].roots}
  <2>1. n \in Nat /\ Steps \in Nat /\ Steps - n \in Nat /\ n + (Steps - n) = Steps
    BY StepsType
  <2>2. 0 \in T
    BY <2>1
  <2>3. ASSUME NEW k \in T PROVE k + 1 \in T
    <3>1. k \in Nat /\ n + k \in Nat /\ n + (k + 1) = (n + k) + 1
      BY <2>1
    <3>2. g[n + k].roots \subseteq g[(n + k) + 1].roots
      BY <1>3, <1>4, <3>1
    <3>3. g[n].roots \subseteq g[n + k].roots
      OBVIOUS
    <3> QED BY <3>1, <3>2, <3>3
  <2>4. T = Nat
    <3> HIDE DEF T
    <3>1. T \subseteq Nat
      BY DEF T
    <3> QED BY <2>2, <2>3, <3>1, Induction
  <2>5. Steps - n \in T
    BY <2>1, <2>4
  <2>6. g[n].roots \subseteq g[n + (Steps - n)].roots
    BY <2>5
  <2> QED BY <2>1, <2>6
<1> QED BY <1>4, <1>5

LEMMA Pass1Starts ==
  ASSUME ConfigInv, NEW R \in SUBSET (Nat \ {0}), NEW g, Runs(g, R)
  PROVE  Pass1Inv(R, g[0])
<1> DEFINE b == Blank(R)
<1>1. /\ Calls(b, g[0], <<>>, FALSE, 0, <<>>) /\ Basic(g[0]) /\ b \in States
      /\ b.pos = 1 /\ b.root = 1 /\ b.roots = R /\ ~b.crash
      /\ Len(b.devices) = 0 /\ Len(b.blocks) = 0
  <2>1. R \in SUBSET Nat
    OBVIOUS
  <2> QED BY <2>1, StartIs DEF Runs
<1> HIDE DEF b
<1>2. Nested(b) /\ Targets(R, b)
  BY <1>1 DEF Nested, Targets
<1>3. Nested(g[0])
  <2>1. \A i \in 1..Len(b.devices) : b.devices[i].start < b.pos
    BY <1>1
  <2> QED BY <1>1, <1>2, <2>1, CallNested
<1>4. Targets(R, g[0])
  <2>1. FALSE => <<>> # <<>> /\ <<>> # <<>> /\ Last(<<>>) \in Keywords
    OBVIOUS
  <2>2. 0 \in Nat /\ 0 <= Len(b.devices) /\ \A l \in 1..Len(b.blocks) : b.blocks[l].target <= 0
    BY <1>1
  <2> QED BY <1>1, <1>2, <2>1, <2>2, CallTargets
<1>5. /\ g[0].roots = R /\ ~g[0].crash /\ g[0].root = b.root + 1
      /\ Len(g[0].devices) = IF b.root \in R THEN 1 ELSE 0
  <2>1. g[0] = StartPass(R) /\ R \in SUBSET Nat
    BY DEF Runs
  <2>2. /\ g[0].roots = R /\ ~g[0].crash /\ g[0].root = 2
        /\ Len(g[0].devices) = IF 1 \in R THEN 1 ELSE 0
    BY <2>1, FirstCall
  <2> QED BY <1>1, <2>2
<1>6. Len(g[0].devices) = Cardinality(Made(R, g[0]))
  <2>1. Made(R, b) = {}
    <3>1. \A r \in R : ~(r < 1)
      OBVIOUS
    <3> QED BY <1>1, <3>1 DEF Made
  <2>2. Cardinality(Made(R, b)) = 0
    BY <2>1, FS_EmptySet
  <2>3. R \in SUBSET Nat /\ b.root \in Nat
    BY <1>1
  <2>4. Cardinality(Made(R, g[0])) = Cardinality(Made(R, b)) + (IF b.root \in R THEN 1 ELSE 0)
    BY <1>5, <2>3, MadeOneMore
  <2> QED BY <1>5, <2>2, <2>4
<1> QED BY <1>1, <1>3, <1>4, <1>5, <1>6 DEF Pass1Inv

\* In step, or stopped at a null parent.
LEMMA Pass1Runs ==
  ASSUME ConfigInv, NEW g, NEW h, NEW R, Runs(g, {}), R = g[Steps].roots, Runs(h, R)
  PROVE  /\ Pass1Inv(R, h[Steps])
         /\ ~h[Steps].crash => Same(g[Steps], h[Steps])
<1>1. /\ Steps \in Nat
      /\ \A n \in Nat : Pass0Inv(g[n]) /\ Basic(g[n]) /\ g[n + 1] = Step(g[n])
      /\ \A n \in Nat : Basic(h[n]) /\ h[n + 1] = Step(h[n])
      /\ \A n \in 0..Steps : g[n].roots \subseteq R
  BY Pass0Runs, StepsType DEF Runs
<1>2. R \in SUBSET (Nat \ {0})
  <2>1. Pass0Inv(g[Steps])
    BY <1>1
  <2> QED BY <2>1 DEF Pass0Inv
<1> DEFINE J(n) == Pass1Inv(R, h[n]) /\ (~h[n].crash => Same(g[n], h[n]))
           S == {n \in Nat : n <= Steps => J(n)}
<1>3. J(0)
  <2>1. Pass1Inv(R, h[0])
    BY <1>2, Pass1Starts
  <2>2. g[0] = StartPass({}) /\ h[0] = StartPass(R) /\ {} \in SUBSET Nat /\ R \in SUBSET Nat
    BY <1>2 DEF Runs
  <2>3. /\ g[0].pos = 1 /\ g[0].root = 2 /\ Len(g[0].blocks) = 1
        /\ g[0].blocks[1].root = 1 /\ g[0].blocks[1].stage = "item"
    BY <2>2, FirstCall
  <2>4. /\ h[0].pos = 1 /\ h[0].root = 2 /\ Len(h[0].blocks) = 1
        /\ h[0].blocks[1].root = 1 /\ h[0].blocks[1].stage = "item"
    BY <2>2, FirstCall
  <2>5. Same(g[0], h[0])
    BY <2>3, <2>4 DEF Same
  <2> QED BY <2>1, <2>5
<1>4. ASSUME NEW n \in Nat, n + 1 <= Steps, J(n) PROVE J(n + 1)
  <2> DEFINE st == g[n]  s == h[n]
  <2>1. /\ g[n + 1] = Step(st) /\ h[n + 1] = Step(s)
        /\ Pass0Inv(st) /\ Basic(st) /\ Basic(s) /\ Pass1Inv(R, s)
        /\ ~s.crash => Same(st, s)
    BY <1>1, <1>4
  <2>2. Step(st).roots \subseteq R
    <3>1. n + 1 \in 0..Steps
      BY <1>1, <1>4
    <3> QED BY <1>1, <2>1, <3>1
  <2> HIDE DEF st, s, J
  <2>3. CASE s.crash
    <3>1. Step(s) = s
      BY <2>3 DEF Step, Over
    <3> QED BY <2>1, <2>3, <3>1 DEF J
  <2>4. CASE ~s.crash /\ Over(st)
    <3>1. st.blocks = <<>> /\ Len(st.blocks) = 0
      BY <2>1, <2>4, EmptySeq DEF Pass0Inv, Over
    <3>2. s.blocks = <<>>
      <4>1. s.blocks \in Seq(BlockStates)
        BY <2>1 DEF Basic, States
      <4>2. Len(s.blocks) = 0
        BY <2>1, <2>4, <3>1 DEF Same
      <4> QED BY <4>1, <4>2
    <3>3. Step(s) = s /\ Step(st) = st
      BY <2>4, <3>2 DEF Step, Over
    <3> QED BY <2>1, <3>3 DEF J
  <2>5. CASE ~s.crash /\ ~Over(st)
    <3>1. /\ ~Over(s) /\ Same(Step(st), Step(s))
          /\ s.roots \subseteq Step(s).roots
          /\ Step(s).roots \subseteq s.roots \cup Step(st).roots
      BY <2>1, <2>5, SameStep
    <3>2. Step(s).roots = R
      BY <2>1, <2>2, <3>1 DEF Pass1Inv
    <3>3. Pass1Inv(R, Step(s))
      BY <2>1, <3>1, <3>2, Pass1Step
    <3> QED BY <2>1, <3>1, <3>3 DEF J
  <2> QED BY <2>3, <2>4, <2>5
<1>5. S = Nat
  <2> HIDE DEF J
  <2>1. 0 \in S
    BY <1>3
  <2>2. ASSUME NEW n \in S PROVE n + 1 \in S
    <3>1. n \in Nat /\ n + 1 \in Nat
      OBVIOUS
    <3>2. n + 1 <= Steps => n <= Steps
      BY <1>1, <3>1
    <3> QED BY <1>4, <3>1, <3>2
  <2>3. S \subseteq Nat
    OBVIOUS
  <2> HIDE DEF S
  <2> QED BY <2>1, <2>2, <2>3, Induction
<1>6. J(Steps)
  <2> HIDE DEF J
  <2>1. Steps \in S /\ Steps <= Steps
    BY <1>1, <1>5
  <2> QED BY <2>1
<1> QED BY <1>6

LEMMA DevicesAreRight == ConfigInv => DevicesRight
<1> SUFFICES ASSUME ConfigInv PROVE DevicesRight
  OBVIOUS
<1> DEFINE L == Len(config)
           p == Pass0
           q == Pass1
           R == p.roots
<1>1. PICK g : Runs(g, {})
  <2>1. {} \in SUBSET Nat
    OBVIOUS
  <2> QED BY <2>1, RunExists
<1>2. Steps \in Nat /\ p = g[Steps] /\ Pass0Inv(p) /\ p \in States /\ Over(p)
  <2>1. Steps \in Nat
    BY StepsType
  <2>2. p = g[Steps]
    BY <1>1 DEF Runs, Pass0
  <2>3. Pass0Inv(g[Steps])
    BY <1>1, <2>1, Pass0Runs
  <2>4. {} \in SUBSET Nat
    OBVIOUS
  <2>5. Over(g[Steps])
    BY <1>1, <2>4, RunEnds
  <2> QED BY <2>1, <2>2, <2>3, <2>5 DEF Pass0Inv, Basic
<1>3. PICK h : Runs(h, R)
  <2>1. R \in SUBSET Nat
    BY <1>2 DEF States
  <2> QED BY <2>1, RunExists
<1>4. q = h[Steps] /\ Over(q) /\ Pass1Inv(R, q) /\ (~q.crash => Same(p, q))
  <2>1. q = h[Steps]
    BY <1>3 DEF Runs, Pass1
  <2>2. R \in SUBSET Nat
    BY <1>2 DEF States
  <2>3. Over(h[Steps])
    BY <1>3, <2>2, RunEnds
  <2>4. R = g[Steps].roots
    BY <1>2
  <2> HIDE DEF R, p, q
  <2>5. Pass1Inv(R, h[Steps]) /\ (~h[Steps].crash => Same(g[Steps], h[Steps]))
    BY <1>1, <1>3, <2>4, Pass1Runs
  <2> QED BY <1>2, <2>1, <2>3, <2>5
<1> HIDE DEF p, q
<1>5. ~p.crash /\ p.blocks = <<>>
  BY <1>2 DEF Pass0Inv, Over
<1>6. L \in Nat /\ DOMAIN config = 1..L /\ p.root \in Nat \ {0} /\ p.pos \in 1..L + 1
  BY <1>2 DEF ConfigInv, Pass0Inv, Basic
<1>7. p.root - 1 <= L \/ Range(config) \subseteq {LBrace}
  <2>1. CASE p.root <= p.pos
    BY <1>6, <2>1
  <2>2. CASE p.root = p.pos + 1 /\ \A i \in 1..p.pos - 1 : config[i] = LBrace
    <3>1. CASE p.pos <= L
      BY <1>6, <2>2, <3>1
    <3>2. CASE p.pos = L + 1
      <4>1. \A i \in 1..L : config[i] = LBrace
        BY <1>6, <2>2, <3>2
      <4> QED BY <1>6, <4>1 DEF Range
    <3> QED BY <1>6, <3>1, <3>2
  <2> QED BY <1>2, <2>1, <2>2 DEF Pass0Inv, Marks
<1>8. /\ q \in States /\ q.roots = R /\ Nested(q)
      /\ Len(q.devices) = Cardinality(Made(R, q))
      /\ q.crash => \E i \in 1..Len(q.devices) : InKeyword(q.devices[i])
  BY <1>4 DEF Pass1Inv, Basic
<1>9. /\ DOMAIN q.devices = 1..Len(q.devices) /\ Len(q.devices) \in Nat
      /\ \A i \in 1..Len(q.devices) : q.devices[i].start \in Nat /\ q.devices[i].end \in Nat
  <2>1. q.devices \in Seq(Devices)
    BY <1>8 DEF States
  <2>2. DOMAIN q.devices = 1..Len(q.devices)
    BY <2>1, LenProperties
  <2> QED BY <1>8, <2>2, DeviceTypes
<1>10. q.crash => \E d \in Range(q.devices) : InKeyword(d)
  BY <1>8, <1>9 DEF Range
<1>11. ASSUME ~q.crash
       PROVE  /\ q.blocks = <<>>
              /\ Len(q.devices) = Cardinality(p.roots)
              /\ q.roots = p.roots /\ q.root = p.root /\ q.pos = p.pos
  <2>1. q.blocks = <<>> /\ q.root = p.root /\ q.pos = p.pos
    BY <1>4, <1>11 DEF Over, Same
  <2>2. Made(R, q) = R
    <3>1. R \subseteq 1..p.root - 1
      BY <1>2 DEF Pass0Inv
    <3>2. \A r \in R : r < p.root
      BY <1>6, <3>1
    <3> HIDE DEF R
    <3> QED BY <2>1, <3>2 DEF Made
  <2> QED BY <1>8, <2>1, <2>2
<1>12. ASSUME NEW i \in DOMAIN q.devices, NEW j \in DOMAIN q.devices, i < j
       PROVE  \/ Disjoint(q.devices[i], q.devices[j])
              \/ Inside(q.devices[j], q.devices[i])
  <2>1. i \in 1..j - 1 /\ j \in 1..Len(q.devices)
    BY <1>9, <1>12
  <2>2. /\ q.devices[i].start < q.devices[j].start
        /\ \/ q.devices[i].end <= q.devices[j].start
           \/ q.devices[j].end <= q.devices[i].end
    BY <1>8, <2>1 DEF Nested
  <2> QED BY <2>2 DEF Disjoint, Inside
<1>13. InSync(p, q)
  BY <1>5, <1>7, <1>10, <1>11, <1>12 DEF InSync
<1> QED BY <1>13 DEF DevicesRight, p, q

\* For every string: the passes of the configuration string end, agree on
\* its roots and make as many devices as they have marked, whose windows are
\* nested or disjoint (drivers/config.c).
THEOREM DevicesCorrect == ConfigSpec => []DevicesRight
<1>1. ConfigInit \/ ConfigOff => ConfigInv
  BY ConfigStart
<1>2. ConfigInv /\ [Grow]_configVars => ConfigInv'
  BY ConfigStep
<1>3. ConfigInv => DevicesRight
  BY DevicesAreRight
<1> QED BY <1>1, <1>2, <1>3, PTL DEF ConfigSpec
=============================================================================
