-------------------------------- MODULE Clock --------------------------------
(***************************************************************************)
(* The time counter as the kernel reads and uses it: get_cycles of         *)
(* include/asm/timex.h in the 64-bit build and in the 32-bit one, which    *)
(* puts two registers together while the counter runs, __delay of          *)
(* lib/delay.c, and the one-shot timer of kernel/time.c.  A register has   *)
(* Xlen values.                                                            *)
(***************************************************************************)
EXTENDS Integers

CONSTANTS
    Xlen,      \* values of a register, 2^32 or 2^64
    MaxTime,   \* bound: ticks of a behaviour
    Cycles     \* the lengths of delay and timer asked for

ASSUME ClockAssumption ==
    Xlen \in Nat \ {0} /\ MaxTime \in Nat /\ Cycles \subseteq 0..Xlen - 1

VARIABLES
    time,      \* ticks since power on
    phase,     \* where the hart is
    user,      \* who called get_cycles: "t0", "loop", "timer"
    want,      \* the cycles of the delay or the timer
    hi, lo,    \* what get_cycles has read so far
    t0,        \* t0 of __delay
    timecmp,   \* what sbi_set_timer was given, 64 bits wide
    halves,    \* a 32-bit build: stime is read in two registers
    start      \* ghost: the time of the call

clockVars == <<time, phase, user, want, hi, lo, t0, timecmp, halves, start>>

\* The counter may be anywhere, short of a wrap or past one.
ClockInit ==
    /\ time \in 0..2 * Xlen
    /\ user \in {"t0", "timer"} /\ want \in Cycles
    /\ phase = "hi"
    /\ hi = 0 /\ lo = 0 /\ t0 = 0 /\ timecmp = 0
    /\ halves \in BOOLEAN
    /\ start = time

ClockOff ==
    /\ time = 0 /\ user = "none" /\ want = 0 /\ phase = "off"
    /\ hi = 0 /\ lo = 0 /\ t0 = 0 /\ timecmp = 0
    /\ halves = FALSE /\ start = 0

stime  == time % Xlen
stimeh == (time \div Xlen) % Xlen

\* The counter runs at any speed.
Tick ==
    /\ phase \notin {"off", "done"} /\ time < MaxTime
    /\ time' = time + 1
    /\ UNCHANGED <<phase, user, want, hi, lo, t0, timecmp, halves, start>>

\* get_cycles: one csrr, or stimeh, stime and stimeh again, until they agree.
ReadHi ==
    /\ phase = "hi"
    /\ hi' = IF halves THEN stimeh ELSE hi
    /\ phase' = "lo"
    /\ UNCHANGED <<time, user, want, lo, t0, timecmp, halves, start>>

ReadLo ==
    /\ phase = "lo"
    /\ lo' = stime
    /\ phase' = IF halves THEN "again" ELSE user
    /\ UNCHANGED <<time, user, want, hi, t0, timecmp, halves, start>>

ReadAgain ==
    /\ phase = "again"
    /\ phase' = IF stimeh = hi THEN user ELSE "hi"
    /\ UNCHANGED <<time, user, want, hi, lo, t0, timecmp, halves, start>>

\* What it returns is an unsigned long: the high half is lost again.
get_cycles == (hi * Xlen + lo) % Xlen

\* Mutant: the end of the delay is computed and compared with.
ElapsedByEnd == get_cycles >= (t0 + want) % Xlen

\* The difference is taken as an unsigned long.
Elapsed == (get_cycles - t0) % Xlen >= want

\* __delay
DelayStart ==
    /\ phase = "t0"
    /\ t0' = get_cycles
    /\ user' = "loop" /\ phase' = "hi"
    /\ UNCHANGED <<time, want, hi, lo, timecmp, halves, start>>

DelayLoop ==
    /\ phase = "loop"
    /\ phase' = IF Elapsed THEN "done" ELSE "hi"
    /\ UNCHANGED <<time, user, want, hi, lo, t0, timecmp, halves, start>>

\* riscv_timer_set_next_event: the sum, too, is an unsigned long.
SetNextEvent ==
    /\ phase = "timer"
    /\ timecmp' = (get_cycles + want) % Xlen
    /\ phase' = "done"
    /\ UNCHANGED <<time, user, want, hi, lo, t0, halves, start>>

ClockNext ==
    \/ Tick
    \/ ReadHi
    \/ ReadLo
    \/ ReadAgain
    \/ DelayStart
    \/ DelayLoop
    \/ SetNextEvent

\* A delay never ends early, wherever the counter wraps.  A timer is due no
\* earlier than asked for and no later than that after the call returns, as
\* long as the sum fits a register; in a 32-bit build that is the first 2^32
\* ticks only, and after them every timer is due at once.
WaitsLongEnough ==
    phase = "done" =>
        IF user = "loop" THEN time - start >= want
        ELSE \/ timecmp \in start + want..time + want
             \/ time + want >= Xlen /\ timecmp < Xlen
=============================================================================
