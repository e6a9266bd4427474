----------------------------- MODULE MCUserTask -----------------------------
\* Traps: one hart with its idle task, a user task, and one more that is forked
\* or begins as a kernel thread and execs.  Registers: two harts, a first task
\* and one it forks, two values with the reset value, one signal frame on a
\* stack.  Signals: a program that makes every kind of interruptible call, with
\* one handler that restarts calls and one that does not.
EXTENDS UserTask

CONSTANTS h1, h2, t1, t2, zero, one

MCHarts == {h1, h2}
MCThreads == {t1, t2}
MCValues == {zero, one}
Symmetric == Permutations(MCHarts)
=============================================================================
