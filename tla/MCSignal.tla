------------------------------ MODULE MCSignal ------------------------------
\* A program that makes every kind of interruptible call, with one handler
\* that restarts calls and one that does not.
EXTENDS Signal
=============================================================================
