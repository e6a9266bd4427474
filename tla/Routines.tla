------------------------------ MODULE Routines ------------------------------
(***************************************************************************)
(* The routines of Library that can be reasoned about for every size, with *)
(* the specification of each topic on its own: the topic begins, or is off *)
(* because the behaviour is about another.  A behaviour of Library is one  *)
(* of all seven specifications.                                            *)
(***************************************************************************)
EXTENDS UserCopy, MemOps, Clock, StackWalk, Atomics, FrameBuffer,
        ConfigParser

CopySpec  == (CopyInit \/ CopyOff) /\ [][CopyNext]_copyVars
MemSpec   == (MemInit \/ MemOff) /\ [][MemNext]_memVars
ClockSpec == (ClockInit \/ ClockOff) /\ [][ClockNext]_clockVars
WalkSpec  == (WalkInit \/ WalkOff) /\ [][WalkNext]_walkVars
AtomicSpec == (AtomicInit \/ AtomicOff) /\ [][AtomicNext]_atomicVars
FbSpec == (FbInit \/ FbOff) /\ [][FbNext]_fbVars
ConfigSpec == (ConfigInit \/ ConfigOff) /\ [][Grow]_configVars

\* No block of bytes is ever wrong: __copy_user and __clear_user, memcpy and
\* memset.
BytesExact == CopiesExact /\ MemExact
=============================================================================
