------------------------------ MODULE UserTask ------------------------------
(***************************************************************************)
(* What the kernel does under a program: its traps and the stacks they use *)
(* (TrapEntry), its floating-point registers (FState) and its signals      *)
(* (Signal).  Each part has a state of its own, of as many harts and tasks *)
(* as it needs, and a behaviour is about the one part it begins with; the  *)
(* other two stay as they are.                                             *)
(***************************************************************************)
EXTENDS TrapEntry, FState, Signal

VARIABLE about   \* the part of this behaviour

vars == <<trapVars, fpVars, signalVars, about>>

Parts == {"traps", "registers", "signals"}

\* The registers of FState can begin with anything; where they are not what
\* the behaviour is about one beginning will do.
Init ==
    /\ about \in Parts
    /\ TrapInit /\ FpInit /\ SignalInit
    /\ about # "registers" => reg = [h \in Harts |-> File(Reset)]

\* A program that a signal has killed makes no more steps, and one in a system
\* call may wait for ever.
Stopped == about = "signals" /\ mode \in {"dead", "call"} /\ UNCHANGED vars

Next ==
    \/ about = "traps" /\ TrapNext /\ UNCHANGED <<fpVars, signalVars, about>>
    \/ about = "registers" /\ FpNext /\ UNCHANGED <<trapVars, signalVars, about>>
    \/ about = "signals" /\ SignalNext /\ UNCHANGED <<trapVars, fpVars, about>>
    \/ Stopped

Spec == Init /\ [][Next]_vars
=============================================================================
