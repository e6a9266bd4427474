------------------------------ MODULE Library ------------------------------
(***************************************************************************)
(* Code that other parts of the kernel call: the reader/writer lock, and   *)
(* routines that keep no state between calls.  There is one module for     *)
(* each topic, with nothing shared, and a behaviour is about one topic.    *)
(***************************************************************************)
EXTENDS Routines, ConfigString, RwLock

CONSTANT Topics   \* the topics of this instance

AllTopics == {"copy", "mem", "clock", "walk", "atomic", "fb", "config", "lock"}

ASSUME LibraryAssumption == Topics \subseteq AllTopics

VARIABLE topic    \* the topic of this behaviour

routineVars == <<copyVars, memVars, clockVars, walkVars, atomicVars, fbVars, configVars>>
vars == <<routineVars, lockVars, topic>>

Init ==
    /\ topic \in Topics
    /\ IF topic = "copy"   THEN CopyInit   ELSE CopyOff
    /\ IF topic = "mem"    THEN MemInit    ELSE MemOff
    /\ IF topic = "clock"  THEN ClockInit  ELSE ClockOff
    /\ IF topic = "walk"   THEN WalkInit   ELSE WalkOff
    /\ IF topic = "atomic" THEN AtomicInit ELSE AtomicOff
    /\ IF topic = "fb"     THEN FbInit     ELSE FbOff
    /\ IF topic = "config" THEN ConfigInit ELSE ConfigOff
    /\ LockInit

\* No action of a routine is enabled while it is off.
Routine ==
    \/ CopyNext /\ UNCHANGED <<memVars, clockVars, walkVars, atomicVars, fbVars, configVars>>
    \/ MemNext /\ UNCHANGED <<copyVars, clockVars, walkVars, atomicVars, fbVars, configVars>>
    \/ ClockNext /\ UNCHANGED <<copyVars, memVars, walkVars, atomicVars, fbVars, configVars>>
    \/ WalkNext /\ UNCHANGED <<copyVars, memVars, clockVars, atomicVars, fbVars, configVars>>
    \/ AtomicNext /\ UNCHANGED <<copyVars, memVars, clockVars, walkVars, fbVars, configVars>>
    \/ FbNext /\ UNCHANGED <<copyVars, memVars, clockVars, walkVars, atomicVars, configVars>>
    \/ Grow /\ UNCHANGED <<copyVars, memVars, clockVars, walkVars, atomicVars, fbVars>>

Next ==
    \/ topic # "lock" /\ Routine /\ UNCHANGED <<lockVars, topic>>
    \/ topic = "lock" /\ LockNext /\ UNCHANGED <<routineVars, topic>>

Spec == Init /\ [][Next]_vars

\* Outside of the lock's behaviours none of its actions that are fair is enabled.
LockFairSpec == Spec /\ LockFairness

\* The hart goes on executing.
FairSpec == Spec /\ WF_vars(Next)
=============================================================================
