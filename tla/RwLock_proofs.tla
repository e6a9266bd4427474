---------------------------- MODULE RwLock_proofs ----------------------------
(***************************************************************************)
(* Proofs about RwLock for every finite set of harts: the type invariant,  *)
(* that the lock word always agrees with the holders, that no sc stores a  *)
(* stale value, and that the lr/sc loops implement RwExclusion.            *)
(***************************************************************************)
EXTENDS RwLock, FiniteSetTheorems, TLAPS

\* A context only executes in a handler while its hart is in one.
HandlerIdle == \A h \in Cpus : ~irq[h] => at[<<h, 1>>] = "idle"

\* The inductive invariant: what NoStaleStore needs when an interrupt arrives
\* is HandlerIdle, and WordMatchesHolders needs NoStaleStore at every sc.
IInv == LockTypeOK /\ HandlerIdle /\ NoStaleStore /\ WordMatchesHolders

LEMMA ContextsFinite == IsFiniteSet(Contexts)
  <1>1. IsFiniteSet({0, 1})
    <2>1. {0, 1} = {0} \cup {1} OBVIOUS
    <2>2. IsFiniteSet({0}) BY FS_EmptySet, FS_AddElement, {0} = {} \cup {0}
    <2> QED BY <2>1, <2>2, FS_AddElement
  <1> QED BY <1>1, FS_Product, HartsAssumption DEF Contexts

\* A hart executes one context at a time.
LEMMA OneRunning ==
  ASSUME NEW c \in Contexts, NEW d \in Contexts,
         Running(c), Running(d), Hart(c) = Hart(d)
  PROVE  c = d
  BY DEF Contexts, Running, Hart

LEMMA HoldersFinite == /\ IsFiniteSet(Readers) /\ Readers \subseteq Contexts
                       /\ Cardinality(Readers) \in Nat
  <1>1. Readers \subseteq Contexts BY DEF Readers
  <1> QED BY <1>1, ContextsFinite, FS_Subset, FS_CardinalityType

\* How a step that moves one context changes the sets of holders.
LEMMA HoldersMove ==
  ASSUME NEW c \in Contexts, NEW p, LockTypeOK, at' = [at EXCEPT ![c] = p]
  PROVE  /\ p = "read" => Readers' = Readers \cup {c}
         /\ p # "read" => Readers' = Readers \ {c}
         /\ p = "write" => Writers' = Writers \cup {c}
         /\ p # "write" => Writers' = Writers \ {c}
  <1>1. \A d \in Contexts : at'[d] = IF d = c THEN p ELSE at[d] BY DEF LockTypeOK
  <1> QED BY <1>1 DEF Readers, Writers

\* A step that leaves a context without the lock.
LEMMA HoldersLeave ==
  ASSUME NEW c \in Contexts, NEW p \in {"idle", "lr", "sc"}, LockTypeOK,
         at' = [at EXCEPT ![c] = p]
  PROVE  Readers' = Readers \ {c} /\ Writers' = Writers \ {c}
  <1>1. \A d \in Contexts : at'[d] = IF d = c THEN p ELSE at[d] BY DEF LockTypeOK
  <1>2. p # "read" /\ p # "write" OBVIOUS
  <1> QED BY <1>1, <1>2 DEF Readers, Writers

LEMMA InitIInv == LockInit => IInv
  <1> SUFFICES ASSUME LockInit PROVE IInv OBVIOUS
  <1>1. LockTypeOK BY DEF LockInit, LockTypeOK, TaskOps
  <1>2. HandlerIdle /\ NoStaleStore
    BY DEF LockInit, HandlerIdle, NoStaleStore, Contexts
  <1>3. Readers = {} /\ Writers = {} BY DEF LockInit, Readers, Writers
  <1>4. WordMatchesHolders
    BY <1>3, FS_EmptySet DEF LockInit, WordMatchesHolders
  <1> QED BY <1>1, <1>2, <1>4 DEF IInv

LEMMA TypeStep ==
    LockTypeOK /\ NoStaleStore /\ WordMatchesHolders /\ [LockNext]_lockVars => LockTypeOK'
  <1> SUFFICES ASSUME LockTypeOK, NoStaleStore, WordMatchesHolders, [LockNext]_lockVars
               PROVE LockTypeOK'
    OBVIOUS
  <1> USE DEF LockTypeOK, TaskOps
  <1>1. ASSUME NEW c \in Contexts, NEW o \in TaskOps, LockCall(c, o) PROVE LockTypeOK'
    BY <1>1 DEF LockCall
  <1>2. ASSUME NEW c \in Contexts, LockLoadReserved(c) PROVE LockTypeOK'
    <2>1. NewValue(op[c], lock) \in Int BY DEF NewValue
    <2> QED BY <1>2, <2>1 DEF LockLoadReserved
  <1>3. ASSUME NEW c \in Contexts, LockScSucceeds(c) PROVE LockTypeOK'
    <2>1. tmp[c] \in Int /\ tmp[c] >= -1
      BY <1>3 DEF LockScSucceeds, NoStaleStore, NewValue, MustWait
    <2> QED BY <1>3, <2>1 DEF LockScSucceeds
  <1>4. ASSUME NEW c \in Contexts, LockScFails(c) PROVE LockTypeOK'
    BY <1>4 DEF LockScFails
  <1>5. ASSUME NEW c \in Contexts, ReadUnlock(c) PROVE LockTypeOK'
    <2>1. c \in Readers BY <1>5 DEF ReadUnlock, Readers
    <2>2. lock >= 0
      BY <2>1, HoldersFinite DEF WordMatchesHolders
    <2> QED BY <1>5, <2>2 DEF ReadUnlock, BreakReservations
  <1>6. ASSUME NEW c \in Contexts, WriteUnlock(c) PROVE LockTypeOK'
    BY <1>6 DEF WriteUnlock, BreakReservations
  <1>7. ASSUME NEW h \in Cpus,
               Interrupt(h) \/ InterruptReturn(h) \/ LoseReservation(h)
        PROVE LockTypeOK'
    BY <1>7 DEF Interrupt, InterruptReturn, LoseReservation
  <1>8. CASE UNCHANGED lockVars BY <1>8 DEF lockVars
  <1> QED
    BY <1>1, <1>2, <1>3, <1>4, <1>5, <1>6, <1>7, <1>8 DEF LockNext, LockStep

LEMMA HandlerStep == LockTypeOK /\ HandlerIdle /\ [LockNext]_lockVars => HandlerIdle'
  <1> SUFFICES ASSUME LockTypeOK, HandlerIdle, [LockNext]_lockVars PROVE HandlerIdle'
    OBVIOUS
  <1>1. ASSUME NEW c \in Contexts, NEW o \in TaskOps, LockStep(c) \/ LockCall(c, o)
        PROVE  HandlerIdle'
    <2>1. irq' = irq /\ Running(c)
      BY <1>1 DEF LockStep, LockCall, LockLoadReserved, LockScSucceeds, LockScFails, ReadUnlock,
                  WriteUnlock
    <2>2. \A d \in Contexts : d # c => at'[d] = at[d]
      BY <1>1 DEF LockStep, LockCall, LockLoadReserved, LockScSucceeds, LockScFails, ReadUnlock,
                  WriteUnlock, LockTypeOK
    <2>3. ASSUME NEW h \in Cpus, ~irq[h] PROVE <<h, 1>> # c
      BY <2>1, <2>3 DEF Running, Hart, LockTypeOK
    <2> QED BY <2>1, <2>2, <2>3 DEF HandlerIdle, Contexts
  <1>2. ASSUME NEW h \in Cpus,
               Interrupt(h) \/ InterruptReturn(h) \/ LoseReservation(h)
        PROVE HandlerIdle'
    BY <1>2 DEF Interrupt, InterruptReturn, LoseReservation, HandlerIdle, LockTypeOK
  <1>3. CASE UNCHANGED lockVars BY <1>3 DEF lockVars, HandlerIdle
  <1>4. TaskOps # {} BY DEF TaskOps
  <1> QED BY <1>1, <1>2, <1>3, <1>4 DEF LockNext

LEMMA StaleStep ==
  LockTypeOK /\ HandlerIdle /\ NoStaleStore /\ [LockNext]_lockVars => NoStaleStore'
  <1> SUFFICES ASSUME LockTypeOK, HandlerIdle, NoStaleStore, [LockNext]_lockVars,
                      NEW d \in Contexts,
                      Running(d)', at'[d] = "sc", res'[Hart(d)]
               PROVE  /\ ~MustWait(op'[d], lock')
                      /\ tmp'[d] = NewValue(op'[d], lock')
    BY DEF NoStaleStore, Hart
  <1>1. Hart(d) \in Cpus /\ d = <<Hart(d), d[2]>> /\ d[2] \in {0, 1}
    BY DEF Hart, Contexts
  <1>2. ASSUME NEW c \in Contexts, NEW o \in TaskOps, LockCall(c, o)
        PROVE  /\ ~MustWait(op'[d], lock')
               /\ tmp'[d] = NewValue(op'[d], lock')
    BY <1>2 DEF LockCall, NoStaleStore, LockTypeOK, Running
  <1>3. ASSUME NEW c \in Contexts, LockLoadReserved(c)
        PROVE  /\ ~MustWait(op'[d], lock')
               /\ tmp'[d] = NewValue(op'[d], lock')
    <2>1. CASE d = c BY <1>3, <2>1 DEF LockLoadReserved, LockTypeOK
    <2>2. CASE d # c
      <3>1. Hart(d) # Hart(c)
        BY <1>3, <2>2, OneRunning DEF LockLoadReserved, Running
      <3>2. res[Hart(d)] /\ at[d] = "sc" /\ Running(d)
        BY <1>1, <1>3, <2>2, <3>1 DEF LockLoadReserved, LockTypeOK, Running
      <3> QED BY <1>3, <2>2, <3>2 DEF LockLoadReserved, LockTypeOK, NoStaleStore
    <2> QED BY <2>1, <2>2
  <1>4. ASSUME NEW c \in Contexts, LockScSucceeds(c) PROVE FALSE
    BY <1>1, <1>4 DEF LockScSucceeds
  <1>5. ASSUME NEW c \in Contexts, LockScFails(c)
        PROVE  /\ ~MustWait(op'[d], lock')
               /\ tmp'[d] = NewValue(op'[d], lock')
    BY <1>5 DEF LockScFails, NoStaleStore, LockTypeOK, Running
  <1>6. ASSUME NEW c \in Contexts, ReadUnlock(c) \/ WriteUnlock(c) PROVE FALSE
    <2>1. Hart(d) = Hart(c)
      BY <1>1, <1>6 DEF ReadUnlock, WriteUnlock, BreakReservations
    <2>2. d = c
      BY <1>6, <2>1, OneRunning DEF ReadUnlock, WriteUnlock, Running
    <2> QED BY <1>6, <2>2 DEF ReadUnlock, WriteUnlock, LockTypeOK
  <1>7. ASSUME NEW h \in Cpus, Interrupt(h)
        PROVE  /\ ~MustWait(op'[d], lock')
               /\ tmp'[d] = NewValue(op'[d], lock')
    <2>1. Hart(d) # h
      BY <1>1, <1>7 DEF Interrupt, HandlerIdle, Running, LockTypeOK
    <2>2. Running(d) BY <1>1, <1>7, <2>1 DEF Interrupt, Running, LockTypeOK
    <2> QED BY <1>7, <2>2 DEF Interrupt, NoStaleStore
  <1>8. ASSUME NEW h \in Cpus, InterruptReturn(h)
        PROVE  /\ ~MustWait(op'[d], lock')
               /\ tmp'[d] = NewValue(op'[d], lock')
    <2>1. Hart(d) # h BY <1>1, <1>8 DEF InterruptReturn, LockTypeOK
    <2>2. Running(d) /\ res[Hart(d)]
      BY <1>1, <1>8, <2>1 DEF InterruptReturn, Running, LockTypeOK
    <2> QED BY <1>8, <2>2 DEF InterruptReturn, NoStaleStore
  <1>9. ASSUME NEW h \in Cpus, LoseReservation(h)
        PROVE  /\ ~MustWait(op'[d], lock')
               /\ tmp'[d] = NewValue(op'[d], lock')
    BY <1>1, <1>9 DEF LoseReservation, NoStaleStore, LockTypeOK, Running
  <1>10. CASE UNCHANGED lockVars BY <1>10 DEF lockVars, NoStaleStore, Running
  <1> QED
    BY <1>2, <1>3, <1>4, <1>5, <1>6, <1>7, <1>8, <1>9, <1>10 DEF LockNext, LockStep
LEMMA WordStep == IInv /\ [LockNext]_lockVars => WordMatchesHolders'
  <1> SUFFICES ASSUME IInv, [LockNext]_lockVars PROVE WordMatchesHolders'
    OBVIOUS
  <1>0. LockTypeOK /\ NoStaleStore /\ WordMatchesHolders BY DEF IInv
  <1>u. ASSUME UNCHANGED <<lock, at>> PROVE WordMatchesHolders'
    <2>1. Readers' = Readers /\ Writers' = Writers
      BY <1>u DEF Readers, Writers
    <2> QED BY <1>0, <1>u, <2>1 DEF WordMatchesHolders
  <1>m. ASSUME NEW c \in Contexts, NEW p \in {"idle", "lr", "sc"},
               at[c] \in {"idle", "lr", "sc"}, at' = [at EXCEPT ![c] = p],
               lock' = lock
        PROVE  WordMatchesHolders'
    <2>1. c \notin Readers /\ c \notin Writers BY <1>m DEF Readers, Writers
    <2>2. Readers' = Readers \ {c} /\ Writers' = Writers \ {c}
      BY ONLY <1>0, <1>m, HoldersLeave
    <2>3. Readers' = Readers /\ Writers' = Writers BY <2>1, <2>2
    <2> QED BY <1>0, <1>m, <2>3 DEF WordMatchesHolders
  <1>1. ASSUME NEW c \in Contexts, NEW o \in TaskOps, LockCall(c, o)
        PROVE  WordMatchesHolders'
    BY <1>1, <1>m DEF LockCall
  <1>2. ASSUME NEW c \in Contexts, LockLoadReserved(c) PROVE WordMatchesHolders'
    BY <1>2, <1>m, <1>u DEF LockLoadReserved
  <1>3. ASSUME NEW c \in Contexts, LockScSucceeds(c) PROVE WordMatchesHolders'
    <2>1. /\ ~MustWait(op[c], lock) /\ lock' = NewValue(op[c], lock)
          /\ c \notin Readers /\ c \notin Writers
      BY <1>0, <1>3 DEF LockScSucceeds, NoStaleStore, Readers, Writers
    <2>2. lock >= 0 /\ Writers = {} /\ lock = Cardinality(Readers)
      BY <1>0, <2>1 DEF MustWait, WordMatchesHolders, LockTypeOK
    <2>3. CASE op[c] \in ReadOps
      <3>1. Readers' = Readers \cup {c} /\ Writers' = Writers \ {c}
        BY <1>0, <1>3, <2>3, HoldersMove DEF LockScSucceeds
      <3>2. Cardinality(Readers') = Cardinality(Readers) + 1
        BY <2>1, <3>1, HoldersFinite, FS_AddElement
      <3> QED BY <2>1, <2>2, <2>3, <3>1, <3>2 DEF NewValue, WordMatchesHolders
    <2>4. CASE op[c] \notin ReadOps
      <3>1. Readers' = Readers \ {c} /\ Writers' = Writers \cup {c}
        BY <1>0, <1>3, <2>4, HoldersMove DEF LockScSucceeds
      <3>2. lock = 0 BY <1>0, <2>1, <2>4 DEF MustWait
      <3>3. Readers = {} BY <2>2, <3>2, HoldersFinite, FS_EmptySet
      <3> QED BY <2>1, <2>2, <2>4, <3>1, <3>3 DEF NewValue, WordMatchesHolders
    <2> QED BY <2>3, <2>4
  <1>4. ASSUME NEW c \in Contexts, LockScFails(c) PROVE WordMatchesHolders'
    BY <1>4, <1>m DEF LockScFails
  <1>5. ASSUME NEW c \in Contexts, ReadUnlock(c) PROVE WordMatchesHolders'
    <2>1. c \in Readers BY <1>5 DEF ReadUnlock, Readers
    <2>2. Readers' = Readers \ {c} /\ Writers' = Writers \ {c}
      BY <1>0, <1>5, HoldersLeave DEF ReadUnlock
    <2>3. Cardinality(Readers') = Cardinality(Readers) - 1
      BY <2>1, <2>2, HoldersFinite, FS_RemoveElement
    <2>4. lock = Cardinality(Readers) /\ Writers = {}
      BY <1>0, <2>1 DEF WordMatchesHolders
    <2> QED BY <1>5, <2>2, <2>3, <2>4 DEF ReadUnlock, WordMatchesHolders
  <1>6. ASSUME NEW c \in Contexts, WriteUnlock(c) PROVE WordMatchesHolders'
    <2>1. c \in Writers BY <1>6 DEF WriteUnlock, Writers
    <2>2. Writers = {c} /\ Readers = {}
      BY <1>0, <2>1 DEF WordMatchesHolders
    <2>3. Readers' = {} /\ Writers' = {}
      BY <1>0, <1>6, <2>2, HoldersLeave DEF WriteUnlock
    <2> QED BY <1>6, <2>3, FS_EmptySet DEF WriteUnlock, WordMatchesHolders
  <1>7. ASSUME NEW h \in Cpus,
               Interrupt(h) \/ InterruptReturn(h) \/ LoseReservation(h)
        PROVE WordMatchesHolders'
    BY <1>7, <1>u DEF Interrupt, InterruptReturn, LoseReservation
  <1>8. CASE UNCHANGED lockVars BY <1>8, <1>u DEF lockVars
  <1> QED
    BY <1>1, <1>2, <1>3, <1>4, <1>5, <1>6, <1>7, <1>8 DEF LockNext, LockStep

-----------------------------------------------------------------------------
LEMMA InvariantStep == IInv /\ [LockNext]_lockVars => IInv'
  BY TypeStep, HandlerStep, StaleStep, WordStep DEF IInv

THEOREM Invariance == LockSpec => []IInv
  BY InitIInv, InvariantStep, PTL DEF LockSpec

\* Every variable keeps its type, and the word never goes below -1: an unlock
\* is never applied to a lock nobody holds.
THEOREM TypeCorrect == LockSpec => []LockTypeOK
  BY Invariance, PTL DEF IInv

\* For any number of harts the word is -1 under one writer and otherwise the
\* exact number of readers, interrupted loops included.
THEOREM LockWordCorrect == LockSpec => []WordMatchesHolders
  BY Invariance, PTL DEF IInv

\* No sc that can succeed stores a value computed from an older word.
THEOREM NoStaleStoreCorrect == LockSpec => []NoStaleStore
  BY Invariance, PTL DEF IInv

-----------------------------------------------------------------------------
\* A step of the loops is a step of the abstract lock, or changes no holder.
LEMMA RefineStep == IInv /\ [LockNext]_lockVars => [Abstract!Next]_<<Readers, Writers>>
  <1> SUFFICES ASSUME IInv, [LockNext]_lockVars
               PROVE  [Abstract!Next]_<<Readers, Writers>>
    OBVIOUS
  <1>0. LockTypeOK /\ NoStaleStore /\ WordMatchesHolders BY DEF IInv
  <1>u. ASSUME at' = at PROVE UNCHANGED <<Readers, Writers>>
    BY <1>u DEF Readers, Writers
  <1>m. ASSUME NEW c \in Contexts, NEW p \in {"idle", "lr", "sc"},
               at[c] \in {"idle", "lr", "sc"}, at' = [at EXCEPT ![c] = p]
        PROVE  UNCHANGED <<Readers, Writers>>
    <2>1. c \notin Readers /\ c \notin Writers BY <1>m DEF Readers, Writers
    <2>2. Readers' = Readers \ {c} /\ Writers' = Writers \ {c}
      BY ONLY <1>0, <1>m, HoldersLeave
    <2> QED BY <2>1, <2>2
  <1>1. ASSUME NEW c \in Contexts, NEW o \in TaskOps,
               LockCall(c, o) \/ LockLoadReserved(c) \/ LockScFails(c)
        PROVE  UNCHANGED <<Readers, Writers>>
    BY <1>1, <1>m, <1>u DEF LockCall, LockLoadReserved, LockScFails
  <1>2. ASSUME NEW c \in Contexts, LockScSucceeds(c)
        PROVE  Abstract!AcquireRead(c) \/ Abstract!AcquireWrite(c)
    <2>1. /\ ~MustWait(op[c], lock)
          /\ c \notin Readers /\ c \notin Writers
      BY <1>0, <1>2 DEF LockScSucceeds, NoStaleStore, Readers, Writers
    <2>2. lock >= 0 /\ Writers = {} /\ lock = Cardinality(Readers)
      BY <1>0, <2>1 DEF MustWait, WordMatchesHolders, LockTypeOK
    <2>3. CASE op[c] \in ReadOps
      <3>1. Readers' = Readers \cup {c} /\ Writers' = Writers \ {c}
        BY <1>0, <1>2, <2>3, HoldersMove DEF LockScSucceeds
      <3> QED BY <2>1, <2>2, <3>1 DEF Abstract!AcquireRead
    <2>4. CASE op[c] \notin ReadOps
      <3>1. Readers' = Readers \ {c} /\ Writers' = Writers \cup {c}
        BY <1>0, <1>2, <2>4, HoldersMove DEF LockScSucceeds
      <3>2. lock = 0 BY <1>0, <2>1, <2>4 DEF MustWait
      <3>3. Readers = {} BY <2>2, <3>2, HoldersFinite, FS_EmptySet
      <3> QED BY <2>1, <2>2, <3>1, <3>3 DEF Abstract!AcquireWrite
    <2> QED BY <2>3, <2>4
  <1>3. ASSUME NEW c \in Contexts, ReadUnlock(c) PROVE Abstract!ReleaseRead(c)
    <2>1. c \in Readers /\ c \notin Writers
      BY <1>3 DEF ReadUnlock, Readers, Writers
    <2>2. Readers' = Readers \ {c} /\ Writers' = Writers \ {c}
      BY <1>0, <1>3, HoldersLeave DEF ReadUnlock
    <2> QED BY <2>1, <2>2 DEF Abstract!ReleaseRead
  <1>4. ASSUME NEW c \in Contexts, WriteUnlock(c) PROVE Abstract!ReleaseWrite(c)
    <2>1. c \in Writers BY <1>4 DEF WriteUnlock, Writers
    <2>2. Writers = {c} /\ Readers = {}
      BY <1>0, <2>1 DEF WordMatchesHolders
    <2>3. Readers' = Readers \ {c} /\ Writers' = Writers \ {c}
      BY <1>0, <1>4, HoldersLeave DEF WriteUnlock
    <2> QED BY <2>1, <2>2, <2>3 DEF Abstract!ReleaseWrite
  <1>5. ASSUME NEW h \in Cpus,
               Interrupt(h) \/ InterruptReturn(h) \/ LoseReservation(h)
        PROVE  UNCHANGED <<Readers, Writers>>
    BY <1>5, <1>u DEF Interrupt, InterruptReturn, LoseReservation
  <1>6. CASE UNCHANGED lockVars BY <1>6, <1>u DEF lockVars
  <1>7. TaskOps # {} BY DEF TaskOps
  <1> QED
    BY <1>1, <1>2, <1>3, <1>4, <1>5, <1>6, <1>7 DEF LockNext, LockStep, Abstract!Next

\* The lr/sc loops and the amo unlocks implement the abstract lock for every
\* number of harts, interrupts between an lr and its sc included.
THEOREM Refinement == LockSpec => Implements
  <1>1. LockInit => Abstract!Init
    BY DEF LockInit, Abstract!Init, Readers, Writers
  <1>2. IInv /\ [LockNext]_lockVars => [Abstract!Next]_<<Readers, Writers>>
    BY RefineStep
  <1> QED BY <1>1, <1>2, Invariance, PTL DEF LockSpec, Implements, Abstract!Spec
=============================================================================
