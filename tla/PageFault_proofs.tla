-------------------------- MODULE PageFault_proofs --------------------------
(***************************************************************************)
(* For every finite set of threads, every set of mappings and any number   *)
(* of faults, failures and kills, do_page_fault keeps the mmap_sem's count *)
(* right and acts on the vma it checked.  A user program that touches the  *)
(* vmalloc area makes the code give back a mmap_sem it never took          *)
(* (fault.c:208): the count is then too low by just those releases.        *)
(***************************************************************************)
EXTENDS PageFault, FiniteSetTheorems, TLAPS

\* The way through the vma.
VmaPath == {"retry", "find_vma", "good_area", "handle_mm_fault", "wait_on_page",
            "VM_FAULT_RETRY", "up_read", "out_of_memory", "do_sigbus", "BUG"}

UserVmallocAccess(a) == a.user /\ a.addr = "vmalloc"

\* The threads that hold the mmap_sem, at the places p with the accesses q.
Holders(p, q) == {t \in Threads : p[t] \in SemLabels /\ q[t].addr = "user"}

\* Only a fault on a user address that may sleep goes on to the vma; a fault of
\* user mode in the vmalloc area goes straight to bad_area.
PathInv ==
    \A t \in Threads :
        /\ pc[t] \in VmaPath => acc[t].addr = "user" /\ ~acc[t].atomic
        /\ pc[t] = "bad_area" => \/ acc[t].addr = "user" /\ ~acc[t].atomic
                                 \/ UserVmallocAccess(acc[t])
        /\ pc[t] = "vmalloc_fault" => acc[t].addr = "vmalloc"

\* Nothing but an access of user mode to the vmalloc area makes a stray release.
StrayInv == strays > 0 => \E a \in Accesses : UserVmallocAccess(a)

\* What a thread has found out of the vma stays true while it holds the
\* mmap_sem, although another thread may grow the stack meanwhile; a stray
\* release can make the count zero, and let in a writer.
VmaInv ==
    strays = 0 => \A t \in Threads :
        /\ pc[t] \in {"good_area", "handle_mm_fault"} => vma.kind = "covers"
        /\ pc[t] = "handle_mm_fault" => acc[t].cause \in vma.perms

\* code says ACCERR before the vma is looked up only on a second attempt.
CodeInv ==
    \A t \in Threads :
        pc[t] \in {"retry", "find_vma"} /\ code[t] = "ACCERR" => ~retry[t]

IInv == TypeOK /\ SemMatchesHolders /\ PathInv /\ StrayInv /\ VmaInv /\ CodeInv

USE PageFaultAssumption DEF space, sems, locals

-----------------------------------------------------------------------------
\* Counting the threads that hold the mmap_sem.

LEMMA HoldersCounted ==
  /\ SemMatchesHolders <=> sem = Cardinality(Holders(pc, acc)) - strays
  /\ SemMatchesHolders' <=> sem' = Cardinality(Holders(pc', acc')) - strays'
  BY DEF SemMatchesHolders, HoldsSem, Holders

LEMMA HoldersBound ==
  ASSUME NEW p, NEW q
  PROVE  /\ IsFiniteSet(Holders(p, q))
         /\ Cardinality(Holders(p, q)) \in Nat
         /\ Cardinality(Holders(p, q)) = 0 <=> Holders(p, q) = {}
  <1>1. Holders(p, q) \in SUBSET Threads BY DEF Holders
  <1>2. IsFiniteSet(Holders(p, q)) BY <1>1, FS_Subset
  <1> QED BY <1>2, FS_CardinalityType, FS_EmptySet

\* A thread that goes from one label to another counts as the labels say.
LEMMA OneGoes ==
  ASSUME NEW p, NEW q, NEW t \in Threads, NEW l,
         p \in [Threads -> {"run"} \cup Labels \cup Outcomes]
  PROVE  Cardinality(Holders([p EXCEPT ![t] = l], q)) =
           IF q[t].addr # "user" THEN Cardinality(Holders(p, q))
           ELSE IF p[t] \in SemLabels
                THEN IF l \in SemLabels THEN Cardinality(Holders(p, q))
                     ELSE Cardinality(Holders(p, q)) - 1
           ELSE IF l \in SemLabels THEN Cardinality(Holders(p, q)) + 1
                ELSE Cardinality(Holders(p, q))
  <1> DEFINE r == [p EXCEPT ![t] = l]
  <1>0. CASE q[t].addr # "user"
    <2>1. Holders(r, q) = Holders(p, q) BY <1>0 DEF Holders
    <2> QED BY <1>0, <2>1
  <1>1. CASE q[t].addr = "user" /\ l \in SemLabels
    <2>1. Holders(r, q) = Holders(p, q) \cup {t} BY <1>1 DEF Holders
    <2>2. t \in Holders(p, q) <=> p[t] \in SemLabels BY <1>1 DEF Holders
    <2> QED BY <1>1, <2>1, <2>2, HoldersBound, FS_AddElement
  <1>2. CASE q[t].addr = "user" /\ l \notin SemLabels
    <2>1. Holders(r, q) = Holders(p, q) \ {t} BY <1>2 DEF Holders
    <2>2. t \in Holders(p, q) <=> p[t] \in SemLabels BY <1>2 DEF Holders
    <2>3. IsFiniteSet(Holders(p, q)) BY HoldersBound
    <2>4. Cardinality(Holders(p, q) \ {t})
            = IF t \in Holders(p, q) THEN Cardinality(Holders(p, q)) - 1
              ELSE Cardinality(Holders(p, q))
      BY ONLY <2>3, FS_RemoveElement
    <2> QED BY <1>2, <2>1, <2>2, <2>4
  <1> QED BY <1>0, <1>1, <1>2

LEMMA InitIInv == Init => IInv
  <1> SUFFICES ASSUME Init PROVE IInv OBVIOUS
  <1> USE DEF Init
  <1>1. SemMatchesHolders
    <2>1. Holders(pc, acc) = {} BY DEF Holders, SemLabels
    <2> QED BY <2>1, HoldersCounted, FS_EmptySet
  <1>2. TypeOK
    <2>1. sem \in Int /\ strays \in Nat OBVIOUS
    <2>2. pc \in [Threads -> {"run"} \cup Labels \cup Outcomes] OBVIOUS
    <2>3. events \in 0..MaxEvents OBVIOUS
    <2>4. vma \in Vmas /\ acc \in [Threads -> Accesses] OBVIOUS
    <2> QED BY <2>1, <2>2, <2>3, <2>4 DEF TypeOK
  <1>3. PathInv /\ StrayInv /\ VmaInv /\ CodeInv
    BY DEF PathInv, StrayInv, VmaInv, CodeInv, VmaPath
  <1> QED BY <1>1, <1>2, <1>3 DEF IInv

-----------------------------------------------------------------------------
\* The steps.

\* The sem is right after a thread has gone on, if it changed as the labels say.
LEMMA SemGoes ==
  ASSUME TypeOK, SemMatchesHolders, NEW t \in Threads, NEW l, Goto(t, l),
         UNCHANGED <<acc, strays>>,
         sem' = IF HoldsSem(t) THEN IF l \in SemLabels THEN sem ELSE sem - 1
                ELSE IF l \in SemLabels /\ acc[t].addr = "user" THEN sem + 1 ELSE sem
  PROVE  SemMatchesHolders' /\ sem' \in Int /\ strays' \in Nat
  <1> DEFINE n == Cardinality(Holders(pc, acc))
             m == Cardinality(Holders(pc', acc))
  <1>1. m = IF acc[t].addr # "user" THEN n
            ELSE IF pc[t] \in SemLabels THEN IF l \in SemLabels THEN n ELSE n - 1
            ELSE IF l \in SemLabels THEN n + 1 ELSE n
    <2>1. pc' = [pc EXCEPT ![t] = l] /\ acc' = acc BY DEF Goto
    <2>2. pc \in [Threads -> {"run"} \cup Labels \cup Outcomes] BY DEF TypeOK
    <2>3. Cardinality(Holders([pc EXCEPT ![t] = l], acc)) =
            IF acc[t].addr # "user" THEN n
            ELSE IF pc[t] \in SemLabels THEN IF l \in SemLabels THEN n ELSE n - 1
            ELSE IF l \in SemLabels THEN n + 1 ELSE n
      BY <2>2, OneGoes, Zenon
    <2> QED BY <2>1, <2>3
  <1>2. sem = n - strays /\ n \in Nat /\ strays \in Nat
    BY HoldersCounted, HoldersBound DEF TypeOK
  <1> HIDE DEF n, m
  <1>3. sem' = m - strays BY <1>1, <1>2 DEF HoldsSem
  <1> QED BY <1>1, <1>2, <1>3, HoldersCounted DEF m

\* The mmap_sem is held for reading by whoever acts on the vma.
LEMMA HolderExcludesWriter ==
  ASSUME TypeOK, SemMatchesHolders, sem = 0, strays = 0
  PROVE  \A t \in Threads : ~HoldsSem(t)
  <1>1. Holders(pc, acc) = {} BY HoldersCounted, HoldersBound
  <1> QED BY <1>1 DEF Holders, HoldsSem

\* The typing of the local step of one thread.
LEMMA GotoType ==
  ASSUME TypeOK, NEW t \in Threads, NEW l \in {"run"} \cup Labels \cup Outcomes, Goto(t, l)
  PROVE  /\ pc' \in [Threads -> {"run"} \cup Labels \cup Outcomes]
         /\ pc'[t] = l /\ \A u \in Threads \ {t} : pc'[u] = pc[u]
  BY DEF TypeOK, Goto

LEMMA ResumeType ==
  ASSUME NEW t
  PROVE  Resume(t) \in {"run", "dead"}
  BY DEF Resume

LEMMA AccessSucceedsKeeps ==
  ASSUME IInv, NEW t \in Threads, AccessSucceeds(t)
  PROVE  IInv'
  <1> USE DEF IInv, AccessSucceeds, Goto
  <1>1. SemMatchesHolders' /\ sem' \in Int /\ strays' \in Nat
    BY SemGoes, ResumeType DEF SemLabels, HoldsSem, PathInv, VmaPath
  <1>2. TypeOK'
    BY <1>1, ResumeType DEF TypeOK, Labels, Outcomes, Event
  <1>3. PathInv'
    BY ResumeType DEF TypeOK, PathInv, VmaPath, UserVmallocAccess
  <1>4. VmaInv' /\ CodeInv' /\ StrayInv'
    BY ResumeType DEF TypeOK, VmaInv, CodeInv, StrayInv
  <1> QED BY <1>1, <1>2, <1>3, <1>4

LEMMA DieKeeps ==
  ASSUME IInv, NEW t \in Threads, Die(t)
  PROVE  IInv'
  <1> USE DEF IInv, Die, Goto
  <1>1. SemMatchesHolders' /\ sem' \in Int /\ strays' \in Nat
    BY SemGoes, ResumeType DEF SemLabels, HoldsSem, PathInv, VmaPath
  <1>2. TypeOK'
    BY <1>1, ResumeType DEF TypeOK, Labels, Outcomes, Event
  <1>3. PathInv'
    BY ResumeType DEF TypeOK, PathInv, VmaPath, UserVmallocAccess
  <1>4. VmaInv' /\ CodeInv' /\ StrayInv'
    BY ResumeType DEF TypeOK, VmaInv, CodeInv, StrayInv
  <1> QED BY <1>1, <1>2, <1>3, <1>4

LEMMA FaultKeeps ==
  ASSUME IInv, NEW t \in Threads, Fault(t)
  PROVE  IInv'
  <1> USE DEF IInv, Fault
  <1>1. PICK l \in {"vmalloc_fault", "no_context", "retry"} : Goto(t, l)
    OBVIOUS
  <1>2. SemMatchesHolders' /\ sem' \in Int /\ strays' \in Nat
    BY <1>1, SemGoes DEF SemLabels, HoldsSem, PathInv, VmaPath
  <1>3. TypeOK'
    BY <1>1, <1>2, GotoType DEF TypeOK, Labels
  <1>4. PathInv'
    BY DEF TypeOK, PathInv, VmaPath, UserVmallocAccess, Goto, Access
  <1>5. VmaInv' /\ CodeInv' /\ StrayInv'
    BY <1>1 DEF TypeOK, VmaInv, CodeInv, StrayInv, Goto
  <1> QED BY <1>2, <1>3, <1>4, <1>5

LEMMA DownReadKeeps ==
  ASSUME IInv, NEW t \in Threads, DownRead(t)
  PROVE  IInv'
  <1> USE DEF IInv, DownRead, Goto
  <1>1. SemMatchesHolders' /\ sem' \in Int /\ strays' \in Nat
    BY SemGoes, ResumeType DEF SemLabels, HoldsSem, PathInv, VmaPath
  <1>2. TypeOK'
    BY <1>1, ResumeType DEF TypeOK, Labels, Outcomes, Event
  <1>3. PathInv'
    BY ResumeType DEF TypeOK, PathInv, VmaPath, UserVmallocAccess
  <1>4. VmaInv' /\ CodeInv' /\ StrayInv'
    BY ResumeType DEF TypeOK, VmaInv, CodeInv, StrayInv
  <1> QED BY <1>1, <1>2, <1>3, <1>4

\* Growing the stack under the mmap_sem held for reading disturbs no thread
\* that has found the vma to cover the address already.
LEMMA FindVmaKeeps ==
  ASSUME IInv, NEW t \in Threads, FindVma(t)
  PROVE  IInv'
  <1> USE DEF IInv, FindVma
  <1>1. PICK l \in {"good_area", "bad_area"} : Goto(t, l)
    OBVIOUS
  <1>2. SemMatchesHolders' /\ sem' \in Int /\ strays' \in Nat
    BY <1>1, SemGoes DEF SemLabels, HoldsSem, PathInv, VmaPath
  <1>3. vma' \in Vmas /\ vma'.perms = vma.perms
    BY DEF TypeOK, Vmas
  <1>4. TypeOK'
    BY <1>1, <1>2, <1>3, GotoType DEF TypeOK, Labels, Outcomes, Event
  <1>5. PathInv'
    BY <1>1 DEF TypeOK, PathInv, VmaPath, UserVmallocAccess, Goto
  <1>6. VmaInv'
    <2>1. vma.kind = "covers" => vma'.kind = "covers"
      OBVIOUS
    <2>2. pc'[t] = "good_area" => vma'.kind = "covers"
      BY DEF TypeOK, Vmas, Goto
    <2> QED BY <1>1, <1>3, <2>1, <2>2, GotoType DEF VmaInv, Labels, Outcomes
  <1>7. CodeInv' /\ StrayInv'
    BY <1>1, GotoType DEF CodeInv, StrayInv, Labels, Outcomes
  <1> QED BY <1>2, <1>4, <1>5, <1>6, <1>7

LEMMA GoodAreaKeeps ==
  ASSUME IInv, NEW t \in Threads, GoodArea(t)
  PROVE  IInv'
  <1> USE DEF IInv, GoodArea, Goto
  <1>1. SemMatchesHolders' /\ sem' \in Int /\ strays' \in Nat
    BY SemGoes, ResumeType DEF SemLabels, HoldsSem, PathInv, VmaPath
  <1>2. TypeOK'
    BY <1>1, ResumeType DEF TypeOK, Labels, Outcomes, Event
  <1>3. PathInv'
    BY ResumeType DEF TypeOK, PathInv, VmaPath, UserVmallocAccess
  <1>4. VmaInv' /\ CodeInv' /\ StrayInv'
    BY ResumeType DEF TypeOK, VmaInv, CodeInv, StrayInv
  <1> QED BY <1>1, <1>2, <1>3, <1>4

LEMMA HandleMmFaultKeeps ==
  ASSUME IInv, NEW t \in Threads, HandleMmFault(t)
  PROVE  IInv'
  <1> USE DEF IInv, HandleMmFault
  <1>1. PICK l \in {"up_read", "handle_mm_fault", "out_of_memory", "do_sigbus", "BUG"} : Goto(t, l)
    BY DEF TypeOK, Goto
  <1>2. SemMatchesHolders' /\ sem' \in Int /\ strays' \in Nat
    BY <1>1, SemGoes DEF SemLabels, HoldsSem, PathInv, VmaPath
  <1>3. TypeOK'
    BY <1>1, <1>2, GotoType DEF TypeOK, Labels, Outcomes, Event
  <1>4. PathInv'
    BY <1>1 DEF TypeOK, PathInv, VmaPath, UserVmallocAccess, Goto
  <1>5. VmaInv' /\ CodeInv' /\ StrayInv'
    BY <1>1 DEF TypeOK, VmaInv, CodeInv, StrayInv, Goto
  <1> QED BY <1>2, <1>3, <1>4, <1>5

LEMMA LockPageOrRetryKeeps ==
  ASSUME IInv, NEW t \in Threads, LockPageOrRetry(t)
  PROVE  IInv'
  <1> USE DEF IInv, LockPageOrRetry, Goto
  <1>1. SemMatchesHolders' /\ sem' \in Int /\ strays' \in Nat
    BY SemGoes, ResumeType DEF SemLabels, HoldsSem, PathInv, VmaPath
  <1>2. TypeOK'
    BY <1>1, ResumeType DEF TypeOK, Labels, Outcomes, Event
  <1>3. PathInv'
    BY ResumeType DEF TypeOK, PathInv, VmaPath, UserVmallocAccess
  <1>4. VmaInv' /\ CodeInv' /\ StrayInv'
    BY ResumeType DEF TypeOK, VmaInv, CodeInv, StrayInv
  <1> QED BY <1>1, <1>2, <1>3, <1>4

LEMMA WaitOnPageKeeps ==
  ASSUME IInv, NEW t \in Threads, WaitOnPage(t)
  PROVE  IInv'
  <1> USE DEF IInv, WaitOnPage, Goto
  <1>1. SemMatchesHolders' /\ sem' \in Int /\ strays' \in Nat
    BY SemGoes, ResumeType DEF SemLabels, HoldsSem, PathInv, VmaPath
  <1>2. TypeOK'
    BY <1>1, ResumeType DEF TypeOK, Labels, Outcomes, Event
  <1>3. PathInv'
    BY ResumeType DEF TypeOK, PathInv, VmaPath, UserVmallocAccess
  <1>4. VmaInv' /\ CodeInv' /\ StrayInv'
    BY ResumeType DEF TypeOK, VmaInv, CodeInv, StrayInv
  <1> QED BY <1>1, <1>2, <1>3, <1>4

LEMMA RetryKeeps ==
  ASSUME IInv, NEW t \in Threads, Retry(t)
  PROVE  IInv'
  <1> USE DEF IInv, Retry, Goto
  <1>1. SemMatchesHolders' /\ sem' \in Int /\ strays' \in Nat
    BY SemGoes, ResumeType DEF SemLabels, HoldsSem, PathInv, VmaPath
  <1>2. TypeOK'
    BY <1>1, ResumeType DEF TypeOK, Labels, Outcomes, Event
  <1>3. PathInv'
    BY ResumeType DEF TypeOK, PathInv, VmaPath, UserVmallocAccess
  <1>4. VmaInv' /\ CodeInv' /\ StrayInv'
    BY ResumeType DEF TypeOK, VmaInv, CodeInv, StrayInv
  <1> QED BY <1>1, <1>2, <1>3, <1>4

\* The ways out lead to the program or to no_context.
LEMMA RemedyType ==
  ASSUME TypeOK, NEW t \in Threads,
         pc[t] \in {"up_read", "bad_area", "out_of_memory", "do_sigbus"}
  PROVE  Remedy(t) \in {"run", "dead", "no_context", "SIGSEGV", "SIGBUS"}
  <1>1. acc[t].user \in BOOLEAN BY DEF TypeOK, Access
  <1>2. CASE pc[t] = "up_read" \/ ~acc[t].user
    BY <1>2, ResumeType DEF Remedy
  <1>3. CASE pc[t] # "up_read" /\ acc[t].user
    BY <1>1, <1>3, ResumeType DEF Remedy
  <1> QED BY <1>1, <1>2, <1>3

LEMMA UpReadKeeps ==
  ASSUME IInv, NEW t \in Threads, UpRead(t)
  PROVE  IInv'
  <1> USE DEF IInv, UpRead
  <1>1. PICK l \in {"run", "dead", "no_context", "SIGSEGV", "SIGBUS"} : Goto(t, l)
    BY RemedyType
  <1>2. SemMatchesHolders' /\ sem' \in Int /\ strays' \in Nat /\ StrayInv'
    <2>1. CASE HoldsSem(t)
      <3>1. l \notin SemLabels BY <1>1 DEF SemLabels
      <3> QED BY <1>1, <2>1, <3>1, SemGoes DEF StrayInv
    \* bad_area, entered from vmalloc_fault
    <2>2. CASE ~HoldsSem(t)
      <3>1. UserVmallocAccess(acc[t]) /\ acc[t] \in Accesses
        BY <2>2 DEF HoldsSem, PathInv, VmaPath, SemLabels, TypeOK
      <3>2. Cardinality(Holders(pc', acc)) = Cardinality(Holders(pc, acc))
        <4>1. pc' = [pc EXCEPT ![t] = l] BY <1>1 DEF Goto
        <4>2. pc \in [Threads -> {"run"} \cup Labels \cup Outcomes] BY DEF TypeOK
        <4>3. acc[t].addr # "user" BY <3>1 DEF UserVmallocAccess
        <4>4. Cardinality(Holders([pc EXCEPT ![t] = l], acc)) = Cardinality(Holders(pc, acc))
          BY <4>2, <4>3, OneGoes, Zenon
        <4> QED BY <4>1, <4>4
      <3>3. sem' = sem - 1 /\ strays' = strays + 1 /\ sem \in Int /\ strays \in Nat /\ acc' = acc
        BY <2>2 DEF TypeOK
      <3>4. Cardinality(Holders(pc, acc)) \in Nat BY HoldersBound
      <3>5. SemMatchesHolders' BY <3>2, <3>3, <3>4, HoldersCounted
      <3> QED BY <3>1, <3>3, <3>5 DEF StrayInv
    <2> QED BY <2>1, <2>2
  <1>3. TypeOK'
    BY <1>1, <1>2, GotoType DEF TypeOK, Labels, Outcomes
  <1>4. PathInv'
    BY <1>1 DEF TypeOK, PathInv, VmaPath, UserVmallocAccess, Goto
  <1>5. VmaInv' /\ CodeInv'
    BY <1>1 DEF TypeOK, VmaInv, CodeInv, Goto
  <1> QED BY <1>2, <1>3, <1>4, <1>5

LEMMA NoContextKeeps ==
  ASSUME IInv, NEW t \in Threads, NoContext(t)
  PROVE  IInv'
  <1> USE DEF IInv, NoContext, Goto
  <1>1. SemMatchesHolders' /\ sem' \in Int /\ strays' \in Nat
    BY SemGoes, ResumeType DEF SemLabels, HoldsSem, PathInv, VmaPath
  <1>2. TypeOK'
    BY <1>1, ResumeType DEF TypeOK, Labels, Outcomes, Event
  <1>3. PathInv'
    BY ResumeType DEF TypeOK, PathInv, VmaPath, UserVmallocAccess
  <1>4. VmaInv' /\ CodeInv' /\ StrayInv'
    BY ResumeType DEF TypeOK, VmaInv, CodeInv, StrayInv
  <1> QED BY <1>1, <1>2, <1>3, <1>4

\* The goto bad_area of the vmalloc case takes no mmap_sem.
LEMMA VmallocFaultKeeps ==
  ASSUME IInv, NEW t \in Threads, VmallocFault(t)
  PROVE  IInv'
  <1> USE DEF IInv, VmallocFault
  <1>1. acc[t].addr = "vmalloc" BY DEF PathInv
  <1>2. PICK l \in {"run", "dead", "no_context", "bad_area"} :
           Goto(t, l) /\ (l = "bad_area" => acc[t].user)
    BY ResumeType
  <1>3. SemMatchesHolders' /\ sem' \in Int /\ strays' \in Nat
    BY <1>1, <1>2, SemGoes DEF HoldsSem
  <1>4. TypeOK'
    BY <1>2, <1>3, GotoType DEF TypeOK, Labels, Outcomes, SetPgd
  <1>5. PathInv'
    BY <1>1, <1>2 DEF TypeOK, PathInv, VmaPath, UserVmallocAccess, Goto
  <1>6. VmaInv' /\ CodeInv' /\ StrayInv'
    BY <1>1, <1>2 DEF TypeOK, VmaInv, CodeInv, StrayInv, Goto
  <1> QED BY <1>3, <1>4, <1>5, <1>6

LEMMA NextAccessKeeps ==
  ASSUME IInv, NEW t \in Threads, NEW a \in Accesses, NextAccess(t, a)
  PROVE  IInv'
  <1> USE DEF IInv, NextAccess
  <1>1. pc'[t] = "run" /\ pc[t] \notin SemLabels
        /\ \A u \in Threads \ {t} : pc'[u] = pc[u] /\ acc'[u] = acc[u]
    BY GotoType DEF TypeOK, SemLabels
  <1>2. SemMatchesHolders'
    <2>1. Holders(pc', acc') = Holders(pc, acc) BY <1>1 DEF Holders, SemLabels
    <2> QED BY <2>1, HoldersCounted
  <1>3. TypeOK'
    BY GotoType DEF TypeOK, Event
  <1>4. PathInv' /\ VmaInv' /\ CodeInv' /\ StrayInv'
    BY <1>1 DEF TypeOK, PathInv, VmaInv, CodeInv, StrayInv, VmaPath
  <1> QED BY <1>2, <1>3, <1>4

\* The writer finds nobody between the check of the vma and its use.
LEMMA ChangeVmaKeeps ==
  ASSUME IInv, NEW v \in Mappings, ChangeVma(v)
  PROVE  IInv'
  <1> USE DEF IInv, ChangeVma
  <1>1. TypeOK' BY DEF TypeOK, Event
  <1>2. SemMatchesHolders' BY DEF SemMatchesHolders, HoldsSem
  <1>3. VmaInv' BY HolderExcludesWriter DEF VmaInv, SemLabels, HoldsSem, PathInv, VmaPath
  <1>4. PathInv' /\ CodeInv' /\ StrayInv' BY DEF PathInv, CodeInv, StrayInv
  <1> QED BY <1>1, <1>2, <1>3, <1>4

LEMMA OtherKeeps ==
  ASSUME IInv, \/ PageIn \/ Reclaim \/ Vmalloc
               \/ \E t \in Threads : Kill(t)
               \/ UNCHANGED vars
  PROVE  IInv'
  <1> USE DEF IInv, vars
  <1>1. UNCHANGED <<vma, sem, strays, pc, acc, code, retry>>
    BY DEF PageIn, Reclaim, Vmalloc, Kill
  <1>2. SemMatchesHolders' /\ PathInv' /\ VmaInv' /\ CodeInv' /\ StrayInv'
    BY <1>1 DEF SemMatchesHolders, HoldsSem, PathInv, VmaInv, CodeInv, StrayInv
  <1>3. TypeOK'
    BY DEF TypeOK, PageIn, Reclaim, Vmalloc, Kill, Event
  <1> QED BY <1>2, <1>3

LEMMA NextIInv ==
  ASSUME IInv, [Next]_vars
  PROVE  IInv'
  <1>1. ASSUME NEW t \in Threads, FaultStep(t) PROVE IInv'
    BY <1>1, FaultKeeps, DownReadKeeps, FindVmaKeeps, GoodAreaKeeps, HandleMmFaultKeeps,
       LockPageOrRetryKeeps, WaitOnPageKeeps, RetryKeeps, UpReadKeeps, NoContextKeeps,
       VmallocFaultKeeps DEF FaultStep
  <1> QED
    BY <1>1, AccessSucceedsKeeps, DieKeeps, NextAccessKeeps, ChangeVmaKeeps, OtherKeeps DEF Next

\* A thread decides for SIGSEGV where it looks the vma up, or at its permissions.
LEMMA BadAreaFrom ==
  ASSUME IInv, Next, NEW t \in Threads, acc[t].addr = "user",
         pc[t] # "bad_area", pc'[t] = "bad_area"
  PROVE  FindVma(t) \/ GoodArea(t)
  <1> USE DEF IInv, TypeOK, Goto
  <1>1. ASSUME NEW u \in Threads,
               \/ Fault(u) \/ DownRead(u) \/ HandleMmFault(u) \/ LockPageOrRetry(u)
               \/ WaitOnPage(u) \/ Retry(u) \/ NoContext(u)
               \/ AccessSucceeds(u) \/ Die(u) \/ Kill(u)
               \/ \E a \in Accesses : NextAccess(u, a)
        PROVE  FALSE
    BY <1>1, ResumeType
       DEF Fault, DownRead, HandleMmFault, LockPageOrRetry, WaitOnPage, Retry, NoContext,
           AccessSucceeds, Die, Kill, NextAccess
  <1>2. ASSUME NEW u \in Threads, UpRead(u) PROVE FALSE
    BY <1>2, RemedyType DEF UpRead
  <1>3. ASSUME NEW u \in Threads, VmallocFault(u) PROVE FALSE
    <2>1. u # t BY <1>3 DEF PathInv, VmallocFault
    <2> QED BY <1>3, <2>1 DEF VmallocFault
  <1>4. ASSUME NEW u \in Threads, FindVma(u) \/ GoodArea(u) PROVE u = t
    BY <1>4 DEF FindVma, GoodArea
  <1>5. ASSUME PageIn \/ Reclaim \/ Vmalloc \/ \E v \in Mappings : ChangeVma(v)
        PROVE  FALSE
    BY <1>5 DEF PageIn, Reclaim, Vmalloc, ChangeVma
  <1> QED BY <1>1, <1>2, <1>3, <1>4, <1>5 DEF Next, FaultStep

-----------------------------------------------------------------------------
\* The inductive invariant.
THEOREM Invariance == Spec => []IInv
  BY InitIInv, NextIInv, PTL DEF Spec

\* The variables have their types in every reachable state, whatever the
\* programs touch.
THEOREM TypeCorrect == Spec => []TypeOK
  <1>1. IInv => TypeOK BY DEF IInv
  <1> QED BY <1>1, Invariance, PTL

\* Every way through do_page_fault that takes the mmap_sem gives it back exactly
\* once, the retry inside handle_mm_fault included, but for the BUG(); and the one
\* that gives it back without, for user mode in the vmalloc area, is all that
\* the count is too low by (fault.c:60-160, 208).
THEOREM SemCorrect == Spec => []SemMatchesHolders
  <1>1. IInv => SemMatchesHolders BY DEF IInv
  <1> QED BY <1>1, Invariance, PTL

\* As long as no program touches the vmalloc area in user mode the count is that
\* of the holders: never negative, and zero only when nobody holds it.
THEOREM SemBalanced ==
  Spec => []((\A a \in Accesses : ~UserVmallocAccess(a)) =>
               strays = 0 /\ sem = Cardinality({t \in Threads : HoldsSem(t)}))
  <1>1. IInv => ((\A a \in Accesses : ~UserVmallocAccess(a)) =>
               strays = 0 /\ sem = Cardinality({t \in Threads : HoldsSem(t)}))
    <2> SUFFICES ASSUME IInv, \A a \in Accesses : ~UserVmallocAccess(a)
                 PROVE  strays = 0 /\ sem = Cardinality({t \in Threads : HoldsSem(t)})
      OBVIOUS
    <2>1. strays = 0 BY DEF IInv, StrayInv, TypeOK
    <2> DEFINE n == Cardinality({t \in Threads : HoldsSem(t)})
    <2>2. sem = n - strays BY DEF IInv, SemMatchesHolders
    <2>3. Holders(pc, acc) = {t \in Threads : HoldsSem(t)} BY DEF Holders, HoldsSem
    <2>4. n \in Nat BY <2>3, HoldersBound
    <2> HIDE DEF n
    <2>5. sem = n BY <2>1, <2>2, <2>4
    <2> QED BY <2>1, <2>5 DEF n
  <1> QED BY <1>1, Invariance, PTL

\* A fault with page faults disabled, or in the vmalloc area, never sleeps on
\* the mmap_sem or on a page (fault.c:35-56).
THEOREM NoSleepCorrect == Spec => []NoSleepInAtomic
  <1>1. IInv => NoSleepInAtomic
    BY DEF IInv, PathInv, NoSleepInAtomic, VmaPath
  <1> QED BY <1>1, Invariance, PTL

\* The page is handled under the vma that permits the access, and the SIGSEGV
\* says what the vma said (fault.c:61-90).
THEOREM HandlingCorrect == Spec => HandlesWhatItChecked
  <1> DEFINE Handles(t) ==
        /\ pc'[t] = "handle_mm_fault" => vma'.kind = "covers" /\ acc'[t].cause \in vma'.perms
        /\ pc[t] # "bad_area" /\ pc'[t] = "bad_area" =>
              IF code'[t] = "MAPERR" THEN vma.kind # "covers"
              ELSE \/ vma.kind = "covers" /\ acc[t].cause \notin vma.perms
                   \/ ~retry[t]
  <1>1. IInv /\ IInv' /\ [Next]_vars => [strays' = 0 => \A t \in Threads : acc[t].addr = "user" => Handles(t)]_vars
    <2> SUFFICES ASSUME IInv, IInv', Next, strays' = 0, NEW t \in Threads, acc[t].addr = "user"
                 PROVE  Handles(t)
      OBVIOUS
    <2>1. pc'[t] = "handle_mm_fault" => vma'.kind = "covers" /\ acc'[t].cause \in vma'.perms
      BY DEF IInv, VmaInv
    <2>2. ASSUME pc[t] # "bad_area", pc'[t] = "bad_area"
          PROVE  FindVma(t) \/ GoodArea(t)
      BY <2>2, BadAreaFrom
    <2>3. CASE FindVma(t)
      BY <2>1, <2>3 DEF FindVma, Goto, IInv, TypeOK, CodeInv
    <2>4. CASE GoodArea(t)
      BY <2>1, <2>4 DEF GoodArea, Goto, IInv, TypeOK, VmaInv
    <2> QED BY <2>1, <2>2, <2>3, <2>4
  <1>2. IInv /\ [Next]_vars => IInv' BY NextIInv
  <1> QED BY <1>1, <1>2, Invariance, PTL DEF HandlesWhatItChecked, Spec
=============================================================================
