----------------------------- MODULE PageFault -----------------------------
(***************************************************************************)
(* do_page_fault of mm/fault.c, run by the threads of one process on one   *)
(* user page and on one address of the vmalloc area: the mmap_sem, the     *)
(* retry after a page was waited for, the signals and exception table      *)
(* fixups, and the lazy copy of the kernel's top-level page table.         *)
(*                                                                         *)
(* The generic memory manager is modelled from how do_page_fault uses it:  *)
(* mmap and munmap under the mmap_sem held for writing, handle_mm_fault    *)
(* with page I/O, the release of the mmap_sem before VM_FAULT_RETRY.       *)
(***************************************************************************)
EXTENDS Integers, FiniteSets

CONSTANTS
    Threads,     \* the threads of the process
    Accesses,    \* the accesses they make, see Access
    Mappings,    \* what mmap and munmap make of the user page, see Vmas
    MayKill,     \* whether a thread can be sent a fatal signal
    MaxEvents    \* bound: changes of the address space, failures, kills

\* addr: in the user area or the vmalloc area; user: made in user mode;
\* cause: the permission it needs; fixup: there is an exception table entry
\* for the instruction; atomic: page faults are disabled around it.
Access == [addr : {"user", "vmalloc"}, user : BOOLEAN, cause : {"read", "write", "exec"},
           fixup : BOOLEAN, atomic : BOOLEAN]

\* kind: no vma at or above the address; one above it, which can grow down or
\* not; or one that covers it.
Vmas == [kind : {"none", "above", "stack", "covers"}, perms : SUBSET {"read", "write", "exec"}]

ASSUME PageFaultAssumption ==
    /\ Mappings \subseteq Vmas
    /\ Accesses \subseteq Access
    /\ \A a \in Accesses : a.user => ~a.fixup /\ ~a.atomic
    /\ IsFiniteSet(Threads)
    /\ MayKill \in BOOLEAN /\ MaxEvents \in Nat

VARIABLES
    vma,     \* what find_vma says of the user page
    page,    \* the user page: "absent", "locked" (being read in) or "present"
    sem,     \* the mmap_sem's count: its readers, -1 for a writer
    strays,  \* how often an up_read gave back what nobody had taken (a ghost)
    ref,     \* how deep init_mm.pgd maps the vmalloc address
    pgd,     \* whether the process's page table has the kernel's top entry
    pc,      \* where each thread is, in the words of do_page_fault's labels
    acc,     \* the access each thread makes
    code,    \* the local variable of that name
    retry,   \* FAULT_FLAG_ALLOW_RETRY is set in the local variable flags
    fatal,   \* threads with a fatal signal pending
    events

space  == <<vma, page, ref, pgd>>
locals == <<acc, code, retry>>
sems   == <<sem, strays>>
vars   == <<space, sems, pc, locals, fatal, events>>

Init ==
    /\ vma \in Mappings /\ page = "absent"
    /\ sem = 0 /\ strays = 0
    /\ ref = "none" /\ pgd = FALSE
    /\ pc = [t \in Threads |-> "run"]
    /\ acc \in [Threads -> Accesses]
    /\ code = [t \in Threads |-> "MAPERR"]
    /\ retry = [t \in Threads |-> TRUE]
    /\ fatal = {} /\ events = 0

Goto(t, l) == pc' = [pc EXCEPT ![t] = l]
Event == events < MaxEvents /\ events' = events + 1

-----------------------------------------------------------------------------
\* The thread outside of do_page_fault.

\* What the hart's page table walk finds.
Mapped(a) ==
    IF a.addr = "vmalloc" THEN pgd /\ ref = "pte" /\ ~a.user
    ELSE vma.kind = "covers" /\ page = "present" /\ a.cause \in vma.perms

AccessSucceeds(t) ==
    /\ pc[t] = "run" /\ Mapped(acc[t])
    /\ Goto(t, "ok")
    /\ UNCHANGED <<space, sems, locals, fatal, events>>

\* After the fault: a thread that goes back to user mode with a fatal signal
\* pending dies there; one that goes back to kernel code makes the access again.
Resume(t) == IF acc[t].user /\ t \in fatal THEN "dead" ELSE "run"

\* The signal is also noticed when nothing faults.
Die(t) ==
    /\ pc[t] \in {"ok", "SIGSEGV", "SIGBUS", "fixup"} /\ t \in fatal
    /\ Goto(t, "dead")
    /\ UNCHANGED <<space, sems, locals, fatal, events>>

\* The program, or the signal handler, goes on to another access.
NextAccess(t, a) ==
    /\ pc[t] \in {"ok", "SIGSEGV", "SIGBUS", "fixup"} /\ t \notin fatal
    /\ acc' = [acc EXCEPT ![t] = a]
    /\ Goto(t, "run")
    /\ Event
    /\ UNCHANGED <<space, sems, code, retry, fatal>>

-----------------------------------------------------------------------------
\* do_page_fault.

\* Mutant: faulthandler_disabled is not looked at.
FaultIgnoresDisabled(t) ==
    /\ pc[t] = "run" /\ ~Mapped(acc[t])
    /\ code' = [code EXCEPT ![t] = "MAPERR"]
    /\ retry' = [retry EXCEPT ![t] = TRUE]
    /\ Goto(t, IF acc[t].addr = "vmalloc" THEN "vmalloc_fault" ELSE "retry")
    /\ UNCHANGED <<space, sems, acc, fatal, events>>

\* The locals; the vmalloc area is told apart first, then the faults that must
\* not be handled.
Fault(t) ==
    /\ pc[t] = "run" /\ ~Mapped(acc[t])
    /\ code' = [code EXCEPT ![t] = "MAPERR"]
    /\ retry' = [retry EXCEPT ![t] = TRUE]
    /\ Goto(t, IF acc[t].addr = "vmalloc" THEN "vmalloc_fault"
               ELSE IF acc[t].atomic THEN "no_context" ELSE "retry")
    /\ UNCHANGED <<space, sems, acc, fatal, events>>

\* down_read(&mm->mmap_sem): RWSEM_GENERIC_SPINLOCK lets a reader in unless the
\* count is negative.
DownRead(t) ==
    /\ pc[t] = "retry" /\ sem >= 0
    /\ sem' = sem + 1
    /\ Goto(t, "find_vma")
    /\ UNCHANGED <<space, strays, locals, fatal, events>>

\* expand_stack, under the mmap_sem held for reading, can fail.
FindVma(t) ==
    /\ pc[t] = "find_vma"
    /\ \/ vma.kind \in {"none", "above"} /\ Goto(t, "bad_area") /\ UNCHANGED <<vma, events>>
       \/ vma.kind = "covers" /\ Goto(t, "good_area") /\ UNCHANGED <<vma, events>>
       \/ /\ vma.kind = "stack"
          /\ \/ /\ vma' = [vma EXCEPT !.kind = "covers"]
                /\ Goto(t, "good_area") /\ UNCHANGED events
             \/ Event /\ Goto(t, "bad_area") /\ UNCHANGED vma
    /\ UNCHANGED <<page, ref, pgd, sems, locals, fatal>>

GoodArea(t) ==
    /\ pc[t] = "good_area"
    /\ code' = [code EXCEPT ![t] = "ACCERR"]
    /\ Goto(t, IF acc[t].cause \in vma.perms THEN "handle_mm_fault" ELSE "bad_area")
    /\ UNCHANGED <<space, sems, acc, retry, fatal, events>>

\* handle_mm_fault finds the page, makes it, fails, or starts to read it in.
\* An error other than OOM and SIGBUS is a BUG(): the thread ends there.
HandleMmFault(t) ==
    /\ pc[t] = "handle_mm_fault" /\ page # "locked"
    /\ \/ page' = "present" /\ Goto(t, "up_read") /\ UNCHANGED events
       \/ page = "absent" /\ page' = "locked" /\ UNCHANGED <<pc, events>>
       \/ Event /\ UNCHANGED page /\ \E l \in {"out_of_memory", "do_sigbus", "BUG"} : Goto(t, l)
    /\ UNCHANGED <<vma, ref, pgd, sems, locals, fatal>>

\* __lock_page_or_retry: it gives the mmap_sem back before it waits for the
\* page, if a retry is allowed; else it waits (the guard above).
LockPageOrRetry(t) ==
    /\ pc[t] = "handle_mm_fault" /\ page = "locked" /\ retry[t]
    /\ sem' = sem - 1
    /\ Goto(t, "wait_on_page")
    /\ UNCHANGED <<space, strays, locals, fatal, events>>

\* The wait ends early if the thread is killed: VM_FAULT_RETRY.
WaitOnPage(t) ==
    /\ pc[t] = "wait_on_page" /\ (page # "locked" \/ t \in fatal)
    /\ Goto(t, "VM_FAULT_RETRY")
    /\ UNCHANGED <<space, sems, locals, fatal, events>>

\* Mutant: the mmap_sem is given back once more before the retry.
RetryUpRead(t) ==
    /\ pc[t] = "VM_FAULT_RETRY"
    /\ sem' = sem - 1
    /\ IF t \in fatal THEN Goto(t, Resume(t)) /\ UNCHANGED retry
       ELSE Goto(t, "retry") /\ retry' = [retry EXCEPT ![t] = FALSE]
    /\ UNCHANGED <<space, strays, acc, code, fatal, events>>

\* Mutant: the retry goes on with the vma of the first attempt.
RetryKeepsVma(t) ==
    /\ pc[t] = "VM_FAULT_RETRY"
    /\ IF t \in fatal THEN Goto(t, Resume(t)) /\ UNCHANGED <<sem, retry>>
       ELSE /\ Goto(t, "handle_mm_fault") /\ sem >= 0
            /\ sem' = sem + 1 /\ retry' = [retry EXCEPT ![t] = FALSE]
    /\ UNCHANGED <<space, strays, acc, code, fatal, events>>

\* A killed thread returns, to user mode or to the same kernel instruction;
\* any other tries once more, without ALLOW_RETRY.
Retry(t) ==
    /\ pc[t] = "VM_FAULT_RETRY"
    /\ IF t \in fatal THEN Goto(t, Resume(t)) /\ UNCHANGED retry
       ELSE Goto(t, "retry") /\ retry' = [retry EXCEPT ![t] = FALSE]
    /\ UNCHANGED <<space, sems, acc, code, fatal, events>>

\* The ways out that give the mmap_sem back: the fault is handled, or it is
\* the process's (a signal, the OOM killer), or the kernel's (no_context).
Remedy(t) ==
    CASE pc[t] = "up_read" -> Resume(t)
      [] pc[t] # "up_read" /\ ~acc[t].user -> "no_context"
      [] pc[t] = "bad_area" /\ acc[t].user -> "SIGSEGV"
      [] pc[t] = "do_sigbus" /\ acc[t].user -> "SIGBUS"
      [] pc[t] = "out_of_memory" /\ acc[t].user -> Resume(t)

\* Who goes on from retry holds the mmap_sem until its up_read; or for ever, if
\* it ends at the BUG().
SemLabels == {"find_vma", "good_area", "handle_mm_fault", "up_read",
              "bad_area", "out_of_memory", "do_sigbus", "BUG"}
HoldsSem(t) == pc[t] \in SemLabels /\ acc[t].addr = "user"

UpRead(t) ==
    /\ pc[t] \in {"up_read", "bad_area", "out_of_memory", "do_sigbus"}
    /\ sem' = sem - 1
    /\ strays' = IF HoldsSem(t) THEN strays ELSE strays + 1
    /\ Goto(t, Remedy(t))
    /\ UNCHANGED <<space, locals, fatal, events>>

\* fixup_exception, or the oops.
NoContext(t) ==
    /\ pc[t] = "no_context"
    /\ Goto(t, IF acc[t].fixup THEN "fixup" ELSE "oops")
    /\ UNCHANGED <<space, sems, locals, fatal, events>>

\* Mutant: the top entry is not copied.
SetPgdNot == pgd

SetPgd == pgd \/ ref # "none"

\* vmalloc_fault: copy the top entry from init_mm.pgd, then see how far the
\* reference table goes.
VmallocFault(t) ==
    /\ pc[t] = "vmalloc_fault"
    /\ IF acc[t].user THEN Goto(t, "bad_area") /\ UNCHANGED pgd
       ELSE /\ pgd' = SetPgd
            /\ Goto(t, IF ref = "pte" THEN Resume(t) ELSE "no_context")
    /\ UNCHANGED <<vma, page, ref, sems, locals, fatal, events>>

-----------------------------------------------------------------------------
\* The rest of the kernel.

\* mmap, munmap, mprotect: with the mmap_sem held for writing.
ChangeVma(v) ==
    /\ sem = 0 /\ Event
    /\ vma' = v /\ page' = "absent"
    /\ page # "locked"
    /\ UNCHANGED <<ref, pgd, sems, pc, locals, fatal>>

PageIn ==
    /\ page = "locked" /\ page' = "present"
    /\ UNCHANGED <<vma, ref, pgd, sems, pc, locals, fatal, events>>

\* The page is taken away again, without the mmap_sem.
Reclaim ==
    /\ page = "present" /\ page' = "absent" /\ Event
    /\ UNCHANGED <<vma, ref, pgd, sems, pc, locals, fatal>>

\* vmalloc maps the address in init_mm top down; vfree clears the last level.
Vmalloc ==
    /\ Event
    /\ \/ ref = "none" /\ ref' \in {"pgd", "pmd", "pte"}
       \/ ref = "pgd" /\ ref' \in {"pmd", "pte"}
       \/ ref = "pmd" /\ ref' = "pte"
       \/ ref = "pte" /\ ref' = "pmd"
    /\ UNCHANGED <<vma, page, pgd, sems, pc, locals, fatal>>

Kill(t) ==
    /\ MayKill /\ t \notin fatal /\ pc[t] \notin {"dead", "oops", "BUG"} /\ Event
    /\ fatal' = fatal \cup {t}
    /\ UNCHANGED <<space, sems, pc, locals>>

-----------------------------------------------------------------------------
FaultStep(t) ==
    \/ Fault(t) \/ DownRead(t) \/ FindVma(t) \/ GoodArea(t) \/ HandleMmFault(t)
    \/ LockPageOrRetry(t) \/ WaitOnPage(t) \/ Retry(t) \/ UpRead(t)
    \/ NoContext(t) \/ VmallocFault(t)

Next ==
    \/ \E t \in Threads :
          \/ FaultStep(t) \/ AccessSucceeds(t) \/ Die(t) \/ Kill(t)
          \/ \E a \in Accesses : NextAccess(t, a)
    \/ \E v \in Mappings : ChangeVma(v)
    \/ PageIn \/ Reclaim \/ Vmalloc

Spec == Init /\ [][Next]_vars

\* Every thread that can run does; page I/O need not end.
ThreadFairness ==
    \A t \in Threads : WF_vars(FaultStep(t) \/ AccessSucceeds(t) \/ Die(t))
SpecIoMayHang == Spec /\ ThreadFairness

\* Page I/O ends.
FairSpec == SpecIoMayHang /\ WF_vars(PageIn)

-----------------------------------------------------------------------------
Labels == {"retry", "find_vma", "good_area", "handle_mm_fault", "wait_on_page",
           "VM_FAULT_RETRY", "up_read", "bad_area", "out_of_memory", "do_sigbus",
           "no_context", "vmalloc_fault"}
Outcomes == {"ok", "SIGSEGV", "SIGBUS", "fixup", "oops", "dead", "BUG"}

TypeOK ==
    /\ vma \in Vmas /\ page \in {"absent", "locked", "present"}
    /\ sem \in Int /\ strays \in Nat
    /\ ref \in {"none", "pgd", "pmd", "pte"} /\ pgd \in BOOLEAN
    /\ pc \in [Threads -> {"run"} \cup Labels \cup Outcomes]
    /\ acc \in [Threads -> Accesses]
    /\ code \in [Threads -> {"MAPERR", "ACCERR"}]
    /\ retry \in [Threads -> BOOLEAN]
    /\ fatal \in SUBSET Threads
    /\ events \in 0..MaxEvents

\* The mmap_sem counts exactly the threads between their down_read and the
\* up_read of whichever way they leave, the release inside handle_mm_fault
\* on VM_FAULT_RETRY included, less the releases that nobody's down_read
\* preceded: those of the accesses of user mode to the vmalloc area.
SemMatchesHolders == sem = Cardinality({t \in Threads : HoldsSem(t)}) - strays

\* What a thread does about its access fits the vma, as long as no stray release
\* let a writer in: while it handles the fault under the mmap_sem the vma is
\* there and permits the access; and it decides for SIGSEGV with MAPERR only if
\* nothing is mapped there, and with ACCERR only if the vma forbids the access,
\* except on a second attempt: code keeps the ACCERR of the first even if the
\* vma is gone by then.
HandlesWhatItChecked ==
    [][strays' = 0 => \A t \in Threads : acc[t].addr = "user" =>
        /\ pc'[t] = "handle_mm_fault" => vma'.kind = "covers" /\ acc'[t].cause \in vma'.perms
        /\ pc[t] # "bad_area" /\ pc'[t] = "bad_area" =>
              IF code'[t] = "MAPERR" THEN vma.kind # "covers"
              ELSE \/ vma.kind = "covers" /\ acc[t].cause \notin vma.perms
                   \/ ~retry[t]]_vars

\* A fault under pagefault_disable or in the vmalloc area neither waits for
\* the mmap_sem or a page nor takes the way through the vma.
NoSleepInAtomic ==
    \A t \in Threads : acc[t].atomic \/ acc[t].addr = "vmalloc" =>
        pc[t] \notin {"retry", "find_vma", "good_area", "handle_mm_fault",
                     "wait_on_page", "VM_FAULT_RETRY", "up_read"}

\* Every access ends, if page I/O does: it succeeds, or the thread gets a
\* signal, a fixup or an oops, or it dies; or a stray release has left the
\* mmap_sem as a writer would.
FaultEnds == \A t \in Threads : pc[t] = "run" ~> (pc[t] \in Outcomes \/ strays > 0)

\* A fault that could not be handled is not endlessly redone, whatever page
\* I/O does (fault.c:96-100).
NotEndlesslyRedone == \A t \in Threads : <>[](pc[t] # "VM_FAULT_RETRY")

\* A fault in the vmalloc area leaves the mmap_sem alone (fault.c:35-38).
VmallocTakesNoLock ==
    [][\A t \in Threads : acc[t].addr = "vmalloc" /\ pc'[t] # pc[t] => UNCHANGED sem]_vars
=============================================================================
