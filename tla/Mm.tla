--------------------------------- MODULE Mm ---------------------------------
(***************************************************************************)
(* User page tables and the TLBs of several harts: what the kernel does to *)
(* an entry through the helpers of pgtable.h (module Pte), when it flushes *)
(* (tlbflush.h), how page-table pages are freed (pgalloc.h) and how harts  *)
(* change address spaces (mmu_context.h), against page-table walkers that  *)
(* fill TLBs and set the accessed and dirty bits at any moment.            *)
(*                                                                         *)
(* Each address space has one user page, mapped through one page-table     *)
(* page of each level.  The callers in mm/ are external and hold mmap_sem  *)
(* and the page-table lock as they do there; what they call here reads an  *)
(* entry in one step and writes it in another.                             *)
(***************************************************************************)
EXTENDS Pte, FiniteSets

CONSTANTS
    Cpus,      \* the harts
    Mms,       \* address spaces
    Shared,    \* those whose page is a MAP_SHARED one; the others are private
    NoMm,      \* no address space: a kernel thread
    Frames,    \* page frames, natural numbers from 1
    MaxOps     \* bound: changes of mappings

ASSUME MmAssumption ==
    /\ Shared \subseteq Mms /\ NoMm \notin Mms
    /\ Frames \subseteq Nat \ {0} /\ MaxOps \in Nat

VARIABLES
    task,      \* task[h]: mm of the current task of h
    active,    \* active[h]: its active_mm, whose pgd is in sptbr
    tlb,       \* tlb[h]: the cached translation of the user page, or NoEntry
    walk,      \* walk[h]: the page-table page h's walker is about to read, or
               \* "stray" after it read one that had been freed
    vma,       \* vma[m]: the protection of the mapping, or NoVma
    table,     \* table[m]: the page-table pages: "none", "linked", "gathered"
    pte,       \* pte[m]: the entry of the user page
    op,        \* op[h]: the kernel operation h is in
    fence,     \* fence[h]: the harts h's remote sfence has still to reach
    used,      \* the allocated frames
    dirtied,   \* frames with PG_dirty
    modified,  \* ghost: frames that differ from their backing store
    raced,     \* ghost: frames whose dirty bit was set between read and write
    leaked,    \* ghost: frames whose last entry was taken for a swap entry
    ops        \* changes of mappings so far

mmVars == <<task, active, tlb, walk, vma, table, pte, op, fence, used, dirtied,
            modified, raced, leaked, ops>>
hwVars == <<tlb, walk>>
frVars == <<used, dirtied, modified, raced, leaked>>

NoVma   == {"none"}
Prots   == {{}, {"r", "x"}, {"r", "w"}}
NoEntry == [pfn |-> 0, w |-> FALSE, d |-> FALSE]
Levels  == {"pmd", "pte"}
NoOp    == [kind |-> "none", at |-> "none", mm |-> NoMm, old |-> NoPte, w |-> FALSE]
Op(kind, at, m, old, w) == [kind |-> kind, at |-> at, mm |-> m, old |-> old, w |-> w]

MmInit ==
    /\ task = [h \in Cpus |-> NoMm]
    /\ active = [h \in Cpus |-> NoMm]           \* init_mm
    /\ tlb = [h \in Cpus |-> NoEntry]
    /\ walk = [h \in Cpus |-> "none"]
    /\ vma = [m \in Mms |-> {"r", "w"}]
    /\ table = [m \in Mms |-> [l \in Levels |-> "none"]]
    /\ pte = [m \in Mms |-> NoPte]
    /\ op = [h \in Cpus |-> NoOp]
    /\ fence = [h \in Cpus |-> {}]
    /\ used = {} /\ dirtied = {} /\ modified = {} /\ raced = {} /\ leaked = {}
    /\ ops = 0

-----------------------------------------------------------------------------
\* Hardware

UserMode(h) == task[h] # NoMm /\ op[h] = NoOp

\* The walker of a hart goes down the tables of sptbr, for an access or ahead
\* of one, with or without a user task.
WalkPmd(h) ==
    LET m == active[h] IN
    /\ walk[h] = "none" /\ tlb[h] = NoEntry /\ m # NoMm
    /\ table[m]["pmd"] = "linked"
    /\ walk' = [walk EXCEPT ![h] = "pmd"]
    /\ UNCHANGED <<task, active, tlb, vma, table, pte, op, fence, frVars, ops>>

\* A pmd page that has been freed may hold anything by now: then the walker goes
\* astray until it is flushed.  What it makes of what it finds is not modelled.
WalkTable(h) ==
    LET t == table[active[h]] IN
    /\ walk[h] = "pmd"
    /\ \/ walk' = [walk EXCEPT ![h] = IF t["pte"] = "linked" THEN "pte" ELSE "none"]
       \/ t["pmd"] # "linked" /\ walk' = [walk EXCEPT ![h] = "stray"]
    /\ UNCHANGED <<task, active, tlb, vma, table, pte, op, fence, frVars, ops>>

\* The leaf: an access sets the accessed bit, a store the dirty bit too.
WalkPte(h, store) ==
    LET m == active[h]
        p == pte[m]
    IN  /\ walk[h] = "pte" /\ (store => UserMode(h))
        /\ walk' = [walk EXCEPT ![h] = "none"]
        /\ \/ /\ pte_present(p) /\ (store => pte_write(p))
              /\ pte' = [pte EXCEPT ![m].low =
                    @ \cup {ACCESSED} \cup (IF store THEN {DIRTY} ELSE {})]
              /\ tlb' = [tlb EXCEPT ![h] =
                    [pfn |-> pte_pfn(p), w |-> pte_write(p), d |-> pte_dirty(pte'[m])]]
              /\ modified' = IF store THEN modified \cup {pte_pfn(p)} ELSE modified
           \/ /\ ~(pte_present(p) /\ (store => pte_write(p)))
              /\ UNCHANGED <<pte, tlb, modified>>
        /\ UNCHANGED <<task, active, vma, table, op, fence, used, dirtied, raced, leaked, ops>>

\* A store through a cached translation that is writable and dirty.
Store(h) ==
    /\ UserMode(h) /\ tlb[h].w /\ tlb[h].d
    /\ modified' = modified \cup {tlb[h].pfn}
    /\ UNCHANGED <<task, active, hwVars, vma, table, pte, op, fence, used, dirtied, raced, leaked, ops>>

Evict(h) ==
    /\ tlb[h] # NoEntry
    /\ tlb' = [tlb EXCEPT ![h] = NoEntry]
    /\ UNCHANGED <<task, active, walk, vma, table, pte, op, fence, frVars, ops>>

\* sfence.vm: no cached translation, and no walk that began before it.
Flushed(h) ==
    /\ tlb' = [tlb EXCEPT ![h] = NoEntry]
    /\ walk' = [walk EXCEPT ![h] = "none"]

-----------------------------------------------------------------------------
\* mmu_context.h

\* prev is the active_mm, which a kernel thread borrows.
NeedsSwitch(h, m) == active[h] # m

\* switch_mm, or enter_lazy_tlb for a kernel thread.
SwitchMm(h, m) ==
    /\ op[h] = NoOp /\ task[h] # m
    /\ task' = [task EXCEPT ![h] = m]
    /\ IF m # NoMm /\ NeedsSwitch(h, m)
       THEN active' = [active EXCEPT ![h] = m] /\ Flushed(h)
       ELSE UNCHANGED <<active, hwVars>>
    /\ UNCHANGED <<vma, table, pte, op, fence, frVars, ops>>

-----------------------------------------------------------------------------
\* Locks of the callers.

Ops(m) == {h \in Cpus : op[h].mm = m}
SemWritten(m) == \E h \in Ops(m) : op[h].kind \in {"mprotect", "munmap"}
SemTaken(m)   == \E h \in Ops(m) : op[h].kind \in {"mprotect", "munmap", "fault"}
PtlTaken(m)   == \E h \in Ops(m) : op[h].at = "write" \/ op[h].kind \in {"fault", "reclaim", "clean", "age"}

Start(h, kind, m, w) ==
    /\ op[h] = NoOp /\ ~PtlTaken(m) /\ ops < MaxOps
    /\ op' = [op EXCEPT ![h] = Op(kind, "write", m, pte[m], w)]
    /\ ops' = ops + 1

\* Mutant: only the calling hart is flushed.
FlushSelf(h) == {h}

\* flush_tlb_all, flush_tlb_range, flush_tlb_page: a hart mask of 0 means all.
FlushAll(h) == Cpus

\* The operation of h writes p; all harts are to be flushed.
Write(h, p) ==
    /\ pte' = [pte EXCEPT ![op[h].mm] = p]
    /\ op' = [op EXCEPT ![h].at = "flush"]
    /\ fence' = [fence EXCEPT ![h] = FlushAll(h)]

\* The hardware may have set the dirty bit since the entry was read.
Races(h) == pte_dirty(pte[op[h].mm]) /\ ~pte_dirty(op[h].old)
Raced(h) == IF Races(h) THEN raced \cup {pte_pfn(op[h].old)} ELSE raced

\* Hart g executes the remote sfence of h.
RemoteSfence(h, g) ==
    /\ g \in fence[h]
    /\ fence' = [fence EXCEPT ![h] = @ \ {g}]
    /\ Flushed(g)
    /\ UNCHANGED <<task, active, vma, table, pte, op, frVars, ops>>

Finish(h, kind) ==
    /\ op[h].kind = kind /\ op[h].at = "flush" /\ fence[h] = {}
    /\ op' = [op EXCEPT ![h] = NoOp]

-----------------------------------------------------------------------------
\* Page faults of the current task of h.

Slot == 1   \* the swap slot of a private page
IsSwap(p) == p # NoPte /\ ~pte_present(p) /\ swp_type(p) = {} /\ swp_offset(p) = Slot

PageProt(m) == Protection(m \in Shared, vma[m])

\* maybe_mkwrite(pte_mkdirty(entry))
Writable(m, p) == IF "w" \in vma[m] THEN pte_mkwrite(pte_mkdirty(p)) ELSE pte_mkdirty(p)

MayFault(h, m, w) ==
    /\ task[h] = m /\ m \in Mms /\ op[h] = NoOp /\ ~SemWritten(m) /\ ~PtlTaken(m)
    /\ (IF w THEN "w" ELSE "r") \in vma[m]

\* A new page, or one read back from swap: page tables are populated, the entry
\* is built with mk_pte.  No flush: update_mmu_cache does nothing.  The allocator
\* gives the lowest free frame, so that frames are reused soon.
FaultMap(h, m, w) ==
    /\ MayFault(h, m, w) /\ ops < MaxOps
    /\ pte_none(pte[m]) \/ IsSwap(pte[m])
    /\ \E f \in Frames \ used :
          LET new == pfn_pte(f, PageProt(m)) IN
          /\ \A g \in Frames \ used : f <= g
          /\ pte' = [pte EXCEPT ![m] = IF w THEN Writable(m, new) ELSE new]
          /\ used' = used \cup {f}
    /\ table' = [table EXCEPT ![m] = [l \in Levels |-> "linked"]]
    /\ ops' = ops + 1
    /\ UNCHANGED <<task, active, hwVars, vma, op, fence, dirtied, modified, raced, leaked>>

\* A page that is there: ptep_set_access_flags.
FaultStart(h, m, w) ==
    /\ MayFault(h, m, w) /\ pte_present(pte[m])
    /\ Start(h, "fault", m, w)
    /\ UNCHANGED <<task, active, hwVars, vma, table, pte, fence, frVars>>

FaultWrite(h) ==
    LET m     == op[h].mm
        young == pte_mkyoung(op[h].old)
    IN  /\ op[h].kind = "fault" /\ op[h].at = "write"
        /\ raced' = IF op[h].w THEN raced ELSE Raced(h)
        /\ Write(h, IF op[h].w THEN Writable(m, young) ELSE young)
        /\ UNCHANGED <<task, active, hwVars, vma, table, used, dirtied, modified, leaked, ops>>

FaultFinish(h) ==
    /\ Finish(h, "fault")
    /\ UNCHANGED <<task, active, hwVars, vma, table, pte, fence, frVars, ops>>

-----------------------------------------------------------------------------
\* mprotect: only present entries change, and only they need a flush.

Mprotect(h, m, xwr) ==
    /\ task[h] = m /\ m \in Mms /\ vma[m] \notin {NoVma, xwr} /\ ~SemTaken(m)
    /\ vma' = [vma EXCEPT ![m] = xwr]
    /\ \/ /\ pte_present(pte[m])
          /\ Start(h, "mprotect", m, FALSE)
       \/ /\ ~pte_present(pte[m]) /\ op[h] = NoOp /\ ~PtlTaken(m) /\ ops < MaxOps
          /\ ops' = ops + 1
          /\ UNCHANGED op
    /\ UNCHANGED <<task, active, hwVars, table, pte, fence, frVars>>

\* With PAGE_NONE the entry keeps its frame but is no longer present.
MprotectWrite(h) ==
    /\ op[h].kind = "mprotect" /\ op[h].at = "write"
    /\ raced' = Raced(h)
    /\ Write(h, pte_modify(op[h].old, PageProt(op[h].mm)))
    /\ UNCHANGED <<task, active, hwVars, vma, table, used, dirtied, modified, leaked, ops>>

MprotectFinish(h) ==
    /\ Finish(h, "mprotect")
    /\ UNCHANGED <<task, active, hwVars, vma, table, pte, fence, frVars, ops>>

-----------------------------------------------------------------------------
\* munmap: clear the entry, unlink the page tables, flush, free.

Munmap(h, m) ==
    /\ task[h] = m /\ m \in Mms /\ vma[m] # NoVma /\ ~SemTaken(m)
    /\ vma' = [vma EXCEPT ![m] = NoVma]
    /\ Start(h, "munmap", m, FALSE)
    /\ UNCHANGED <<task, active, hwVars, table, pte, fence, frVars>>

\* __pte_free_tlb gathers the page; __pmd_free_tlb frees it on the spot.
NotYet(l) == IF l = "pte" THEN "gathered" ELSE "none"

\* zap: a present entry leaves its dirty bit to the page; another that is not
\* none is a swap entry, whatever it was.
MunmapWrite(h) ==
    LET m   == op[h].mm
        old == op[h].old
    IN  /\ op[h].kind = "munmap" /\ op[h].at = "write"
        /\ Write(h, NoPte)
        /\ raced' = Raced(h)
        /\ dirtied' = IF pte_present(old) /\ pte_dirty(old)
                      THEN dirtied \cup {pte_pfn(old)} ELSE dirtied
        /\ leaked' = IF pte_present(old) \/ pte_none(old) \/ IsSwap(old)
                     THEN leaked ELSE leaked \cup {pte_pfn(old)}
        /\ table' = [table EXCEPT ![m] =
              [l \in Levels |-> IF @[l] = "linked" THEN NotYet(l) ELSE @[l]]]
        /\ UNCHANGED <<task, active, hwVars, vma, used, modified, ops>>

\* A frame given back: dirty pages have been written to their backing store.
Free(fs) ==
    /\ used' = used \ fs
    /\ dirtied' = dirtied \ fs
    /\ modified' = modified \ (fs \cap (dirtied \cup raced))
    /\ raced' = raced \ fs

Mapped(p) == IF pte_present(p) THEN {pte_pfn(p)} ELSE {}

\* tlb_finish_mmu
MunmapFinish(h) ==
    /\ Finish(h, "munmap")
    /\ Free(Mapped(op[h].old))
    /\ table' = [table EXCEPT ![op[h].mm] = [l \in Levels |-> "none"]]
    /\ UNCHANGED <<task, active, hwVars, vma, pte, fence, leaked, ops>>

\* The address space maps the page anew.
Mmap(h, m, xwr) ==
    /\ task[h] = m /\ m \in Mms /\ op[h] = NoOp /\ vma[m] = NoVma /\ ~SemTaken(m) /\ ops < MaxOps
    /\ vma' = [vma EXCEPT ![m] = xwr]
    /\ ops' = ops + 1
    /\ UNCHANGED <<task, active, hwVars, table, pte, op, fence, frVars>>

-----------------------------------------------------------------------------
\* Reclaim on any hart: ptep_clear_flush, then the swap entry of a private page.

Reclaim(h, m) ==
    /\ pte_present(pte[m])
    /\ Start(h, "reclaim", m, FALSE)
    /\ UNCHANGED <<task, active, hwVars, vma, table, pte, fence, frVars>>

ReclaimWrite(h) ==
    LET old == op[h].old IN
    /\ op[h].kind = "reclaim" /\ op[h].at = "write"
    /\ Write(h, NoPte)
    /\ raced' = Raced(h)
    /\ dirtied' = IF pte_dirty(old) THEN dirtied \cup {pte_pfn(old)} ELSE dirtied
    /\ UNCHANGED <<task, active, hwVars, vma, table, used, modified, leaked, ops>>

ReclaimFinish(h) ==
    LET m == op[h].mm IN
    /\ Finish(h, "reclaim")
    /\ Free({pte_pfn(op[h].old)})
    /\ pte' = IF m \in Shared THEN pte ELSE [pte EXCEPT ![m] = swp_entry({}, Slot)]
    /\ UNCHANGED <<task, active, hwVars, vma, table, fence, leaked, ops>>

-----------------------------------------------------------------------------
\* Write-back of a shared page, page_mkclean: ptep_clear_flush, then the entry
\* clean and write-protected, and the page on its way to the backing store.

Clean(h, m) ==
    /\ m \in Shared /\ pte_present(pte[m]) /\ (pte_dirty(pte[m]) \/ pte_write(pte[m]))
    /\ Start(h, "clean", m, FALSE)
    /\ UNCHANGED <<task, active, hwVars, vma, table, pte, fence, frVars>>

CleanWrite(h) ==
    /\ op[h].kind = "clean" /\ op[h].at = "write"
    /\ Write(h, NoPte)
    /\ raced' = Raced(h)
    /\ UNCHANGED <<task, active, hwVars, vma, table, used, dirtied, modified, leaked, ops>>

CleanEntry(old) == pte_mkclean(pte_wrprotect(old))

CleanFinish(h) ==
    LET m == op[h].mm
        f == {pte_pfn(op[h].old)}
    IN  /\ Finish(h, "clean")
        /\ pte' = [pte EXCEPT ![m] = CleanEntry(op[h].old)]
        /\ modified' = modified \ f /\ dirtied' = dirtied \ f /\ raced' = raced \ f
        /\ UNCHANGED <<task, active, hwVars, vma, table, fence, used, leaked, ops>>

\* The aging of a page, ptep_clear_flush_young: pte_mkold of a young entry.
Age(h, m) ==
    /\ pte_present(pte[m]) /\ pte_young(pte[m])
    /\ Start(h, "age", m, FALSE)
    /\ UNCHANGED <<task, active, hwVars, vma, table, pte, fence, frVars>>

AgeWrite(h) ==
    /\ op[h].kind = "age" /\ op[h].at = "write"
    /\ Write(h, pte_mkold(op[h].old))
    /\ raced' = Raced(h)
    /\ UNCHANGED <<task, active, hwVars, vma, table, used, dirtied, modified, leaked, ops>>

AgeFinish(h) ==
    /\ Finish(h, "age")
    /\ UNCHANGED <<task, active, hwVars, vma, table, pte, fence, frVars, ops>>

-----------------------------------------------------------------------------
Hardware(h) ==
    \/ WalkPmd(h)
    \/ WalkTable(h)
    \/ \E store \in BOOLEAN : WalkPte(h, store)
    \/ Store(h)
    \/ Evict(h)

Kernel(h) ==
    \/ \E m \in Mms \cup {NoMm} : SwitchMm(h, m)
    \/ \E g \in Cpus : RemoteSfence(h, g)
    \/ \E m \in Mms, w \in BOOLEAN : FaultMap(h, m, w) \/ FaultStart(h, m, w)
    \/ FaultWrite(h)
    \/ FaultFinish(h)
    \/ \E m \in Mms, xwr \in Prots : Mprotect(h, m, xwr) \/ Mmap(h, m, xwr)
    \/ MprotectWrite(h)
    \/ MprotectFinish(h)
    \/ \E m \in Mms : Munmap(h, m) \/ Reclaim(h, m) \/ Clean(h, m) \/ Age(h, m)
    \/ MunmapWrite(h)
    \/ MunmapFinish(h)
    \/ ReclaimWrite(h)
    \/ ReclaimFinish(h)
    \/ CleanWrite(h)
    \/ CleanFinish(h)
    \/ AgeWrite(h)
    \/ AgeFinish(h)

-----------------------------------------------------------------------------
MmTypeOK ==
    /\ task \in [Cpus -> Mms \cup {NoMm}] /\ active \in [Cpus -> Mms \cup {NoMm}]
    /\ tlb \in [Cpus -> [pfn : Frames \cup {0}, w : BOOLEAN, d : BOOLEAN]]
    /\ walk \in [Cpus -> Levels \cup {"none", "stray"}]
    /\ vma \in [Mms -> Prots \cup {NoVma}]
    /\ table \in [Mms -> [Levels -> {"none", "linked", "gathered"}]]
    /\ \A m \in Mms : pte[m].low \subseteq 0..6 /\ pte[m].high \in Nat
    /\ op \in [Cpus -> [kind : {"none", "fault", "mprotect", "munmap", "reclaim", "clean", "age"},
                        at : {"none", "write", "flush"}, mm : Mms \cup {NoMm},
                        old : {op[h].old : h \in Cpus}, w : BOOLEAN]]
    /\ fence \in [Cpus -> SUBSET Cpus]
    /\ used \subseteq Frames /\ dirtied \subseteq Frames /\ modified \subseteq Frames
    /\ raced \subseteq Frames /\ leaked \subseteq Frames /\ ops \in 0..MaxOps

\* Some operation on m has still to flush h.
FlushComes(h, m) == \E g \in Ops(m) : op[g].at = "flush" /\ h \in fence[g]

\* No hart goes on using what was taken away: a cached translation is what the
\* tables of the active address space say, with no more rights, or a flush of
\* it is on its way; so a frame is never reused under a translation.  A walker
\* reads no last-level table that has been freed; from a middle-level one, which
\* is freed before the flush, it goes astray only as long as its flush is still
\* on its way.  A task runs on its own tables, whatever kernel threads borrowed
\* them before.
NoStaleTranslation ==
    \A h \in Cpus :
        LET m == active[h]
            e == tlb[h]
        IN  /\ task[h] \in {m, NoMm}
            /\ e # NoEntry =>
                 \/ pte_present(pte[m]) /\ pte_pfn(pte[m]) = e.pfn /\ (e.w => pte_write(pte[m]))
                 \/ FlushComes(h, m)
            /\ e # NoEntry => e.pfn \in used
            /\ walk[h] = "pte" => table[m]["pte"] # "none"
            /\ walk[h] = "stray" => FlushComes(h, m)

\* The frame of an entry that mprotect made PAGE_NONE.
Residue(p) == IF pte_present(p) \/ pte_none(p) \/ IsSwap(p) THEN {} ELSE {pte_pfn(p)}
Held(h) == IF op[h].kind \in {"munmap", "reclaim", "clean"} THEN Mapped(op[h].old) ELSE {}

\* No frame is lost or used twice: each allocated one is mapped, or on its way
\* out of a mapping, or kept by a PAGE_NONE entry.  Unmapping such an entry
\* takes it for a swap entry and loses the frame for good.
FramesAccounted ==
    /\ used = (UNION {Mapped(pte[m]) \cup Residue(pte[m]) : m \in Mms})
              \cup (UNION {Held(h) : h \in Cpus}) \cup leaked
    /\ \A m, n \in Mms : m # n => Mapped(pte[m]) \cap Mapped(pte[n]) = {}

\* A frame that differs from its backing store is known to be dirty: by an
\* entry, by an operation that has read it, or by its page.  Excepted are a
\* dirty bit the hardware set between the read and the write of the entry, which
\* the helpers do not do atomically, and the lost frames.
DirtyKept ==
    \A f \in modified :
        \/ f \in dirtied \cup raced \cup leaked
        \/ \E m \in Mms : pte_pfn(pte[m]) = f /\ pte_dirty(pte[m])
        \/ \E h \in Cpus : op[h] # NoOp /\ pte_pfn(op[h].old) = f /\ pte_dirty(op[h].old)
=============================================================================
