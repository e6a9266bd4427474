---------------------------- MODULE System_proofs ----------------------------
(***************************************************************************)
(* Proofs about System for every number of harts, of address spaces and of *)
(* frames: what boot hands over, that the console lock excludes, that no   *)
(* translation is stale, and that no frame and no dirty page is lost       *)
(* beyond what the code loses.                                             *)
(***************************************************************************)
EXTENDS System, FiniteSetTheorems, TLAPS

-----------------------------------------------------------------------------
\* The inductive invariant of boot.

SecondaryPlaces ==
    {"_start", "park", "wait_for_cpu_up", "smp_callin", "callin_ready",
     "local_irq_enable", "idle"}

\* Only hart 0 boots; the others are in head.S or smp_callin.
PlaceInv ==
    /\ pc[0] \notin SecondaryPlaces \ {"_start"}
    /\ \A h \in Harts \ {0} : pc[h] \in SecondaryPlaces

\* A hart leaves head.S only after hart 0, past start_kernel, has set its stack,
\* which it does for harts with a slot; and it is set up after smp_callin has
\* got that far.
StartInv ==
    /\ possible \subseteq PossibleCpus
    /\ \A h \in Harts :
          /\ stackp[h] => pc[0] # "_start" /\ h < NrCpus
          /\ pc[h] \in {"smp_callin", "callin_ready", "local_irq_enable", "idle"} => stackp[h]
          /\ pc[h] \in {"callin_ready", "local_irq_enable", "idle"} => ready[h] = Facilities

\* The interrupt is requested for a driver that is registered, and only then
\* does sbi_console_isr run: as the handler, or as the poll of hart 0.
DriverInv ==
    /\ pc[0] = "request_irq" => driver = "registered"
    /\ pc[0] = "poll" => shared
    /\ shared => driver = "registered" /\ pc[0] \in {"poll", "done"}
    /\ \A c \in Contexts : isr[c] # "idle" =>
          shared /\ (c[2] = "task" => c = <<0, "task">> /\ pc[0] = "poll")

\* The lock is taken exactly while a context is between its amoswap and its
\* store of 0, and there is only one such context.
LockInv ==
    /\ \A c, d \in Contexts : isr[c] = "insert" /\ isr[d] = "insert" => c = d
    /\ lock = 1 <=> \E c \in Contexts : isr[c] = "insert"

BootInv == BootTypeOK /\ PlaceInv /\ StartInv /\ OnlineIsReady /\ DriverInv /\ LockInv

-----------------------------------------------------------------------------
\* The inductive invariant of the address spaces.

Kinds   == {"none", "fault", "mprotect", "munmap", "reclaim", "clean", "age"}
Ptes    == [low : SUBSET (0..6), high : Nat]
Entries == [pfn : Frames \cup {0}, w : BOOLEAN, d : BOOLEAN]
Records == [kind : Kinds, at : {"none", "write", "flush"}, mm : Mms \cup {NoMm},
            old : Ptes, w : BOOLEAN]
MmTypes ==
    /\ task \in [Cpus -> Mms \cup {NoMm}] /\ active \in [Cpus -> Mms \cup {NoMm}]
    /\ tlb \in [Cpus -> Entries]
    /\ walk \in [Cpus -> Levels \cup {"none", "stray"}]
    /\ vma \in [Mms -> Prots \cup {NoVma}]
    /\ table \in [Mms -> [Levels -> {"none", "linked", "gathered"}]]
    /\ pte \in [Mms -> Ptes]
    /\ op \in [Cpus -> Records]
    /\ fence \in [Cpus -> SUBSET Cpus]
    /\ used \subseteq Frames /\ dirtied \subseteq Frames /\ modified \subseteq Frames
    /\ raced \subseteq Frames /\ leaked \subseteq Frames /\ ops \in 0..MaxOps

SwapPte == swp_entry({}, Slot)

\* An entry is empty, the one swap entry, or the entry of a page.
IsPage(p) == \E f \in Frames : p.high = 8 * f
Shaped(p) == p = NoPte \/ p = SwapPte \/ IsPage(p)

\* The frame behind an entry, present or made PAGE_NONE.
Behind(p) == Mapped(p) \cup Residue(p)

Busy(h)  == op[h] # NoOp
\* An operation that has taken the page out of its entry.
Taking(h) == op[h].kind \in {"munmap", "reclaim", "clean"} /\ op[h].at = "flush"

\* While an operation is between its read and its write the hardware alone
\* changes the entry, and while one that took the page flushes nothing does.
OpInv ==
    \A h \in Cpus : LET o == op[h] IN
        Busy(h) =>
          /\ o.mm \in Mms /\ o.kind # "none" /\ o.at # "none"
          /\ Shaped(o.old)
          /\ o.kind # "munmap" => pte_present(o.old)
          /\ o.at = "write" => pte[o.mm].high = o.old.high
                               /\ (pte_present(pte[o.mm]) <=> pte_present(o.old))
          /\ Taking(h) => pte[o.mm] = NoPte
          /\ Taking(h) /\ o.kind = "munmap" =>
                table[o.mm]["pte"] # "linked" /\ table[o.mm]["pmd"] # "linked"

\* Two operations on one page: what the locks of mm/ leave is mprotect in its
\* flush and one of reclaim, write-back or aging.
Overlap(h, g) ==
    op[h].kind = "mprotect" /\ op[h].at = "flush" /\ op[g].kind \in {"reclaim", "clean", "age"}
Exclusive ==
    \A h, g \in Cpus :
        h # g /\ Busy(h) /\ Busy(g) /\ op[h].mm = op[g].mm => Overlap(h, g) \/ Overlap(g, h)

\* The frames an address space answers for: behind its entry, or held by an
\* operation that takes the page out.
Owns(m, f) == f \in Behind(pte[m]) \/ \E h \in Ops(m) : f \in Held(h)

OwnInv ==
    /\ \A m, n \in Mms : \A f \in Frames : Owns(m, f) /\ Owns(n, f) => m = n
    /\ \A m \in Mms : \A f \in Frames : Owns(m, f) => f \notin leaked
    /\ \A f \in Frames : f \in used <=> (f \in leaked \/ \E m \in Mms : Owns(m, f))

\* A cached translation agrees with the entry or is about to be flushed, and its
\* frame is still the address space's.
Agrees(h) ==
    LET p == pte[active[h]]
        e == tlb[h]
    IN  pte_present(p) /\ pte_pfn(p) = e.pfn /\ (e.w => pte_write(p))

\* No operation that took a page ends before each hart that still has the
\* translation has been flushed; nor munmap, before a walker is out of the table.
Cached(h) ==
    tlb[h] # NoEntry =>
        /\ Agrees(h) \/ FlushComes(h, active[h])
        /\ Owns(active[h], tlb[h].pfn)
        /\ \A g \in Ops(active[h]) : Taking(g) => h \in fence[g]
\* A munmap of the address space of h has let go of the tables and is yet to
\* flush h.
Unmaps(g, h)  == g \in Ops(active[h]) /\ Taking(g) /\ op[g].kind = "munmap"
Unmapping(h) == \E g \in Cpus : Unmaps(g, h) /\ h \in fence[g]
Walking(h) ==
    /\ walk[h] # "none" =>
          \A g \in Cpus : Unmaps(g, h) => h \in fence[g]
    /\ walk[h] = "pte" => table[active[h]]["pte"] # "none"
    /\ walk[h] = "pmd" => table[active[h]]["pmd"] = "linked" \/ Unmapping(h)
    /\ walk[h] = "stray" => Unmapping(h)

TlbInv ==
    \A h \in Cpus :
        /\ task[h] \in {active[h], NoMm}
        /\ active[h] = NoMm => tlb[h] = NoEntry /\ walk[h] = "none"
        /\ Cached(h) /\ Walking(h)

\* Somebody knows that frame f is dirty.
Known(f) ==
    \/ f \in dirtied \cup raced \cup leaked
    \/ \E m \in Mms : f \in Behind(pte[m]) /\ pte_dirty(pte[m])
    \/ \E h \in Cpus : op[h].kind = "clean" /\ Taking(h) /\ f \in Held(h) /\ pte_dirty(op[h].old)

\* A modified frame, and one a hart can modify without the walker, is known to
\* be dirty.
KnownInv ==
    /\ \A f \in modified : Known(f)
    /\ \A h \in Cpus : tlb[h] # NoEntry /\ tlb[h].d => Known(tlb[h].pfn)

MmInv ==
    /\ MmTypes /\ (\A m \in Mms : Shaped(pte[m]))
    /\ OpInv /\ Exclusive /\ OwnInv /\ TlbInv /\ KnownInv

USE BootAssumption, MmAssumption, SystemAssumption
USE DEF Harts, Contexts

-----------------------------------------------------------------------------
\* Boot keeps its invariant.

LEMMA BootInitInv == BootInit => BootInv
  <1> SUFFICES ASSUME BootInit PROVE BootInv OBVIOUS
  <1> USE DEF BootInit
  <1>1. BootTypeOK
    <2>1. /\ pc \in [Harts -> {"_start"}] /\ isr \in [Contexts -> {"idle"}]
          /\ ready \in [Harts -> {{}}] /\ stackp \in [Harts -> BOOLEAN]
      OBVIOUS
    <2>2. cpu \in Harts /\ irqs \in 0..MaxIrqs OBVIOUS
    <2> QED BY <2>1, <2>2 DEF BootTypeOK
  <1>2. PlaceInv BY DEF PlaceInv, SecondaryPlaces
  <1>3. StartInv BY DEF StartInv
  <1>4. OnlineIsReady BY DEF OnlineIsReady
  <1>5. DriverInv BY DEF DriverInv
  <1>6. LockInv BY DEF LockInv
  <1> QED BY <1>1, <1>2, <1>3, <1>4, <1>5, <1>6 DEF BootInv

LEMMA BootHartKeeps == ASSUME BootInv, BootHart PROVE BootInv'
  <1> USE DEF BootInv, BootHart, Step, consVars
  <1>1. BootTypeOK' BY DEF BootTypeOK, Facilities
  <1>2. PlaceInv' BY DEF BootTypeOK, PlaceInv, SecondaryPlaces
  <1>3. StartInv' BY DEF BootTypeOK, PlaceInv, StartInv, SecondaryPlaces
  <1>4. OnlineIsReady' BY DEF BootTypeOK, StartInv, OnlineIsReady, PlaceInv, SecondaryPlaces
  <1>5. DriverInv' BY DEF BootTypeOK, DriverInv, PlaceInv, SecondaryPlaces
  <1>6. LockInv' BY DEF BootTypeOK, LockInv
  <1> QED BY <1>1, <1>2, <1>3, <1>4, <1>5, <1>6

LEMMA SecondaryStartKeeps == ASSUME BootInv, NEW h \in Harts, SecondaryStart(h) PROVE BootInv'
  <1> USE DEF BootInv, SecondaryStart, Step, Parks, smpVars, consVars
  <1>1. BootTypeOK' BY DEF BootTypeOK, Facilities
  <1>2. PlaceInv' BY DEF BootTypeOK, PlaceInv, SecondaryPlaces
  <1>3. StartInv' BY DEF BootTypeOK, PlaceInv, StartInv, SecondaryPlaces
  <1>4. OnlineIsReady' BY DEF BootTypeOK, StartInv, OnlineIsReady, PlaceInv, SecondaryPlaces
  <1>5. DriverInv' BY DEF BootTypeOK, DriverInv, PlaceInv, SecondaryPlaces
  <1>6. LockInv' BY DEF BootTypeOK, LockInv
  <1> QED BY <1>1, <1>2, <1>3, <1>4, <1>5, <1>6

LEMMA WaitForCpuUpKeeps == ASSUME BootInv, NEW h \in Harts, WaitForCpuUp(h) PROVE BootInv'
  <1> USE DEF BootInv, WaitForCpuUp, Step, smpVars, consVars
  <1>1. BootTypeOK' BY DEF BootTypeOK, Facilities
  <1>2. PlaceInv' BY DEF BootTypeOK, PlaceInv, SecondaryPlaces
  <1>3. StartInv' BY DEF BootTypeOK, PlaceInv, StartInv, SecondaryPlaces
  <1>4. OnlineIsReady' BY DEF BootTypeOK, StartInv, OnlineIsReady, PlaceInv, SecondaryPlaces
  <1>5. DriverInv' BY DEF BootTypeOK, DriverInv, PlaceInv, SecondaryPlaces
  <1>6. LockInv' BY DEF BootTypeOK, LockInv
  <1> QED BY <1>1, <1>2, <1>3, <1>4, <1>5, <1>6

LEMMA SetupSmpKeeps == ASSUME BootInv, SetupSmp PROVE BootInv'
  <1> USE DEF BootInv, SetupSmp, Step, PossibleCpus, consVars
  <1>1. BootTypeOK' BY DEF BootTypeOK, Facilities
  <1>2. PlaceInv' BY DEF BootTypeOK, PlaceInv, SecondaryPlaces
  <1>3. StartInv' BY DEF BootTypeOK, PlaceInv, StartInv, SecondaryPlaces
  <1>4. OnlineIsReady' BY DEF BootTypeOK, StartInv, OnlineIsReady, PlaceInv, SecondaryPlaces
  <1>5. DriverInv' BY DEF BootTypeOK, DriverInv, PlaceInv, SecondaryPlaces
  <1>6. LockInv' BY DEF BootTypeOK, LockInv
  <1> QED BY <1>1, <1>2, <1>3, <1>4, <1>5, <1>6

LEMMA CpuUpKeeps == ASSUME BootInv, NEW h \in Harts, CpuUp(h) PROVE BootInv'
  <1> USE DEF BootInv, CpuUp, Step, consVars, PossibleCpus
  <1>1. BootTypeOK' BY DEF BootTypeOK, Facilities
  <1>2. PlaceInv' BY DEF BootTypeOK, PlaceInv, SecondaryPlaces
  <1>3. StartInv' BY DEF BootTypeOK, PlaceInv, StartInv, SecondaryPlaces
  <1>4. OnlineIsReady' BY DEF BootTypeOK, StartInv, OnlineIsReady, PlaceInv, SecondaryPlaces
  <1>5. DriverInv' BY DEF BootTypeOK, DriverInv, PlaceInv, SecondaryPlaces
  <1>6. LockInv' BY DEF BootTypeOK, LockInv
  <1> QED BY <1>1, <1>2, <1>3, <1>4, <1>5, <1>6

LEMMA CpuIsUpKeeps == ASSUME BootInv, CpuIsUp PROVE BootInv'
  <1> USE DEF BootInv, CpuIsUp, Step, smpVars, consVars
  <1>1. BootTypeOK' BY DEF BootTypeOK, Facilities
  <1>2. PlaceInv' BY DEF BootTypeOK, PlaceInv, SecondaryPlaces
  <1>3. StartInv' BY DEF BootTypeOK, PlaceInv, StartInv, SecondaryPlaces
  <1>4. OnlineIsReady' BY DEF BootTypeOK, StartInv, OnlineIsReady, PlaceInv, SecondaryPlaces
  <1>5. DriverInv' BY DEF BootTypeOK, DriverInv, PlaceInv, SecondaryPlaces
  <1>6. LockInv' BY DEF BootTypeOK, LockInv
  <1> QED BY <1>1, <1>2, <1>3, <1>4, <1>5, <1>6

LEMMA CallinKeeps == ASSUME BootInv, NEW h \in Harts, Callin(h) PROVE BootInv'
  <1> USE DEF BootInv, Callin, Step, consVars
  <1>1. BootTypeOK' BY DEF BootTypeOK, Facilities
  <1>2. PlaceInv' BY DEF BootTypeOK, PlaceInv, SecondaryPlaces
  <1>3. StartInv' BY DEF BootTypeOK, PlaceInv, StartInv, SecondaryPlaces
  <1>4. OnlineIsReady' BY DEF BootTypeOK, StartInv, OnlineIsReady, PlaceInv, SecondaryPlaces
  <1>5. DriverInv' BY DEF BootTypeOK, DriverInv, PlaceInv, SecondaryPlaces
  <1>6. LockInv' BY DEF BootTypeOK, LockInv
  <1> QED BY <1>1, <1>2, <1>3, <1>4, <1>5, <1>6

LEMMA SetOnlineKeeps == ASSUME BootInv, NEW h \in Harts, SetOnline(h) PROVE BootInv'
  <1> USE DEF BootInv, SetOnline, Step, consVars
  <1>1. BootTypeOK' BY DEF BootTypeOK, Facilities
  <1>2. PlaceInv' BY DEF BootTypeOK, PlaceInv, SecondaryPlaces
  <1>3. StartInv' BY DEF BootTypeOK, PlaceInv, StartInv, SecondaryPlaces
  <1>4. OnlineIsReady' BY DEF BootTypeOK, StartInv, OnlineIsReady, PlaceInv, SecondaryPlaces
  <1>5. DriverInv' BY DEF BootTypeOK, DriverInv, PlaceInv, SecondaryPlaces
  <1>6. LockInv' BY DEF BootTypeOK, LockInv
  <1> QED BY <1>1, <1>2, <1>3, <1>4, <1>5, <1>6

LEMMA LocalIrqEnableKeeps == ASSUME BootInv, NEW h \in Harts, LocalIrqEnable(h) PROVE BootInv'
  <1> USE DEF BootInv, LocalIrqEnable, Step, smpVars, consVars
  <1>1. BootTypeOK' BY DEF BootTypeOK, Facilities
  <1>2. PlaceInv' BY DEF BootTypeOK, PlaceInv, SecondaryPlaces
  <1>3. StartInv' BY DEF BootTypeOK, PlaceInv, StartInv, SecondaryPlaces
  <1>4. OnlineIsReady' BY DEF BootTypeOK, StartInv, OnlineIsReady, PlaceInv, SecondaryPlaces
  <1>5. DriverInv' BY DEF BootTypeOK, DriverInv, PlaceInv, SecondaryPlaces
  <1>6. LockInv' BY DEF BootTypeOK, LockInv
  <1> QED BY <1>1, <1>2, <1>3, <1>4, <1>5, <1>6

LEMMA AllocDriverKeeps == ASSUME BootInv, AllocDriver PROVE BootInv'
  <1> USE DEF BootInv, AllocDriver, Step, smpVars
  <1>1. BootTypeOK' BY DEF BootTypeOK, Facilities
  <1>2. PlaceInv' BY DEF BootTypeOK, PlaceInv, SecondaryPlaces
  <1>3. StartInv' BY DEF BootTypeOK, PlaceInv, StartInv, SecondaryPlaces
  <1>4. OnlineIsReady' BY DEF BootTypeOK, StartInv, OnlineIsReady, PlaceInv, SecondaryPlaces
  <1>5. DriverInv' BY DEF BootTypeOK, DriverInv, PlaceInv, SecondaryPlaces
  <1>6. LockInv' BY DEF BootTypeOK, LockInv
  <1> QED BY <1>1, <1>2, <1>3, <1>4, <1>5, <1>6

LEMMA RegisterDriverKeeps == ASSUME BootInv, RegisterDriver PROVE BootInv'
  <1> USE DEF BootInv, RegisterDriver, Step, smpVars
  <1>1. BootTypeOK' BY DEF BootTypeOK, Facilities
  <1>2. PlaceInv' BY DEF BootTypeOK, PlaceInv, SecondaryPlaces
  <1>3. StartInv' BY DEF BootTypeOK, PlaceInv, StartInv, SecondaryPlaces
  <1>4. OnlineIsReady' BY DEF BootTypeOK, StartInv, OnlineIsReady, PlaceInv, SecondaryPlaces
  <1>5. DriverInv' BY DEF BootTypeOK, DriverInv, PlaceInv, SecondaryPlaces
  <1>6. LockInv' BY DEF BootTypeOK, LockInv
  <1> QED BY <1>1, <1>2, <1>3, <1>4, <1>5, <1>6

LEMMA RequestIrqKeeps == ASSUME BootInv, RequestIrq PROVE BootInv'
  <1> USE DEF BootInv, RequestIrq, Step, smpVars
  <1>1. BootTypeOK' BY DEF BootTypeOK, Facilities
  <1>2. PlaceInv' BY DEF BootTypeOK, PlaceInv, SecondaryPlaces
  <1>3. StartInv' BY DEF BootTypeOK, PlaceInv, StartInv, SecondaryPlaces
  <1>4. OnlineIsReady' BY DEF BootTypeOK, StartInv, OnlineIsReady, PlaceInv, SecondaryPlaces
  <1>5. DriverInv' BY DEF BootTypeOK, DriverInv, PlaceInv, SecondaryPlaces
  <1>6. LockInv'
    <2>1. \A c \in Contexts : isr'[c] = "insert" <=> isr[c] = "insert" BY DEF BootTypeOK, DriverInv
    <2> QED BY <2>1 DEF LockInv
  <1> QED BY <1>1, <1>2, <1>3, <1>4, <1>5, <1>6

LEMMA PollDoneKeeps == ASSUME BootInv, PollDone PROVE BootInv'
  <1> USE DEF BootInv, PollDone, Step, smpVars, consVars
  <1>1. BootTypeOK' BY DEF BootTypeOK, Facilities
  <1>2. PlaceInv' BY DEF BootTypeOK, PlaceInv, SecondaryPlaces
  <1>3. StartInv' BY DEF BootTypeOK, PlaceInv, StartInv, SecondaryPlaces
  <1>4. OnlineIsReady' BY DEF BootTypeOK, StartInv, OnlineIsReady, PlaceInv, SecondaryPlaces
  <1>5. DriverInv' BY ZenonT(60) DEF BootTypeOK, DriverInv, PlaceInv, SecondaryPlaces
  <1>6. LockInv' BY DEF BootTypeOK, LockInv
  <1> QED BY <1>1, <1>2, <1>3, <1>4, <1>5, <1>6

LEMMA SoftwareInterruptKeeps == ASSUME BootInv, NEW h \in Harts, SoftwareInterrupt(h) PROVE BootInv'
  <1> USE DEF BootInv, SoftwareInterrupt, IsrStep, smpVars
  <1>1. BootTypeOK' BY DEF BootTypeOK, Facilities
  <1>2. PlaceInv' BY DEF BootTypeOK, PlaceInv, SecondaryPlaces
  <1>3. StartInv' BY DEF BootTypeOK, PlaceInv, StartInv, SecondaryPlaces
  <1>4. OnlineIsReady' BY DEF BootTypeOK, StartInv, OnlineIsReady, PlaceInv, SecondaryPlaces
  <1>5. DriverInv' BY DEF BootTypeOK, DriverInv, PlaceInv, SecondaryPlaces
  <1>6. LockInv'
    <2>1. \A c \in Contexts : isr'[c] = "insert" <=> isr[c] = "insert" BY DEF BootTypeOK, DriverInv
    <2> QED BY <2>1 DEF LockInv
  <1> QED BY <1>1, <1>2, <1>3, <1>4, <1>5, <1>6

LEMMA GetCharKeeps == ASSUME BootInv, NEW c \in Contexts, GetChar(c) PROVE BootInv'
  <1> USE DEF BootInv, GetChar, IsrStep, smpVars
  <1>1. BootTypeOK' BY DEF BootTypeOK, Facilities
  <1>2. PlaceInv' BY DEF BootTypeOK, PlaceInv, SecondaryPlaces
  <1>3. StartInv' BY DEF BootTypeOK, PlaceInv, StartInv, SecondaryPlaces
  <1>4. OnlineIsReady' BY DEF BootTypeOK, StartInv, OnlineIsReady, PlaceInv, SecondaryPlaces
  <1>5. DriverInv' BY DEF BootTypeOK, DriverInv, PlaceInv, SecondaryPlaces
  <1>6. LockInv' BY DEF BootTypeOK, LockInv
  <1> QED BY <1>1, <1>2, <1>3, <1>4, <1>5, <1>6

LEMMA SpinIsLockedKeeps == ASSUME BootInv, NEW c \in Contexts, SpinIsLocked(c) PROVE BootInv'
  <1> USE DEF BootInv, SpinIsLocked, IsrStep, smpVars
  <1>1. BootTypeOK' BY DEF BootTypeOK, Facilities
  <1>2. PlaceInv' BY DEF BootTypeOK, PlaceInv, SecondaryPlaces
  <1>3. StartInv' BY DEF BootTypeOK, PlaceInv, StartInv, SecondaryPlaces
  <1>4. OnlineIsReady' BY DEF BootTypeOK, StartInv, OnlineIsReady, PlaceInv, SecondaryPlaces
  <1>5. DriverInv' BY DEF BootTypeOK, DriverInv, PlaceInv, SecondaryPlaces
  <1>6. LockInv' BY DEF BootTypeOK, LockInv
  <1> QED BY <1>1, <1>2, <1>3, <1>4, <1>5, <1>6

LEMMA SpinTrylockKeeps == ASSUME BootInv, NEW c \in Contexts, SpinTrylock(c) PROVE BootInv'
  <1> USE DEF BootInv, SpinTrylock, IsrStep, smpVars
  <1>1. BootTypeOK' BY DEF BootTypeOK, Facilities
  <1>2. PlaceInv' BY DEF BootTypeOK, PlaceInv, SecondaryPlaces
  <1>3. StartInv' BY DEF BootTypeOK, PlaceInv, StartInv, SecondaryPlaces
  <1>4. OnlineIsReady' BY DEF BootTypeOK, StartInv, OnlineIsReady, PlaceInv, SecondaryPlaces
  <1>5. DriverInv' BY DEF BootTypeOK, DriverInv, PlaceInv, SecondaryPlaces
  <1>6. LockInv' BY SMTT(60) DEF BootTypeOK, LockInv
  <1> QED BY <1>1, <1>2, <1>3, <1>4, <1>5, <1>6

LEMMA InsertAndUnlockKeeps == ASSUME BootInv, NEW c \in Contexts, InsertAndUnlock(c) PROVE BootInv'
  <1> USE DEF BootInv, InsertAndUnlock, IsrStep, smpVars
  <1>1. BootTypeOK' BY DEF BootTypeOK, Facilities
  <1>2. PlaceInv' BY DEF BootTypeOK, PlaceInv, SecondaryPlaces
  <1>3. StartInv' BY DEF BootTypeOK, PlaceInv, StartInv, SecondaryPlaces
  <1>4. OnlineIsReady' BY DEF BootTypeOK, StartInv, OnlineIsReady, PlaceInv, SecondaryPlaces
  <1>5. DriverInv' BY DEF BootTypeOK, DriverInv, PlaceInv, SecondaryPlaces
  <1>6. LockInv' BY DEF BootTypeOK, LockInv
  <1> QED BY <1>1, <1>2, <1>3, <1>4, <1>5, <1>6

-----------------------------------------------------------------------------
\* Entries.

USE DEF PRESENT, WRITE, ACCESSED, DIRTY

LEMMA PageFacts ==
  ASSUME NEW p, IsPage(p)
  PROVE  /\ pte_pfn(p) \in Frames /\ p.high = 8 * pte_pfn(p)
         /\ p # NoPte /\ p # SwapPte /\ Behind(p) = {pte_pfn(p)}
  <1>1. PICK f \in Frames : p.high = 8 * f BY DEF IsPage
  <1>2. f \in Nat /\ f > 0 BY <1>1
  <1>3. pte_pfn(p) = f BY <1>1, <1>2 DEF pte_pfn
  <1>4. p.high # 0 /\ p.high # 1 BY <1>1, <1>2
  <1>5. p # NoPte /\ p # SwapPte /\ ~IsSwap(p)
    BY <1>4 DEF NoPte, SwapPte, Pte, swp_entry, IsSwap, swp_offset, Slot
  <1>6. Behind(p) = {pte_pfn(p)}
    BY <1>5 DEF Behind, Mapped, Residue, pte_none
  <1> QED BY <1>1, <1>3, <1>5, <1>6

\* What an entry without a page stands for.
LEMMA NoPageFacts ==
  ASSUME NEW p, p = NoPte \/ p = SwapPte
  PROVE  ~pte_present(p) /\ ~pte_dirty(p) /\ Behind(p) = {} /\ Mapped(p) = {}
  <1>1. p.low = {} BY DEF NoPte, SwapPte, Pte, swp_entry
  <1>2. ~pte_present(p) /\ ~pte_dirty(p) BY <1>1 DEF pte_present, pte_dirty
  <1>3. p = NoPte \/ IsSwap(p)
    BY <1>1, <1>2 DEF NoPte, SwapPte, Pte, swp_entry, IsSwap, swp_type, swp_offset, Slot
  <1> QED BY <1>2, <1>3 DEF Behind, Mapped, Residue, pte_none

LEMMA Shapes ==
  ASSUME NEW p, Shaped(p)
  PROVE  /\ pte_present(p) => IsPage(p) /\ Mapped(p) = {pte_pfn(p)}
         /\ ~pte_present(p) => Mapped(p) = {}
         /\ Mapped(p) \subseteq Behind(p) /\ Behind(p) \subseteq Frames
         /\ pte_dirty(p) => IsPage(p)
  BY PageFacts, NoPageFacts DEF Shaped, Mapped, Behind

\* The frame of an entry is in its upper bits.
LEMMA HighDecides ==
  ASSUME NEW p \in Ptes, NEW q \in Ptes, Shaped(p), Shaped(q), q.high = p.high
  PROVE  /\ pte_pfn(q) = pte_pfn(p) /\ Behind(q) = Behind(p)
         /\ IsPage(q) <=> IsPage(p)
  <1>1. pte_pfn(q) = pte_pfn(p) BY DEF pte_pfn
  <1>2. IsPage(q) <=> IsPage(p) BY DEF IsPage
  <1> QED BY <1>1, <1>2, PageFacts, NoPageFacts DEF Shaped

LEMMA EmptyPtes == NoPte \in Ptes /\ SwapPte \in Ptes
  BY DEF NoPte, SwapPte, Pte, swp_entry, Ptes, Slot

LEMMA NoOpIdle ==
  /\ NoOp \in Records /\ NoOp.kind = "none" /\ NoOp.at = "none" /\ NoOp.mm = NoMm
  /\ NoMm \notin Mms
  BY EmptyPtes DEF NoOp, Records, Kinds

\* Who is in an operation on m.
LEMMA OpsBusy ==
  ASSUME MmTypes, NEW m \in Mms, NEW h \in Ops(m)
  PROVE  h \in Cpus /\ Busy(h) /\ op[h].mm = m
  BY NoOpIdle DEF Ops, Busy

LEMMA OwnedFrames ==
  ASSUME MmInv, NEW m \in Mms, NEW f, Owns(m, f)
  PROVE  f \in Frames
  <1>1. CASE f \in Behind(pte[m]) BY <1>1, Shapes DEF MmInv
  <1>2. CASE \E h \in Ops(m) : f \in Held(h)
    <2>1. PICK h \in Ops(m) : f \in Held(h) BY <1>2
    <2>2. Shaped(op[h].old) BY OpsBusy DEF MmInv, OpInv
    <2>3. f \in Mapped(op[h].old) BY <2>1 DEF Held
    <2> QED BY <2>2, <2>3, Shapes
  <1> QED BY <1>1, <1>2 DEF Owns

LEMMA Unique ==
  ASSUME MmInv, NEW m \in Mms, NEW n \in Mms, NEW f, Owns(m, f), Owns(n, f)
  PROVE  m = n
  BY OwnedFrames DEF MmInv, OwnInv

\* A cached translation is one of the active address space.
LEMMA CachedFacts ==
  ASSUME MmInv, NEW h \in Cpus
  PROVE  /\ tlb[h] # NoEntry => active[h] \in Mms /\ tlb[h].pfn \in Frames
         /\ walk[h] # "none" => active[h] \in Mms
  BY OwnedFrames DEF MmInv, MmTypes, TlbInv, Cached

\* A walker stays where it may be while the table is and flushes still come.
LEMMA WalkingKept ==
  ASSUME NEW g \in Cpus, Walking(g), active'[g] = active[g], walk'[g] = walk[g],
         \A k \in Cpus : Unmaps(k, g)' =>
            g \in fence'[k] \/ (Unmaps(k, g) /\ (g \in fence[k] => g \in fence'[k])),
         Unmapping(g) => Unmapping(g)',
         table[active[g]]["pte"] # "none" => table'[active[g]]["pte"] # "none",
         table[active[g]]["pmd"] = "linked" =>
            table'[active[g]]["pmd"] = "linked" \/ Unmapping(g)'
  PROVE  Walking(g)'
  BY DEF Walking

-----------------------------------------------------------------------------
\* Steps that change nobody's frames, flushes or cached translations.

LEMMA SameViews ==
  ASSUME MmInv,
         \A m \in Mms : \A f \in Frames : Owns(m, f)' <=> Owns(m, f),
         \A m \in Mms : \A g \in Cpus : FlushComes(g, m) => FlushComes(g, m)',
         \A g \in Cpus : Taking(g)' <=> Taking(g),
         \A g \in Cpus : Taking(g) => op'[g] = op[g],
         UNCHANGED <<task, active, hwVars, table, pte, fence, frVars>>
  PROVE  OwnInv' /\ TlbInv' /\ KnownInv'
  <1> USE DEF MmInv, hwVars, frVars
  <1>1. OwnInv' BY DEF OwnInv
  <1>2. ASSUME NEW m \in Mms, NEW g \in Cpus, g \in Ops(m)', Taking(g)'
        PROVE  g \in Ops(m) /\ Taking(g) /\ op'[g] = op[g]
    BY <1>2 DEF Ops
  <1>3. ASSUME NEW g \in Cpus PROVE Cached(g)'
    <2> SUFFICES ASSUME tlb[g] # NoEntry
                 PROVE  /\ Agrees(g)' \/ FlushComes(g, active[g])'
                        /\ Owns(active[g], tlb[g].pfn)'
                        /\ \A k \in Ops(active[g])' : Taking(k)' => g \in fence[k]
      BY DEF Cached
    <2>1. active[g] \in Mms /\ tlb[g].pfn \in Frames BY CachedFacts
    <2>2. Cached(g) BY DEF TlbInv
    <2>3. Agrees(g)' <=> Agrees(g) BY DEF Agrees
    <2>4. Owns(active[g], tlb[g].pfn)' BY <2>1, <2>2 DEF Cached
    <2>5. \A k \in Ops(active[g])' : k \in Cpus BY DEF Ops
    <2> QED BY <1>2, <2>1, <2>2, <2>3, <2>4, <2>5 DEF Cached
  <1>4. ASSUME NEW g \in Cpus PROVE Walking(g)'
    <2> SUFFICES ASSUME walk[g] # "none" PROVE Walking(g)' BY DEF Walking
    <2>1. active[g] \in Mms /\ Walking(g) BY CachedFacts DEF TlbInv
    <2>2. \A k \in Cpus : Unmaps(k, g)' <=> Unmaps(k, g) BY <1>2, <2>1 DEF Unmaps, Ops
    <2>3. Unmapping(g)' <=> Unmapping(g) BY <2>2 DEF Unmapping
    <2> QED BY <2>1, <2>2, <2>3, WalkingKept
  <1>5. TlbInv' BY <1>3, <1>4 DEF TlbInv
  <1>6. \A f \in Frames : Known(f) => Known(f)' BY DEF Known, Held
  <1>7. KnownInv' BY <1>6, CachedFacts DEF KnownInv, MmTypes
  <1> QED BY <1>1, <1>5, <1>7

-----------------------------------------------------------------------------
\* An operation starts.

LEMMA StartKeeps ==
  ASSUME MmInv, NEW h \in Cpus, NEW m \in Mms, NEW kind \in Kinds \ {"none"},
         NEW w \in BOOLEAN, Start(h, kind, m, w),
         kind # "munmap" => pte_present(pte[m]),
         kind \in {"mprotect", "munmap"} => ~SemTaken(m),
         kind = "fault" => ~SemWritten(m),
         vma' \in [Mms -> Prots \cup {NoVma}],
         UNCHANGED <<task, active, hwVars, table, pte, fence, frVars>>
  PROVE  MmInv'
  <1> DEFINE o == Op(kind, "write", m, pte[m], w)
  <1>1. /\ o.kind = kind /\ o.at = "write" /\ o.mm = m /\ o.old = pte[m]
        /\ o \in Records /\ o # NoOp
    BY NoOpIdle DEF Op, MmInv, MmTypes, Records
  <1>2. op' = [op EXCEPT ![h] = o] /\ op[h] = NoOp /\ ~PtlTaken(m) /\ ops' = ops + 1 /\ ops < MaxOps
    BY DEF Start
  <1> HIDE DEF o
  <1>3. op'[h] = o /\ \A g \in Cpus \ {h} : op'[g] = op[g] BY <1>2 DEF MmInv, MmTypes
  <1>4. ~Taking(h) /\ ~Taking(h)' /\ h \notin Ops(m)
    BY <1>1, <1>2, <1>3, NoOpIdle DEF Taking, Ops
  <1>5. MmTypes' BY <1>1, <1>2 DEF MmInv, MmTypes, hwVars, frVars
  <1>6. \A n \in Mms : Shaped(pte'[n]) BY DEF MmInv
  <1>7. OpInv'
    <2> SUFFICES ASSUME NEW g \in Cpus, Busy(g)'
                 PROVE  LET q == op'[g] IN
                        /\ q.mm \in Mms /\ q.kind # "none" /\ q.at # "none"
                        /\ Shaped(q.old)
                        /\ q.kind # "munmap" => pte_present(q.old)
                        /\ q.at = "write" => pte'[q.mm].high = q.old.high
                                             /\ (pte_present(pte'[q.mm]) <=> pte_present(q.old))
                        /\ Taking(g)' => pte'[q.mm] = NoPte
                        /\ Taking(g)' /\ q.kind = "munmap" =>
                              table'[q.mm]["pte"] # "linked" /\ table'[q.mm]["pmd"] # "linked"
      BY DEF OpInv
    <2>1. CASE g = h BY <1>1, <1>3, <1>4, <2>1 DEF MmInv
    <2>2. CASE g # h BY <1>3, <2>2 DEF MmInv, OpInv, Busy, Taking
    <2> QED BY <2>1, <2>2
  <1>8. ASSUME NEW g \in Cpus, g # h, Busy(g), op[g].mm = m
        PROVE  Overlap(g, h)'
    <2>1. g \in Ops(m) BY <1>8 DEF Ops
    <2>2. op[g].at # "write" /\ op[g].kind \notin {"fault", "reclaim", "clean", "age"}
      BY <1>2, <2>1 DEF PtlTaken
    <2>3. op[g].at = "flush" /\ op[g].kind \in {"mprotect", "munmap"}
      BY <1>8, <2>2 DEF MmInv, MmTypes, Records, Kinds, OpInv
    <2>4. kind \notin {"mprotect", "munmap", "fault"}
      BY <2>1, <2>3 DEF SemTaken, SemWritten
    <2>5. op[g].kind # "munmap"
      <3> SUFFICES ASSUME op[g].kind = "munmap" PROVE FALSE OBVIOUS
      <3>1. pte[m] = NoPte BY <1>8, <2>3 DEF MmInv, OpInv, Taking
      <3> QED BY <2>4, <3>1, NoPageFacts
    <2> QED BY <1>1, <1>3, <1>8, <2>3, <2>4, <2>5 DEF Overlap, Kinds
  <1>9. Exclusive'
    BY <1>1, <1>3, <1>8 DEF MmInv, Exclusive, Busy, Overlap
  <1>10. ASSUME NEW n \in Mms, NEW f \in Frames PROVE Owns(n, f)' <=> Owns(n, f)
    <2>1. \A g \in Cpus \ {h} : (g \in Ops(n)' <=> g \in Ops(n)) /\ Held(g)' = Held(g)
      BY <1>3 DEF Ops, Held
    <2>2. h \in Ops(n)' => n = m BY <1>1, <1>3 DEF Ops
    <2>3. f \in Held(h)' => f \in Behind(pte[m])
      BY <1>1, <1>3, Shapes DEF Held, MmInv
    <2>4. h \notin Ops(n) BY <1>2, NoOpIdle DEF Ops
    <2>5. Ops(n) \subseteq Cpus /\ Ops(n)' \subseteq Cpus BY DEF Ops
    <2> QED BY <2>1, <2>2, <2>3, <2>4, <2>5 DEF Owns
  <1>11. \A n \in Mms : \A g \in Cpus : FlushComes(g, n) => FlushComes(g, n)'
    BY <1>2, <1>3, NoOpIdle DEF FlushComes, Ops
  <1>12. \A g \in Cpus : (Taking(g)' <=> Taking(g)) /\ (Taking(g) => op'[g] = op[g])
    BY <1>3, <1>4 DEF Taking
  <1>13. OwnInv' /\ TlbInv' /\ KnownInv' BY <1>10, <1>11, <1>12, SameViews
  <1> QED BY <1>5, <1>6, <1>7, <1>9, <1>13 DEF MmInv

LEMMA FaultStartKeeps ==
  ASSUME MmInv, NEW h \in Cpus, NEW m \in Mms, NEW w \in BOOLEAN, FaultStart(h, m, w)
  PROVE  MmInv'
  <1>1. "fault" \in Kinds \ {"none"} BY DEF Kinds
  <1>2. vma' \in [Mms -> Prots \cup {NoVma}] BY DEF FaultStart, MmInv, MmTypes
  <1> QED BY <1>1, <1>2, StartKeeps DEF FaultStart, MayFault

LEMMA ReclaimKeeps == ASSUME MmInv, NEW h \in Cpus, NEW m \in Mms, Reclaim(h, m) PROVE MmInv'
  <1>1. "reclaim" \in Kinds \ {"none"} BY DEF Kinds
  <1>2. vma' \in [Mms -> Prots \cup {NoVma}] BY DEF Reclaim, MmInv, MmTypes
  <1> QED BY <1>1, <1>2, StartKeeps DEF Reclaim

LEMMA CleanKeeps == ASSUME MmInv, NEW h \in Cpus, NEW m \in Mms, Clean(h, m) PROVE MmInv'
  <1>1. "clean" \in Kinds \ {"none"} BY DEF Kinds
  <1>2. vma' \in [Mms -> Prots \cup {NoVma}] BY DEF Clean, MmInv, MmTypes
  <1> QED BY <1>1, <1>2, StartKeeps DEF Clean

LEMMA AgeKeeps == ASSUME MmInv, NEW h \in Cpus, NEW m \in Mms, Age(h, m) PROVE MmInv'
  <1>1. "age" \in Kinds \ {"none"} BY DEF Kinds
  <1>2. vma' \in [Mms -> Prots \cup {NoVma}] BY DEF Age, MmInv, MmTypes
  <1> QED BY <1>1, <1>2, StartKeeps DEF Age

LEMMA MunmapKeeps == ASSUME MmInv, NEW h \in Cpus, NEW m \in Mms, Munmap(h, m) PROVE MmInv'
  <1>1. "munmap" \in Kinds \ {"none"} BY DEF Kinds
  <1>2. vma' \in [Mms -> Prots \cup {NoVma}] BY DEF Munmap, MmInv, MmTypes
  <1> QED BY <1>1, <1>2, StartKeeps DEF Munmap

\* A change of the mapping alone.
LEMMA VmaKeeps ==
  ASSUME MmInv, vma' \in [Mms -> Prots \cup {NoVma}], ops' \in 0..MaxOps,
         UNCHANGED <<task, active, hwVars, table, pte, op, fence, frVars>>
  PROVE  MmInv'
  <1>1. MmTypes' BY DEF MmInv, MmTypes, hwVars, frVars
  <1>2. OpInv' /\ Exclusive' /\ \A n \in Mms : Shaped(pte'[n])
    BY DEF MmInv, OpInv, Exclusive, Busy, Taking, Overlap
  <1>3. OwnInv' /\ TlbInv' /\ KnownInv'
    BY SameViews DEF Owns, Ops, Held, FlushComes, Taking
  <1> QED BY <1>1, <1>2, <1>3 DEF MmInv

LEMMA MprotectKeeps ==
  ASSUME MmInv, NEW h \in Cpus, NEW m \in Mms, NEW xwr \in Prots, Mprotect(h, m, xwr)
  PROVE  MmInv'
  <1>1. vma' \in [Mms -> Prots \cup {NoVma}] BY DEF Mprotect, MmInv, MmTypes
  <1>2. CASE pte_present(pte[m]) /\ Start(h, "mprotect", m, FALSE)
    <2>1. "mprotect" \in Kinds \ {"none"} BY DEF Kinds
    <2> QED BY <1>1, <1>2, <2>1, StartKeeps DEF Mprotect
  <1>3. CASE ops < MaxOps /\ ops' = ops + 1 /\ UNCHANGED op
    BY <1>1, <1>3, VmaKeeps DEF Mprotect, MmInv, MmTypes
  <1> QED BY <1>2, <1>3 DEF Mprotect

LEMMA MmapKeeps ==
  ASSUME MmInv, NEW h \in Cpus, NEW m \in Mms, NEW xwr \in Prots, Mmap(h, m, xwr)
  PROVE  MmInv'
  BY VmaKeeps DEF Mmap, MmInv, MmTypes

-----------------------------------------------------------------------------
\* An operation that has left its page in the entry ends.

LEMMA FinishKeeps ==
  ASSUME MmInv, NEW h \in Cpus, NEW kind \in {"fault", "mprotect", "age"}, Finish(h, kind),
         UNCHANGED <<task, active, hwVars, vma, table, pte, fence, frVars, ops>>
  PROVE  MmInv'
  <1>1. op' = [op EXCEPT ![h] = NoOp] /\ fence[h] = {} /\ op[h].kind = kind BY DEF Finish
  <1>2. op'[h] = NoOp /\ \A g \in Cpus \ {h} : op'[g] = op[g] BY <1>1 DEF MmInv, MmTypes
  <1>3. ~Taking(h) /\ ~Taking(h)' BY <1>1, <1>2, NoOpIdle DEF Taking
  <1>4. MmTypes' BY <1>1, NoOpIdle DEF MmInv, MmTypes, hwVars, frVars
  <1>5. OpInv' BY <1>2 DEF MmInv, OpInv, Busy, Taking
  <1>6. Exclusive' BY <1>2 DEF MmInv, Exclusive, Busy, Overlap
  <1>7. Held(h) = {} /\ Held(h)' = {} BY <1>1, <1>2, NoOpIdle DEF Held
  <1>8. ASSUME NEW n \in Mms, NEW f \in Frames PROVE Owns(n, f)' <=> Owns(n, f)
    <2>1. \A g \in Cpus \ {h} : (g \in Ops(n)' <=> g \in Ops(n)) /\ Held(g)' = Held(g)
      BY <1>2 DEF Ops, Held
    <2>2. Ops(n) \subseteq Cpus /\ Ops(n)' \subseteq Cpus BY DEF Ops
    <2> QED BY <1>7, <2>1, <2>2 DEF Owns
  <1>9. \A n \in Mms : \A g \in Cpus : FlushComes(g, n) => FlushComes(g, n)'
    BY <1>1, <1>2 DEF FlushComes, Ops
  <1>10. \A g \in Cpus : (Taking(g)' <=> Taking(g)) /\ (Taking(g) => op'[g] = op[g])
    BY <1>2, <1>3 DEF Taking
  <1>11. OwnInv' /\ TlbInv' /\ KnownInv' BY <1>8, <1>9, <1>10, SameViews
  <1> QED BY <1>4, <1>5, <1>6, <1>11 DEF MmInv

-----------------------------------------------------------------------------
\* An operation writes the entry back and goes on to flush every hart.

\* What Write(h, p) does, and that no other operation is in its way.
Written(h, p) ==
    /\ op[h].mm \in Mms /\ op[h] \in Records
    /\ pte' \in [Mms -> Ptes] /\ pte'[op[h].mm] = p
    /\ \A n \in Mms \ {op[h].mm} : pte'[n] = pte[n]
    /\ op' \in [Cpus -> Records] /\ op'[h].kind = op[h].kind /\ op'[h].at = "flush"
    /\ op'[h].mm = op[h].mm /\ op'[h].old = op[h].old
    /\ fence' \in [Cpus -> SUBSET Cpus] /\ fence'[h] = Cpus
    /\ \A g \in Cpus \ {h} : op'[g] = op[g] /\ fence'[g] = fence[g]
    /\ \A g \in Cpus \ {h} : Busy(g) /\ op[g].mm = op[h].mm =>
          op[g].kind = "mprotect" /\ op[g].at = "flush"
    /\ Behind(pte[op[h].mm]) = Behind(op[h].old)
    /\ pte_pfn(pte[op[h].mm]) = pte_pfn(op[h].old)
    /\ IsPage(pte[op[h].mm]) <=> IsPage(op[h].old)
    /\ \A n \in Mms : Ops(n)' = Ops(n) /\ Ops(n) \subseteq Cpus

LEMMA WriteFacts ==
  ASSUME MmInv, NEW h \in Cpus, Busy(h), op[h].at = "write", NEW p \in Ptes, Write(h, p)
  PROVE  Written(h, p)
  <1> USE DEF MmInv, MmTypes
  <1>1. /\ op[h].mm \in Mms /\ Shaped(op[h].old) /\ op[h].old \in Ptes
        /\ pte[op[h].mm].high = op[h].old.high
    BY DEF OpInv, Records
  <1>2. /\ op' = [op EXCEPT ![h] = [op[h] EXCEPT !.at = "flush"]]
        /\ fence' = [fence EXCEPT ![h] = Cpus]
    BY DEF Write, FlushAll
  <1>3. [op[h] EXCEPT !.at = "flush"] \in Records BY ZenonT(60) DEF Records
  <1>4. op'[h] = [op[h] EXCEPT !.at = "flush"] /\ op' \in [Cpus -> Records]
    BY <1>2, <1>3
  <1>5. \A g \in Cpus \ {h} : Busy(g) /\ op[g].mm = op[h].mm =>
               op[g].kind = "mprotect" /\ op[g].at = "flush"
    BY DEF Exclusive, Overlap
  <1>6. /\ Behind(pte[op[h].mm]) = Behind(op[h].old)
        /\ pte_pfn(pte[op[h].mm]) = pte_pfn(op[h].old)
        /\ IsPage(pte[op[h].mm]) <=> IsPage(op[h].old)
    BY <1>1, HighDecides
  <1>7. \A g \in Cpus : op'[g].mm = op[g].mm BY <1>2, <1>4 DEF Records
  <1>8. \A n \in Mms : Ops(n)' = Ops(n) /\ Ops(n) \subseteq Cpus BY <1>7 DEF Ops
  <1>9. /\ op'[h].kind = op[h].kind /\ op'[h].at = "flush"
        /\ op'[h].mm = op[h].mm /\ op'[h].old = op[h].old
    BY <1>4 DEF Records
  <1>10. /\ pte' = [pte EXCEPT ![op[h].mm] = p]
         /\ \A g \in Cpus \ {h} : op'[g] = op[g] /\ fence'[g] = fence[g]
    BY <1>2 DEF Write
  <1>11. /\ pte' \in [Mms -> Ptes] /\ pte'[op[h].mm] = p
         /\ \A n \in Mms \ {op[h].mm} : pte'[n] = pte[n]
    BY <1>1, <1>10
  <1>12. fence' \in [Cpus -> SUBSET Cpus] /\ fence'[h] = Cpus BY <1>2
  <1> QED BY <1>1, <1>4, <1>5, <1>6, <1>8, <1>9, <1>10, <1>11, <1>12 DEF Written

\* The operations after it, whatever else it changes.
LEMMA WriteOps ==
  ASSUME MmInv, NEW h \in Cpus, Busy(h), op[h].at = "write", NEW p \in Ptes, Write(h, p),
         Taking(h)' => p = NoPte,
         op[h].kind = "munmap" =>
            table'[op[h].mm]["pte"] # "linked" /\ table'[op[h].mm]["pmd"] # "linked",
         \A n \in Mms \ {op[h].mm} : table'[n] = table[n]
  PROVE  OpInv' /\ Exclusive'
  <1> DEFINE m == op[h].mm
  <1>1. Written(h, p) BY WriteFacts
  <1>2. /\ op'[h].kind = op[h].kind /\ op'[h].at = "flush" /\ op'[h].mm = m
        /\ op'[h].old = op[h].old /\ m \in Mms
    BY <1>1 DEF Written
  <1>3. /\ \A n \in Mms \ {m} : pte'[n] = pte[n]
        /\ pte'[m] = p
    BY <1>1 DEF Written
  <1>4. OpInv'
    <2> SUFFICES ASSUME NEW g \in Cpus, Busy(g)'
                 PROVE  LET q == op'[g] IN
                        /\ q.mm \in Mms /\ q.kind # "none" /\ q.at # "none"
                        /\ Shaped(q.old)
                        /\ q.kind # "munmap" => pte_present(q.old)
                        /\ q.at = "write" => pte'[q.mm].high = q.old.high
                                             /\ (pte_present(pte'[q.mm]) <=> pte_present(q.old))
                        /\ Taking(g)' => pte'[q.mm] = NoPte
                        /\ Taking(g)' /\ q.kind = "munmap" =>
                              table'[q.mm]["pte"] # "linked" /\ table'[q.mm]["pmd"] # "linked"
      BY DEF OpInv
    <2>1. CASE g = h BY <1>1, <1>2, <1>3, <2>1 DEF MmInv, OpInv
    <2>2. CASE g # h
      <3>1. op'[g] = op[g] /\ Busy(g) /\ (Taking(g)' <=> Taking(g))
        BY <1>1, <2>2 DEF Written, Busy, Taking
      <3>2. CASE op[g].mm = m
        <4>1. op[g].kind = "mprotect" /\ op[g].at = "flush" BY <1>1, <2>2, <3>1, <3>2 DEF Written
        <4>2. ~Taking(g) BY <4>1 DEF Taking
        <4> QED BY <3>1, <4>1, <4>2 DEF MmInv, OpInv
      <3>3. CASE op[g].mm # m
        BY <1>3, <3>1, <3>3 DEF MmInv, OpInv
      <3> QED BY <3>2, <3>3
    <2> QED BY <2>1, <2>2
  <1>5. Exclusive'
    <2> SUFFICES ASSUME NEW g \in Cpus, NEW k \in Cpus, g # k, Busy(g)', Busy(k)',
                        op'[g].mm = op'[k].mm
                 PROVE  Overlap(g, k)' \/ Overlap(k, g)'
      BY DEF Exclusive
    <2>1. CASE g # h /\ k # h
      BY <1>1, <2>1 DEF Written, MmInv, Exclusive, Busy, Overlap
    <2>2. ASSUME NEW i \in Cpus, i # h, Busy(i)', op'[i].mm = m PROVE Overlap(i, h)'
      <3>1. Busy(i) /\ op'[i] = op[i] /\ op[i].mm = m BY <1>1, <2>2 DEF Written, Busy
      <3>2. op[i].kind = "mprotect" /\ op[i].at = "flush" BY <1>1, <2>2, <3>1 DEF Written
      <3>3. Overlap(i, h)
        BY <2>2, <3>1, <3>2 DEF MmInv, Exclusive, Overlap
      <3> QED BY <1>2, <3>1, <3>3 DEF Overlap
    <2> QED BY <1>2, <2>1, <2>2
  <1> QED BY <1>4, <1>5

\* Every hart is about to be flushed, and what is owned and cached otherwise
\* stays right.
LEMMA WriteTlb ==
  ASSUME MmInv, NEW h \in Cpus, Busy(h), op[h].at = "write", NEW p \in Ptes, Write(h, p),
         \A g \in Cpus : tlb[g] # NoEntry => Owns(active[g], tlb[g].pfn)',
         \A n \in Mms : table[n]["pte"] # "none" => table'[n]["pte"] # "none",
         \A n \in Mms : table[n]["pmd"] = "linked" =>
            table'[n]["pmd"] = "linked" \/ (n = op[h].mm /\ op[h].kind = "munmap"),
         UNCHANGED <<task, active, hwVars>>
  PROVE  TlbInv'
  <1> DEFINE m == op[h].mm
  <1>1. Written(h, p) BY WriteFacts
  <1>2. /\ op'[h].kind = op[h].kind /\ op'[h].at = "flush" /\ op'[h].mm = m
        /\ fence'[h] = Cpus /\ m \in Mms
    BY <1>1 DEF Written
  <1>3. \A n \in Mms \ {m} : pte'[n] = pte[n] BY <1>1 DEF Written
  <1>4. \A n \in Mms : Ops(n)' = Ops(n) BY <1>1 DEF Written
  <1>5. \A k \in Cpus \ {h} : op'[k] = op[k] /\ fence'[k] = fence[k] /\ (Taking(k)' <=> Taking(k))
    BY <1>1 DEF Written, Taking
  <1>6. h \in Ops(m) /\ \A n \in Mms : Ops(n) \subseteq Cpus BY DEF Ops
  <1>7. ASSUME NEW g \in Cpus, NEW k \in Ops(active[g])', active[g] \in Mms, Taking(k)',
               Taking(k) => g \in fence[k]
        PROVE  g \in fence'[k]
    BY <1>2, <1>4, <1>5, <1>6, <1>7
  <1>8. ASSUME NEW g \in Cpus PROVE Cached(g)'
    <2> SUFFICES ASSUME tlb[g] # NoEntry
                 PROVE  /\ Agrees(g)' \/ FlushComes(g, active[g])'
                        /\ \A k \in Ops(active[g])' : Taking(k)' => g \in fence'[k]
      BY DEF Cached, hwVars
    <2>1. active[g] \in Mms BY CachedFacts
    <2>2. Cached(g) BY DEF MmInv, TlbInv
    <2>3. Agrees(g)' \/ FlushComes(g, active[g])'
      <3>1. CASE active[g] = m BY <1>2, <1>4, <1>6, <2>1, <3>1 DEF FlushComes
      <3>2. CASE active[g] # m
        <4>1. h \notin Ops(active[g]) BY <3>2 DEF Ops
        <4>2. FlushComes(g, active[g]) => FlushComes(g, active[g])'
          BY <1>4, <1>5, <1>6, <2>1, <4>1 DEF FlushComes
        <4>3. Agrees(g) => Agrees(g)' BY <1>3, <2>1, <3>2 DEF Agrees, hwVars
        <4> QED BY <2>2, <4>2, <4>3 DEF Cached
      <3> QED BY <3>1, <3>2
    <2>4. \A k \in Ops(active[g])' : Taking(k) => g \in fence[k]
      BY <1>4, <2>1, <2>2 DEF Cached
    <2> QED BY <1>7, <2>1, <2>3, <2>4
  <1>9. ASSUME NEW g \in Cpus PROVE Walking(g)'
    <2> SUFFICES ASSUME walk[g] # "none" PROVE Walking(g)' BY DEF Walking, hwVars
    <2>1. active[g] \in Mms /\ Walking(g) BY CachedFacts DEF MmInv, TlbInv
    <2>2. \A k \in Cpus \ {h} : Unmaps(k, g)' <=> Unmaps(k, g)
      BY <1>4, <1>5, <2>1 DEF Unmaps
    <2>3. ~Unmaps(h, g) BY DEF Unmaps, Taking
    <2>4. Unmapping(g) => Unmapping(g)' BY <1>5, <2>2, <2>3 DEF Unmapping
    <2>5. \A k \in Cpus : Unmaps(k, g)' =>
            g \in fence'[k] \/ (Unmaps(k, g) /\ (g \in fence[k] => g \in fence'[k]))
      BY <1>2, <1>5, <2>2
    <2>6. active[g] = m /\ op[h].kind = "munmap" => Unmapping(g)'
      BY <1>2, <1>4, <1>6, <2>1 DEF Unmapping, Unmaps, Taking
    <2> QED BY <2>1, <2>4, <2>5, <2>6, WalkingKept DEF hwVars
  <1> QED BY <1>8, <1>9 DEF MmInv, TlbInv, hwVars

\* The page stays in the entry.
LEMMA KeepWrite ==
  ASSUME MmInv, NEW h \in Cpus, op[h].kind \in {"fault", "mprotect", "age"},
         op[h].at = "write", NEW p \in Ptes, Write(h, p), p.high = op[h].old.high,
         pte_dirty(pte[op[h].mm]) => pte_dirty(p) \/ pte_pfn(op[h].old) \in raced',
         raced \subseteq raced', raced' \subseteq raced \cup {pte_pfn(op[h].old)},
         UNCHANGED <<task, active, hwVars, vma, table, used, dirtied, modified, leaked, ops>>
  PROVE  MmInv'
  <1> DEFINE m == op[h].mm
             old == op[h].old
  <1>1. Busy(h) BY NoOpIdle DEF Busy
  <1>2. Written(h, p) BY <1>1, WriteFacts
  <1>3. /\ m \in Mms /\ old \in Ptes /\ Shaped(old) /\ IsPage(old) /\ pte_pfn(old) \in Frames
        /\ op[h] \in Records
    BY <1>1, Shapes, PageFacts DEF MmInv, MmTypes, OpInv, Records
  <1>4. IsPage(p) /\ Shaped(p) /\ Behind(p) = Behind(old)
    <2>1. IsPage(p) BY <1>3 DEF IsPage
    <2> QED BY <1>3, <2>1, HighDecides DEF Shaped
  <1>5. MmTypes'
    <2>1. raced' \subseteq Frames BY <1>3 DEF MmInv, MmTypes
    <2> QED BY <1>2, <2>1 DEF Written, MmInv, MmTypes, hwVars
  <1>6. ~Taking(h) /\ ~Taking(h)' /\ Held(h) = {} /\ Held(h)' = {}
    BY <1>2 DEF Written, Taking, Held
  <1>7. /\ \A n \in Mms \ {m} : pte'[n] = pte[n]
        /\ pte'[m] = p
    BY <1>2 DEF Written
  <1>8. \A n \in Mms : Shaped(pte'[n]) BY <1>4, <1>7 DEF MmInv
  <1>9. OpInv' /\ Exclusive'
    BY <1>1, <1>6, WriteOps
  <1>10. \A n \in Mms : Behind(pte'[n]) = Behind(pte[n]) BY <1>4, <1>2, <1>7 DEF Written
  <1>11. \A k \in Cpus : Held(k)' = Held(k) BY <1>2, <1>6 DEF Written, Held
  <1>12. ASSUME NEW n \in Mms, NEW f \in Frames PROVE Owns(n, f)' <=> Owns(n, f)
    <2>1. Ops(n)' = Ops(n) /\ Ops(n) \subseteq Cpus BY <1>2 DEF Written
    <2> QED BY <1>10, <1>11, <2>1 DEF Owns
  <1>13. OwnInv' BY <1>12 DEF MmInv, OwnInv
  <1>14. TlbInv'
    <2>1. \A g \in Cpus : tlb[g] # NoEntry => Owns(active[g], tlb[g].pfn)'
      <3> SUFFICES ASSUME NEW g \in Cpus, tlb[g] # NoEntry PROVE Owns(active[g], tlb[g].pfn)'
        BY DEF hwVars
      <3>1. active[g] \in Mms /\ tlb[g].pfn \in Frames BY CachedFacts
      <3>2. Owns(active[g], tlb[g].pfn) BY DEF MmInv, TlbInv, Cached
      <3>3. \A n \in Mms : \A f \in Frames : Owns(n, f) => Owns(n, f)' BY <1>12
      <3> QED BY <3>1, <3>2, <3>3 DEF hwVars
    <2> QED BY <1>1, <2>1, WriteTlb
  <1>15. ASSUME NEW f \in Frames, Known(f) PROVE Known(f)'
    <2>1. CASE f \in dirtied \cup raced \cup leaked BY <2>1 DEF Known
    <2>2. CASE \E n \in Mms : f \in Behind(pte[n]) /\ pte_dirty(pte[n])
      <3>1. PICK n \in Mms : f \in Behind(pte[n]) /\ pte_dirty(pte[n]) BY <2>2
      <3>2. CASE n # m BY <1>7, <3>1, <3>2 DEF Known
      <3>3. CASE n = m
        <4>1. f = pte_pfn(old) BY <1>3, <1>2, <3>1, <3>3, PageFacts DEF Written
        <4> QED BY <1>3, <1>7, <1>10, <3>1, <3>3, <4>1 DEF Known
      <3> QED BY <3>2, <3>3
    <2>3. CASE \E k \in Cpus : op[k].kind = "clean" /\ Taking(k) /\ f \in Held(k)
                               /\ pte_dirty(op[k].old)
      <3>1. PICK k \in Cpus : op[k].kind = "clean" /\ Taking(k) /\ f \in Held(k)
                              /\ pte_dirty(op[k].old)
        BY <2>3
      <3>2. k # h BY <1>6, <3>1
      <3>3. op'[k] = op[k] BY <1>2, <3>2 DEF Written
      <3> QED BY <1>11, <3>1, <3>3 DEF Known, Taking
    <2> QED BY <1>15, <2>1, <2>2, <2>3 DEF Known
  <1>16. KnownInv' BY <1>15, CachedFacts DEF MmInv, MmTypes, KnownInv, hwVars
  <1> QED BY <1>5, <1>8, <1>9, <1>13, <1>14, <1>16 DEF MmInv

\* What the helpers keep of an entry.
LEMMA HelperFacts ==
  ASSUME NEW p \in Ptes
  PROVE  /\ \A b \in 0..6 : SetBit(p, b) \in Ptes /\ SetBit(p, b).high = p.high
                            /\ (b # 6 => (pte_dirty(SetBit(p, b)) <=> pte_dirty(p)))
         /\ \A b \in 0..6 : ClearBit(p, b) \in Ptes /\ ClearBit(p, b).high = p.high
                            /\ (b # 6 => (pte_dirty(ClearBit(p, b)) <=> pte_dirty(p)))
         /\ pte_dirty(SetBit(p, 6))
  BY DEF SetBit, ClearBit, Ptes, pte_dirty

LEMMA ModifyFacts ==
  ASSUME NEW p \in Ptes, NEW share, NEW xwr
  PROVE  LET q == pte_modify(p, Protection(share, xwr))
         IN  q \in Ptes /\ q.high = p.high /\ (pte_dirty(p) => pte_dirty(q))
  <1>1. Protection(share, xwr) \in SUBSET (0..6)
    BY DEF Protection, PAGE_NONE, PAGE_READ, PAGE_WRITE, PAGE_EXEC, PAGE_WRITE_EXEC, BASE,
           USER_RO, USER_RW, USER_RX, USER_RWX
  <1> QED BY <1>1 DEF pte_modify, Ptes, pte_dirty, TYPE

LEMMA RacedFacts ==
  ASSUME NEW h \in Cpus
  PROVE  /\ raced \subseteq Raced(h) /\ Raced(h) \subseteq raced \cup {pte_pfn(op[h].old)}
         /\ pte_dirty(pte[op[h].mm]) => pte_dirty(op[h].old) \/ pte_pfn(op[h].old) \in Raced(h)
  BY DEF Raced, Races

LEMMA FaultWriteKeeps == ASSUME MmInv, NEW h \in Cpus, FaultWrite(h) PROVE MmInv'
  <1> DEFINE old == op[h].old
             young == pte_mkyoung(old)
             p == IF op[h].w THEN Writable(op[h].mm, young) ELSE young
  <1>1. old \in Ptes BY DEF MmInv, MmTypes, Records
  <1>2. young \in Ptes /\ young.high = old.high /\ (pte_dirty(young) <=> pte_dirty(old))
    BY <1>1, HelperFacts DEF pte_mkyoung
  <1> HIDE DEF young
  <1>3. /\ Writable(op[h].mm, young) \in Ptes /\ Writable(op[h].mm, young).high = old.high
        /\ pte_dirty(Writable(op[h].mm, young))
    <2>1. /\ pte_mkdirty(young) \in Ptes /\ pte_mkdirty(young).high = old.high
          /\ pte_dirty(pte_mkdirty(young))
      BY <1>2, HelperFacts DEF pte_mkdirty
    <2> QED BY <2>1, HelperFacts DEF Writable, pte_mkwrite
  <1>4. p \in Ptes /\ p.high = old.high BY <1>2, <1>3
  <1>5. /\ raced \subseteq raced' /\ raced' \subseteq raced \cup {pte_pfn(old)}
        /\ pte_dirty(pte[op[h].mm]) => pte_dirty(p) \/ pte_pfn(old) \in raced'
    BY <1>2, <1>3, RacedFacts DEF FaultWrite
  <1>6. Write(h, p) BY DEF FaultWrite, young
  <1> HIDE DEF p
  <1> QED BY <1>4, <1>5, <1>6, KeepWrite DEF FaultWrite

LEMMA MprotectWriteKeeps == ASSUME MmInv, NEW h \in Cpus, MprotectWrite(h) PROVE MmInv'
  <1> DEFINE old == op[h].old
             p == pte_modify(old, PageProt(op[h].mm))
  <1>1. old \in Ptes BY DEF MmInv, MmTypes, Records
  <1>2. p \in Ptes /\ p.high = old.high /\ (pte_dirty(old) => pte_dirty(p))
    BY <1>1, ModifyFacts DEF PageProt
  <1>3. /\ raced \subseteq raced' /\ raced' \subseteq raced \cup {pte_pfn(old)}
        /\ pte_dirty(pte[op[h].mm]) => pte_dirty(p) \/ pte_pfn(old) \in raced'
    BY <1>2, RacedFacts DEF MprotectWrite
  <1>4. Write(h, p) BY DEF MprotectWrite
  <1> HIDE DEF p
  <1> QED BY <1>2, <1>3, <1>4, KeepWrite DEF MprotectWrite

LEMMA AgeWriteKeeps == ASSUME MmInv, NEW h \in Cpus, AgeWrite(h) PROVE MmInv'
  <1> DEFINE old == op[h].old
             p == pte_mkold(old)
  <1>1. old \in Ptes BY DEF MmInv, MmTypes, Records
  <1>2. p \in Ptes /\ p.high = old.high /\ (pte_dirty(old) => pte_dirty(p))
    BY <1>1, HelperFacts DEF pte_mkold
  <1>3. /\ raced \subseteq raced' /\ raced' \subseteq raced \cup {pte_pfn(old)}
        /\ pte_dirty(pte[op[h].mm]) => pte_dirty(p) \/ pte_pfn(old) \in raced'
    BY <1>2, RacedFacts DEF AgeWrite
  <1>4. Write(h, p) BY DEF AgeWrite
  <1> HIDE DEF p
  <1> QED BY <1>2, <1>3, <1>4, KeepWrite DEF AgeWrite

\* The page is taken out of the entry; what was no present page is lost.
LEMMA TakeWrite ==
  ASSUME MmInv, NEW h \in Cpus, op[h].kind \in {"munmap", "reclaim", "clean"},
         op[h].at = "write", Write(h, NoPte),
         raced' = Raced(h), dirtied \subseteq dirtied', dirtied' \subseteq Frames,
         leaked' = IF pte_present(op[h].old) THEN leaked ELSE leaked \cup Behind(op[h].old),
         pte_present(op[h].old) /\ pte_dirty(op[h].old) =>
            op[h].kind = "clean" \/ pte_pfn(op[h].old) \in dirtied',
         table' \in [Mms -> [Levels -> {"none", "linked", "gathered"}]],
         op[h].kind = "munmap" =>
            table'[op[h].mm]["pte"] # "linked" /\ table'[op[h].mm]["pmd"] # "linked",
         \A n \in Mms : table[n]["pte"] # "none" => table'[n]["pte"] # "none",
         \A n \in Mms : table[n]["pmd"] = "linked" =>
            table'[n]["pmd"] = "linked" \/ (n = op[h].mm /\ op[h].kind = "munmap"),
         \A n \in Mms \ {op[h].mm} : table'[n] = table[n],
         UNCHANGED <<task, active, hwVars, vma, used, modified, ops>>
  PROVE  MmInv'
  <1> DEFINE old == op[h].old
             lost == IF pte_present(old) THEN {} ELSE Behind(old)
  <1>1. Busy(h) BY NoOpIdle DEF Busy
  <1>2. Written(h, NoPte) BY <1>1, EmptyPtes, WriteFacts
  <1>3. PICK m \in Mms : m = op[h].mm BY <1>2 DEF Written
  <1>4. /\ old \in Ptes /\ Shaped(old) /\ Behind(old) \subseteq Frames
        /\ pte_pfn(old) \in Frames \/ ~IsPage(old)
        /\ pte_present(old) \/ op[h].kind = "munmap"
    BY <1>1, <1>3, Shapes, PageFacts DEF MmInv, MmTypes, OpInv, Records
  <1>5. /\ op'[h].kind = op[h].kind /\ op'[h].old = old /\ op'[h].at = "flush"
        /\ \A n \in Mms \ {m} : pte'[n] = pte[n]
        /\ pte'[m] = NoPte
    BY <1>2, <1>3 DEF Written
  <1>6. MmTypes'
    <2>1. raced' \subseteq Frames
      <3>1. CASE Races(h)
        <4>1. Shaped(pte[m]) /\ pte_dirty(pte[m]) BY <1>4, <1>3, <3>1 DEF Races, MmInv
        <4>2. IsPage(old) BY <1>2, <1>3, <4>1, Shapes DEF Written
        <4> QED BY <1>4, <1>3, <4>2 DEF Raced, MmInv, MmTypes
      <3>2. CASE ~Races(h) BY <3>2 DEF Raced, MmInv, MmTypes
      <3> QED BY <3>1, <3>2
    <2>2. leaked' \subseteq Frames BY <1>4, <1>3 DEF MmInv, MmTypes
    <2> QED BY <1>2, <1>3, <2>1, <2>2 DEF Written, MmInv, MmTypes, hwVars
  <1>7. \A n \in Mms : Shaped(pte'[n]) BY <1>5, <1>3 DEF MmInv, Shaped
  <1>8. OpInv' /\ Exclusive' BY <1>1, <1>3, EmptyPtes, WriteOps
  <1>9. Behind(NoPte) = {} /\ ~pte_dirty(NoPte) BY NoPageFacts
  \* What is owned: all but what is lost.
  <1>10. ASSUME NEW k \in Ops(m), k # h PROVE Held(k) = {} /\ Held(k)' = {} /\ ~Taking(k)
    <2>1. k \in Cpus /\ Busy(k) /\ op[k].mm = m BY <1>4, <1>3, OpsBusy DEF MmInv
    <2>2. op[k].kind = "mprotect" /\ op'[k] = op[k] BY <1>2, <1>3, <1>10, <2>1 DEF Written
    <2> QED BY <2>2 DEF Held, Taking
  <1>11. Held(h) = Mapped(old) /\ Held(h)' = Mapped(old) /\ h \in Ops(m)
    BY <1>5, <1>3 DEF Held, Ops
  <1>12. ASSUME NEW f \in Frames
         PROVE  /\ Owns(m, f) <=> f \in Behind(old)
                /\ Owns(m, f)' <=> f \in Mapped(old)
    <2>1. Ops(m)' = Ops(m) /\ Behind(pte[m]) = Behind(old) /\ Mapped(old) \subseteq Behind(old)
      BY <1>2, <1>3, <1>4, Shapes DEF Written
    <2>2. (\E k \in Ops(m) : f \in Held(k)) <=> f \in Mapped(old) BY <1>10, <1>11
    <2>3. (\E k \in Ops(m)' : f \in Held(k)') <=> f \in Mapped(old) BY <1>10, <1>11, <2>1
    <2> QED BY <1>5, <1>3, <1>9, <2>1, <2>2, <2>3 DEF Owns
  <1>13. ASSUME NEW n \in Mms \ {m}, NEW f \in Frames PROVE Owns(n, f)' <=> Owns(n, f)
    <2>1. Ops(n)' = Ops(n) /\ h \notin Ops(n) /\ Ops(n) \subseteq Cpus
      BY <1>2, <1>3, <1>13 DEF Written, Ops
    <2>2. \A k \in Ops(n) : Held(k)' = Held(k) BY <1>2, <1>3, <2>1 DEF Written, Held
    <2> QED BY <1>5, <1>3, <2>1, <2>2 DEF Owns
  <1>14. Mapped(old) = Behind(old) \ lost
    BY <1>4, <1>3, Shapes, PageFacts
  <1>15. ASSUME NEW n \in Mms, NEW f \in Frames PROVE Owns(n, f)' <=> Owns(n, f) /\ f \notin lost
    <2>1. CASE n = m BY <1>12, <1>14, <2>1
    <2>2. CASE n # m
      <3>1. f \in lost => Owns(m, f) BY <1>12
      <3>2. Owns(n, f) /\ Owns(m, f) => n = m BY <1>4, <1>3 DEF MmInv, OwnInv
      <3> QED BY <1>13, <2>2, <3>1, <3>2
    <2> QED BY <2>1, <2>2
  <1>16. leaked' = leaked \cup lost OBVIOUS
  <1>17. \A f \in lost : Owns(m, f) BY <1>4, <1>3, <1>12
  <1> HIDE DEF lost
  <1>18. OwnInv'
    BY <1>4, <1>3, <1>15, <1>16, <1>17 DEF MmInv, OwnInv
  <1>19. ASSUME NEW g \in Cpus, tlb[g] # NoEntry PROVE tlb[g].pfn \notin lost
    <2> SUFFICES ASSUME tlb[g].pfn \in lost PROVE FALSE OBVIOUS
    <2>1. active[g] \in Mms /\ tlb[g].pfn \in Frames BY <1>19, CachedFacts
    <2>2. Cached(g) BY DEF MmInv, TlbInv
    <2>3. active[g] = m
      <3>1. Owns(active[g], tlb[g].pfn) /\ Owns(m, tlb[g].pfn) BY <1>17, <1>19, <2>2 DEF Cached
      <3> QED BY <2>1, <3>1, Unique
    <2>4. ~pte_present(old) BY DEF lost
    <2>5. ~pte_present(pte[m]) BY <1>1, <1>3, <2>4 DEF MmInv, OpInv
    <2>6. FlushComes(g, m) BY <1>19, <2>2, <2>3, <2>5 DEF Cached, Agrees
    <2>7. PICK k \in Ops(m) : op[k].at = "flush" BY <2>6 DEF FlushComes
    <2>8. k # h /\ k \in Cpus /\ Busy(k) /\ op[k].mm = m BY <1>4, <1>3, <2>7, OpsBusy DEF MmInv
    <2>9. op[h].kind = "munmap" /\ op[k].kind = "mprotect"
      BY <1>2, <1>3, <1>4, <2>4, <2>8 DEF Written
    <2> QED BY <1>1, <1>3, <2>8, <2>9 DEF MmInv, Exclusive, Overlap
  <1>20. TlbInv'
    <2>1. \A g \in Cpus : tlb[g] # NoEntry => Owns(active[g], tlb[g].pfn)'
      <3> SUFFICES ASSUME NEW g \in Cpus, tlb[g] # NoEntry PROVE Owns(active[g], tlb[g].pfn)'
        BY DEF hwVars
      <3>1. active[g] \in Mms /\ tlb[g].pfn \in Frames \ lost BY <1>19, CachedFacts
      <3>2. Owns(active[g], tlb[g].pfn) BY DEF MmInv, TlbInv, Cached
      <3>3. \A n \in Mms : \A f \in Frames \ lost : Owns(n, f) => Owns(n, f)' BY <1>15
      <3> QED BY <3>1, <3>2, <3>3 DEF hwVars
    <2> QED BY <1>1, <1>3, <2>1, EmptyPtes, WriteTlb
  <1>21. ASSUME NEW f \in Frames, Known(f) PROVE Known(f)'
    <2>1. CASE f \in dirtied \cup raced \cup leaked
      BY <1>16, <2>1, RacedFacts DEF Known
    <2>2. CASE \E n \in Mms : f \in Behind(pte[n]) /\ pte_dirty(pte[n])
      <3>1. PICK n \in Mms : f \in Behind(pte[n]) /\ pte_dirty(pte[n]) BY <2>2
      <3>2. CASE n # m BY <1>5, <1>3, <3>1, <3>2 DEF Known
      <3>3. CASE n = m
        <4>1. f = pte_pfn(old) /\ f \in Behind(old)
          BY <1>2, <1>3, <3>1, <3>3, Shapes, PageFacts DEF Written, MmInv
        <4>2. CASE ~pte_dirty(old)
          BY <1>3, <3>1, <3>3, <4>1, <4>2, RacedFacts DEF Known
        <4>3. CASE pte_dirty(old) /\ ~pte_present(old)
          BY <1>16, <4>1, <4>3 DEF Known, lost
        <4>4. CASE pte_dirty(old) /\ pte_present(old)
          <5>1. f \in Held(h)' BY <1>4, <1>3, <1>11, <4>1, <4>4, Shapes
          <5> QED BY <1>5, <1>3, <4>1, <4>4, <5>1 DEF Known, Taking
        <4> QED BY <4>2, <4>3, <4>4
      <3> QED BY <3>2, <3>3
    <2>3. CASE \E k \in Cpus : op[k].kind = "clean" /\ Taking(k) /\ f \in Held(k)
                               /\ pte_dirty(op[k].old)
      <3>1. PICK k \in Cpus : op[k].kind = "clean" /\ Taking(k) /\ f \in Held(k)
                              /\ pte_dirty(op[k].old)
        BY <2>3
      <3>2. op'[k] = op[k] BY <1>2, <1>3, <3>1 DEF Written, Taking
      <3> QED BY <3>1, <3>2 DEF Known, Taking, Held
    <2> QED BY <1>21, <2>1, <2>2, <2>3 DEF Known
  <1>22. KnownInv' BY <1>21, CachedFacts DEF MmInv, MmTypes, KnownInv, hwVars
  <1> QED BY <1>6, <1>7, <1>8, <1>18, <1>20, <1>22 DEF MmInv

LEMMA MunmapWriteKeeps == ASSUME MmInv, NEW h \in Cpus, MunmapWrite(h) PROVE MmInv'
  <1> DEFINE m == op[h].mm
             old == op[h].old
  <1>1. Busy(h) BY NoOpIdle DEF Busy, MunmapWrite
  <1>2. m \in Mms /\ Shaped(old) BY <1>1 DEF MmInv, OpInv
  <1>3. /\ pte_present(old) => IsPage(old) /\ pte_pfn(old) \in Frames
        /\ leaked' = IF pte_present(old) THEN leaked ELSE leaked \cup Behind(old)
    BY <1>2, Shapes, PageFacts DEF MunmapWrite, Behind, Mapped, Residue
  <1>4. dirtied \subseteq dirtied' /\ dirtied' \subseteq Frames
        /\ (pte_present(old) /\ pte_dirty(old) => pte_pfn(old) \in dirtied')
    BY <1>3 DEF MunmapWrite, MmInv, MmTypes
  <1>5. table' = [table EXCEPT ![m] =
              [l \in Levels |-> IF table[m][l] = "linked" THEN NotYet(l) ELSE table[m][l]]]
    BY DEF MunmapWrite
  <1>6. /\ table' \in [Mms -> [Levels -> {"none", "linked", "gathered"}]]
        /\ table'[m]["pte"] # "linked" /\ table'[m]["pmd"] # "linked"
        /\ \A n \in Mms : table[n]["pte"] # "none" => table'[n]["pte"] # "none"
        /\ \A n \in Mms \ {m} : table'[n] = table[n]
    BY <1>2, <1>5 DEF MmInv, MmTypes, Levels, NotYet
  <1> QED BY <1>3, <1>4, <1>6, TakeWrite DEF MunmapWrite

LEMMA ReclaimWriteKeeps == ASSUME MmInv, NEW h \in Cpus, ReclaimWrite(h) PROVE MmInv'
  <1>1. Busy(h) BY NoOpIdle DEF Busy, ReclaimWrite
  <1>2. Shaped(op[h].old) /\ pte_present(op[h].old) BY <1>1 DEF MmInv, OpInv, ReclaimWrite
  <1>3. pte_pfn(op[h].old) \in Frames BY <1>2, Shapes, PageFacts
  <1>4. /\ dirtied \subseteq dirtied' /\ dirtied' \subseteq Frames
        /\ pte_dirty(op[h].old) => pte_pfn(op[h].old) \in dirtied'
    BY <1>3 DEF ReclaimWrite, MmInv, MmTypes
  <1>5. table' \in [Mms -> [Levels -> {"none", "linked", "gathered"}]]
    BY DEF ReclaimWrite, MmInv, MmTypes
  <1> QED BY <1>2, <1>4, <1>5, TakeWrite DEF ReclaimWrite

LEMMA CleanWriteKeeps == ASSUME MmInv, NEW h \in Cpus, CleanWrite(h) PROVE MmInv'
  <1>1. Busy(h) BY NoOpIdle DEF Busy, CleanWrite
  <1>2. pte_present(op[h].old) BY <1>1 DEF MmInv, OpInv, CleanWrite
  <1>3. /\ table' \in [Mms -> [Levels -> {"none", "linked", "gathered"}]]
        /\ dirtied' \subseteq Frames
    BY DEF CleanWrite, MmInv, MmTypes
  <1> QED BY <1>2, <1>3, TakeWrite DEF CleanWrite

-----------------------------------------------------------------------------
\* An operation that has taken a page out ends: no hart uses the page any more.

\* What Finish leaves alone, for a page taken from the entry of m.
Left(h, m) ==
    /\ op' \in [Cpus -> Records] /\ op'[h] = NoOp /\ \A g \in Cpus \ {h} : op'[g] = op[g]
    /\ fence[h] = {} /\ pte[m] = NoPte /\ Shaped(op[h].old) /\ op[h].old \in Ptes
    /\ h \in Ops(m) /\ h \notin Ops(m)'
    /\ \A n \in Mms : Ops(n) \subseteq Cpus /\ Ops(n)' = Ops(n) \ {h}
    /\ \A k \in Ops(m) \ {h} : Held(k) = {} /\ Held(k)' = {} /\ ~Taking(k) /\ op[k].at # "write"
    /\ \A k \in Cpus \ {h} : Held(k)' = Held(k) /\ (Taking(k)' <=> Taking(k))
    /\ \A f : Owns(m, f) <=> f \in Mapped(op[h].old)
    /\ \A g \in Cpus : tlb[g] # NoEntry => active[g] # m
    /\ op[h].kind = "munmap" => \A g \in Cpus : walk[g] # "none" => active[g] # m
    /\ \A n \in Mms : \A g \in Cpus : FlushComes(g, n) => FlushComes(g, n)'

LEMMA FinishFacts ==
  ASSUME MmInv, NEW h \in Cpus, NEW m \in Mms, op[h].mm = m, Taking(h),
         fence[h] = {}, op' = [op EXCEPT ![h] = NoOp], fence' = fence
  PROVE  Left(h, m)
  <1>1. Busy(h) BY NoOpIdle DEF Busy, Taking
  <1>2. /\ op' \in [Cpus -> Records] /\ op'[h] = NoOp /\ \A g \in Cpus \ {h} : op'[g] = op[g]
        /\ op[h].old \in Ptes
    BY NoOpIdle DEF MmInv, MmTypes, Records
  <1>3. pte[m] = NoPte /\ Shaped(op[h].old) BY <1>1 DEF MmInv, OpInv
  <1>4. h \in Ops(m) /\ h \notin Ops(m)' BY <1>2, NoOpIdle DEF Ops
  <1>5. \A n \in Mms : Ops(n) \subseteq Cpus /\ Ops(n)' = Ops(n) \ {h} BY <1>2, NoOpIdle DEF Ops
  <1>6. \A k \in Cpus \ {h} : Held(k)' = Held(k) /\ (Taking(k)' <=> Taking(k))
    BY <1>2 DEF Held, Taking
  <1>7. ASSUME NEW k \in Ops(m) \ {h}
        PROVE  Held(k) = {} /\ Held(k)' = {} /\ ~Taking(k) /\ op[k].at # "write"
    <2>1. k \in Cpus /\ Busy(k) /\ op[k].mm = m BY OpsBusy DEF MmInv
    <2>2. Overlap(h, k) \/ Overlap(k, h) BY <1>1, <2>1 DEF MmInv, Exclusive
    <2>3. op[k].kind = "mprotect" /\ op[k].at # "write" BY <2>2 DEF Overlap, Taking
    <2> QED BY <1>6, <2>1, <2>3 DEF Held, Taking
  <1>8. \A f : Owns(m, f) <=> f \in Mapped(op[h].old)
    <2>1. Behind(pte[m]) = {} BY <1>3, NoPageFacts
    <2>2. Held(h) = Mapped(op[h].old) BY DEF Held, Taking
    <2> QED BY <1>4, <1>7, <2>1, <2>2 DEF Owns
  <1>9. \A g \in Cpus : tlb[g] # NoEntry => active[g] # m
    BY <1>4 DEF MmInv, TlbInv, Cached
  <1>10. op[h].kind = "munmap" => \A g \in Cpus : walk[g] # "none" => active[g] # m
    BY <1>4 DEF MmInv, TlbInv, Walking, Unmaps
  <1>11. \A n \in Mms : \A g \in Cpus : FlushComes(g, n) => FlushComes(g, n)'
    <2> SUFFICES ASSUME NEW n \in Mms, NEW g \in Cpus, FlushComes(g, n) PROVE FlushComes(g, n)'
      OBVIOUS
    <2>1. PICK k \in Ops(n) : op[k].at = "flush" /\ g \in fence[k] BY DEF FlushComes
    <2>2. k \in Cpus \ {h} BY <1>5, <2>1
    <2> QED BY <1>2, <1>5, <2>1, <2>2 DEF FlushComes
  <1> QED BY <1>2, <1>3, <1>4, <1>5, <1>6, <1>7, <1>8, <1>9, <1>10, <1>11 DEF Left

\* The operations, walks and translations after it.
LEMMA FinishOps ==
  ASSUME MmInv, NEW h \in Cpus, NEW m \in Mms, Left(h, m), fence' = fence,
         \A n \in Mms \ {m} : pte'[n] = pte[n] /\ table'[n] = table[n],
         table'[m] = table[m] \/ op[h].kind = "munmap",
         \A n \in Mms : \A f \in Frames : n # m => (Owns(n, f)' <=> Owns(n, f)),
         UNCHANGED <<task, active, hwVars>>
  PROVE  OpInv' /\ Exclusive' /\ TlbInv'
  <1>1. OpInv'
    <2> SUFFICES ASSUME NEW g \in Cpus, Busy(g)'
                 PROVE  LET q == op'[g] IN
                        /\ q.mm \in Mms /\ q.kind # "none" /\ q.at # "none"
                        /\ Shaped(q.old)
                        /\ q.kind # "munmap" => pte_present(q.old)
                        /\ q.at = "write" => pte'[q.mm].high = q.old.high
                                             /\ (pte_present(pte'[q.mm]) <=> pte_present(q.old))
                        /\ Taking(g)' => pte'[q.mm] = NoPte
                        /\ Taking(g)' /\ q.kind = "munmap" =>
                              table'[q.mm]["pte"] # "linked" /\ table'[q.mm]["pmd"] # "linked"
      BY DEF OpInv
    <2>1. g # h /\ op'[g] = op[g] /\ Busy(g) /\ (Taking(g)' <=> Taking(g)) BY DEF Left, Busy
    <2>2. CASE op[g].mm # m BY <2>1, <2>2 DEF MmInv, OpInv
    <2>3. CASE op[g].mm = m
      <3>1. g \in Ops(m) \ {h} BY <2>1, <2>3 DEF Ops
      <3>2. ~Taking(g) BY <3>1 DEF Left
      <3>3. op[g].at # "write" BY <3>1 DEF Left
      <3> QED BY <2>1, <2>3, <3>1, <3>2, <3>3 DEF MmInv, OpInv
    <2> QED BY <2>2, <2>3
  <1>2. Exclusive' BY DEF Left, MmInv, Exclusive, Busy, Overlap
  <1>3. ASSUME NEW g \in Cpus PROVE Cached(g)'
    <2> SUFFICES ASSUME tlb[g] # NoEntry
                 PROVE  /\ Agrees(g)' \/ FlushComes(g, active[g])'
                        /\ Owns(active[g], tlb[g].pfn)'
                        /\ \A k \in Ops(active[g])' : Taking(k)' => g \in fence'[k]
      BY DEF Cached, hwVars
    <2>1. active[g] \in Mms /\ tlb[g].pfn \in Frames BY CachedFacts
    <2>2. Cached(g) BY DEF MmInv, TlbInv
    <2>3. active[g] # m BY DEF Left
    <2>4. Agrees(g) => Agrees(g)' BY <2>1, <2>3 DEF Agrees, hwVars
    <2>5. FlushComes(g, active[g]) => FlushComes(g, active[g])' BY <2>1 DEF Left
    <2>6. Owns(active[g], tlb[g].pfn)' BY <2>1, <2>2, <2>3 DEF Cached, hwVars
    <2>7. \A k \in Ops(active[g])' : k \in Ops(active[g]) /\ (Taking(k)' => Taking(k))
      BY <2>1 DEF Left
    <2> QED BY <2>2, <2>4, <2>5, <2>6, <2>7 DEF Cached
  <1>4. ASSUME NEW g \in Cpus PROVE Walking(g)'
    <2> SUFFICES ASSUME walk[g] # "none" PROVE Walking(g)' BY DEF Walking, hwVars
    <2>1. active[g] \in Mms /\ Walking(g) BY CachedFacts DEF MmInv, TlbInv
    <2>2. table'[active[g]] = table[active[g]] BY <2>1 DEF Left
    <2>3. \A k \in Cpus \ {h} : Unmaps(k, g)' <=> Unmaps(k, g) BY <2>1 DEF Left, Unmaps
    <2>4. ~Unmaps(h, g)' BY <2>1 DEF Left, Unmaps
    <2>5. ~Unmaps(h, g)
      <3>1. CASE op[h].kind = "munmap" BY <3>1 DEF Left, Unmaps, Ops
      <3>2. CASE op[h].kind # "munmap" BY <3>2 DEF Unmaps
      <3> QED BY <3>1, <3>2
    <2>6. Unmapping(g)' <=> Unmapping(g) BY <2>3, <2>4, <2>5 DEF Unmapping
    <2> QED BY <2>1, <2>2, <2>3, <2>4, <2>6, WalkingKept DEF hwVars
  <1> QED BY <1>1, <1>2, <1>3, <1>4 DEF MmInv, TlbInv, hwVars

\* What is known of the other frames.
LEMMA FinishKnown ==
  ASSUME MmInv, NEW h \in Cpus, NEW m \in Mms, Left(h, m), NEW f \in Frames,
         ~Owns(m, f), Known(f), \A n \in Mms \ {m} : pte'[n] = pte[n],
         leaked' = leaked, f \in dirtied \cup raced => f \in dirtied' \cup raced'
  PROVE  Known(f)'
  <1>1. CASE f \in dirtied \cup raced \cup leaked BY <1>1 DEF Known
  <1>2. CASE \E n \in Mms : f \in Behind(pte[n]) /\ pte_dirty(pte[n])
    <2>1. PICK n \in Mms : f \in Behind(pte[n]) /\ pte_dirty(pte[n]) BY <1>2
    <2>2. n # m BY <2>1 DEF Owns
    <2> QED BY <2>1, <2>2 DEF Known
  <1>3. CASE \E k \in Cpus : op[k].kind = "clean" /\ Taking(k) /\ f \in Held(k)
                             /\ pte_dirty(op[k].old)
    <2>1. PICK k \in Cpus : op[k].kind = "clean" /\ Taking(k) /\ f \in Held(k)
                            /\ pte_dirty(op[k].old)
      BY <1>3
    <2>2. k # h BY <2>1 DEF Left, Owns
    <2>3. op'[k] = op[k] /\ Held(k)' = Held(k) BY <2>2 DEF Left
    <2> QED BY <2>1, <2>3 DEF Known, Taking
  <1> QED BY <1>1, <1>2, <1>3 DEF Known

\* munmap and reclaim give the frame back.
LEMMA FreeKeeps ==
  ASSUME MmInv, NEW h \in Cpus, NEW m \in Mms, op[h].mm = m, Taking(h),
         op[h].kind \in {"munmap", "reclaim"}, fence[h] = {},
         op' = [op EXCEPT ![h] = NoOp], fence' = fence, Free(Mapped(op[h].old)),
         NEW q \in {NoPte, SwapPte}, pte' = [pte EXCEPT ![m] = q],
         table' \in [Mms -> [Levels -> {"none", "linked", "gathered"}]],
         \A n \in Mms \ {m} : table'[n] = table[n],
         table'[m] = table[m] \/ op[h].kind = "munmap",
         UNCHANGED <<task, active, hwVars, vma, leaked, ops>>
  PROVE  MmInv'
  <1> DEFINE fs == Mapped(op[h].old)
  <1>1. Left(h, m) BY FinishFacts
  <1>2. q \in Ptes /\ Shaped(q) /\ Behind(q) = {} BY EmptyPtes, NoPageFacts DEF Shaped
  <1>3. /\ pte' \in [Mms -> Ptes] /\ pte'[m] = q
        /\ \A n \in Mms \ {m} : pte'[n] = pte[n]
    BY <1>2 DEF MmInv, MmTypes
  <1>4. MmTypes' BY <1>1, <1>3 DEF Left, MmInv, MmTypes, hwVars, Free
  <1>5. \A n \in Mms : Shaped(pte'[n]) BY <1>2, <1>3 DEF MmInv
  <1>6. ASSUME NEW n \in Mms, NEW f \in Frames PROVE Owns(n, f)' <=> Owns(n, f) /\ f \notin fs
    <2>1. CASE n = m
      <3>1. Behind(pte'[n]) = {} BY <1>2, <1>3, <2>1
      <3>2. \A k \in Ops(n)' : Held(k)' = {} BY <1>1, <2>1 DEF Left
      <3>3. Owns(n, f) <=> f \in fs BY <1>1, <2>1 DEF Left
      <3> QED BY <3>1, <3>2, <3>3 DEF Owns
    <2>2. CASE n # m
      <3>1. Ops(n)' = Ops(n) /\ h \notin Ops(n) /\ Ops(n) \subseteq Cpus BY <1>1, <2>2 DEF Left, Ops
      <3>2. \A k \in Ops(n) : Held(k)' = Held(k) BY <1>1, <3>1 DEF Left
      <3>3. Owns(n, f)' <=> Owns(n, f) BY <1>3, <2>2, <3>1, <3>2 DEF Owns
      <3>4. f \in fs => Owns(m, f) BY <1>1 DEF Left
      <3> QED BY <2>2, <3>3, <3>4, Unique
    <2> QED BY <2>1, <2>2
  <1>7. \A f \in fs : f \in Frames /\ Owns(m, f) BY <1>1, OwnedFrames DEF Left
  <1>8. used' = used \ fs BY DEF Free
  <1>9. OwnInv' BY <1>6, <1>7, <1>8 DEF MmInv, OwnInv
  <1>10. OpInv' /\ Exclusive' /\ TlbInv'
    <2>1. \A n \in Mms : \A f \in Frames : n # m => (Owns(n, f)' <=> Owns(n, f))
      BY <1>6, <1>7, Unique
    <2> QED BY <1>1, <1>3, <2>1, FinishOps
  <1>11. ASSUME NEW f \in Frames, Known(f), f \notin fs PROVE Known(f)'
    <2>1. ~Owns(m, f) BY <1>1, <1>11 DEF Left
    <2> QED BY <1>1, <1>3, <1>11, <2>1, FinishKnown DEF Free
  <1>12. ASSUME NEW f \in fs, Known(f) PROVE f \in dirtied \cup raced
    <2>1. f \in Frames /\ Owns(m, f) /\ f \notin leaked BY <1>7 DEF MmInv, OwnInv
    <2>2. ASSUME NEW n \in Mms, f \in Behind(pte[n]) PROVE FALSE
      <3>1. n = m BY <2>1, <2>2, Unique DEF Owns
      <3> QED BY <1>1, <2>2, <3>1, NoPageFacts DEF Left
    <2>3. ASSUME NEW k \in Cpus, op[k].kind = "clean", Taking(k), f \in Held(k) PROVE FALSE
      <3>1. Busy(k) BY <2>3, NoOpIdle DEF Busy
      <3>2. op[k].mm \in Mms /\ k \in Ops(op[k].mm) BY <3>1 DEF MmInv, OpInv, Ops
      <3>3. op[k].mm = m BY <2>1, <2>3, <3>2, Unique DEF Owns
      <3>4. k \in Ops(m) \ {h} BY <2>3, <3>2, <3>3
      <3> QED BY <1>1, <2>3, <3>4 DEF Left
    <2> QED BY <1>12, <2>1, <2>2, <2>3 DEF Known
  <1>13. KnownInv'
    <2>1. ASSUME NEW f \in modified' PROVE Known(f)'
      <3>1. f \in modified /\ f \notin fs \cap (dirtied \cup raced) BY <2>1 DEF Free
      <3>2. f \in Frames /\ Known(f) BY <3>1 DEF MmInv, MmTypes, KnownInv
      <3> QED BY <1>11, <1>12, <3>1, <3>2
    <2>2. ASSUME NEW g \in Cpus, tlb[g] # NoEntry, tlb[g].d PROVE Known(tlb[g].pfn)'
      <3>1. active[g] \in Mms /\ tlb[g].pfn \in Frames /\ active[g] # m
        BY <1>1, <2>2, CachedFacts DEF Left
      <3>2. Owns(active[g], tlb[g].pfn) /\ Known(tlb[g].pfn)
        BY <2>2 DEF MmInv, TlbInv, Cached, KnownInv
      <3>3. tlb[g].pfn \notin fs BY <1>7, <3>1, <3>2, Unique
      <3> QED BY <1>11, <3>1, <3>2, <3>3 DEF hwVars
    <2> QED BY <2>1, <2>2 DEF KnownInv, hwVars
  <1> QED BY <1>4, <1>5, <1>9, <1>10, <1>13 DEF MmInv

LEMMA MunmapFinishKeeps == ASSUME MmInv, NEW h \in Cpus, MunmapFinish(h) PROVE MmInv'
  <1>1. /\ op[h].kind = "munmap" /\ Taking(h) /\ fence[h] = {} /\ op' = [op EXCEPT ![h] = NoOp]
        /\ table' = [table EXCEPT ![op[h].mm] = [l \in Levels |-> "none"]]
    BY DEF MunmapFinish, Finish, Taking
  <1>2. Busy(h) BY <1>1, NoOpIdle DEF Busy
  <1>3. PICK m \in Mms : m = op[h].mm BY <1>2 DEF MmInv, OpInv
  <1>4. pte[m] = NoPte BY <1>1, <1>2, <1>3 DEF MmInv, OpInv
  <1>5. pte' = [pte EXCEPT ![m] = NoPte] BY <1>4 DEF MunmapFinish, MmInv, MmTypes
  <1>6. /\ table' \in [Mms -> [Levels -> {"none", "linked", "gathered"}]]
        /\ \A n \in Mms \ {m} : table'[n] = table[n]
    BY <1>1, <1>3 DEF MmInv, MmTypes
  <1> QED BY <1>1, <1>3, <1>5, <1>6, FreeKeeps DEF MunmapFinish

LEMMA ReclaimFinishKeeps == ASSUME MmInv, NEW h \in Cpus, ReclaimFinish(h) PROVE MmInv'
  <1>1. op[h].kind = "reclaim" /\ Taking(h) /\ fence[h] = {} /\ op' = [op EXCEPT ![h] = NoOp]
    BY DEF ReclaimFinish, Finish, Taking
  <1>2. Busy(h) BY <1>1, NoOpIdle DEF Busy
  <1>3. PICK m \in Mms : m = op[h].mm BY <1>2 DEF MmInv, OpInv
  <1>4. pte[m] = NoPte BY <1>1, <1>2, <1>3 DEF MmInv, OpInv
  <1>5. Mapped(op[h].old) = {pte_pfn(op[h].old)} BY <1>1, <1>2, Shapes DEF MmInv, OpInv
  <1>6. \E q \in {NoPte, SwapPte} : pte' = [pte EXCEPT ![m] = q]
    <2>1. CASE m \in Shared BY <1>3, <1>4, <2>1 DEF ReclaimFinish, MmInv, MmTypes
    <2>2. CASE m \notin Shared BY <1>3, <2>2 DEF ReclaimFinish, SwapPte
    <2> QED BY <2>1, <2>2
  <1>7. table' \in [Mms -> [Levels -> {"none", "linked", "gathered"}]]
    BY DEF ReclaimFinish, MmInv, MmTypes
  <1> QED BY ZenonT(60), <1>1, <1>3, <1>5, <1>6, <1>7, FreeKeeps DEF ReclaimFinish

LEMMA CleanFinishKeeps == ASSUME MmInv, NEW h \in Cpus, CleanFinish(h) PROVE MmInv'
  <1> DEFINE old == op[h].old
             q == CleanEntry(old)
             fs == {pte_pfn(old)}
  <1>1. op[h].kind = "clean" /\ Taking(h) /\ fence[h] = {} /\ op' = [op EXCEPT ![h] = NoOp]
    BY DEF CleanFinish, Finish, Taking
  <1>2. Busy(h) BY <1>1, NoOpIdle DEF Busy
  <1>3. PICK m \in Mms : m = op[h].mm BY <1>2 DEF MmInv, OpInv
  <1>4. Left(h, m)
    <2>1. fence' = fence BY DEF CleanFinish
    <2> QED BY <1>1, <1>3, <2>1, FinishFacts
  <1>5. /\ old \in Ptes /\ Shaped(old) /\ IsPage(old) /\ Mapped(old) = fs
        /\ Behind(old) = fs /\ fs \subseteq Frames
    BY <1>1, <1>2, <1>4, Shapes, PageFacts DEF MmInv, OpInv, Left
  <1>6. q \in Ptes /\ q.high = old.high
    <2>1. pte_wrprotect(old) \in Ptes /\ pte_wrprotect(old).high = old.high
      BY <1>5, HelperFacts DEF pte_wrprotect
    <2> QED BY <2>1, HelperFacts DEF CleanEntry, pte_mkclean
  <1>7. Shaped(q) /\ Behind(q) = fs
    <2>1. IsPage(q) BY <1>5, <1>6 DEF IsPage
    <2> QED BY <1>5, <1>6, <2>1, HighDecides DEF Shaped
  <1> HIDE DEF q
  <1>8. /\ pte' \in [Mms -> Ptes] /\ pte'[m] = q
        /\ \A n \in Mms \ {m} : pte'[n] = pte[n]
    BY <1>3, <1>6 DEF CleanFinish, MmInv, MmTypes, q
  <1>9. MmTypes' BY <1>4, <1>8 DEF CleanFinish, Left, MmInv, MmTypes, hwVars
  <1>10. \A n \in Mms : Shaped(pte'[n]) BY <1>7, <1>8 DEF MmInv
  <1>11. ASSUME NEW n \in Mms, NEW f \in Frames PROVE Owns(n, f)' <=> Owns(n, f)
    <2>1. CASE n = m
      <3>1. Behind(pte'[n]) = fs BY <1>7, <1>8, <2>1
      <3>2. \A k \in Ops(n)' : Held(k)' = {} BY <1>4, <2>1 DEF Left
      <3>3. Owns(n, f) <=> f \in fs BY <1>4, <1>5, <2>1 DEF Left
      <3> QED BY <3>1, <3>2, <3>3 DEF Owns
    <2>2. CASE n # m
      <3>1. Ops(n)' = Ops(n) /\ h \notin Ops(n) /\ Ops(n) \subseteq Cpus
        BY <1>3, <1>4, <2>2 DEF Left, Ops
      <3>2. \A k \in Ops(n) : Held(k)' = Held(k) BY <1>4, <3>1 DEF Left
      <3> QED BY <1>8, <2>2, <3>1, <3>2 DEF Owns
    <2> QED BY <2>1, <2>2
  <1>12. OwnInv' BY <1>11 DEF CleanFinish, MmInv, OwnInv
  <1>13. OpInv' /\ Exclusive' /\ TlbInv'
    <2>1. fence' = fence /\ table' = table BY DEF CleanFinish
    <2>2. UNCHANGED <<task, active, hwVars>> BY DEF CleanFinish
    <2> QED BY <1>4, <1>8, <1>11, <2>1, <2>2, FinishOps
  <1>14. ASSUME NEW f \in Frames, Known(f), f \notin fs PROVE Known(f)'
    <2>1. ~Owns(m, f) BY <1>4, <1>5, <1>14 DEF Left
    <2> QED BY <1>4, <1>8, <1>14, <2>1, FinishKnown DEF CleanFinish
  <1>15. KnownInv'
    <2>1. ASSUME NEW f \in modified' PROVE Known(f)'
      <3>1. f \in modified /\ f \notin fs BY <2>1 DEF CleanFinish
      <3>2. f \in Frames /\ Known(f) BY <3>1 DEF MmInv, MmTypes, KnownInv
      <3> QED BY <1>14, <3>1, <3>2
    <2>2. ASSUME NEW g \in Cpus, tlb[g] # NoEntry, tlb[g].d PROVE Known(tlb[g].pfn)'
      <3>1. active[g] \in Mms /\ tlb[g].pfn \in Frames /\ active[g] # m
        BY <1>4, <2>2, CachedFacts DEF Left
      <3>2. Owns(active[g], tlb[g].pfn) /\ Known(tlb[g].pfn)
        BY <2>2 DEF MmInv, TlbInv, Cached, KnownInv
      <3>3. \A f \in fs : Owns(m, f) BY <1>4, <1>5 DEF Left
      <3>4. tlb[g].pfn \notin fs BY <3>1, <3>2, <3>3, Unique
      <3> QED BY <1>14, <3>1, <3>2, <3>4 DEF CleanFinish, hwVars
    <2>3. tlb' = tlb BY DEF CleanFinish, hwVars
    <2> QED BY <2>1, <2>2, <2>3 DEF KnownInv
  <1> QED BY <1>9, <1>10, <1>12, <1>13, <1>15 DEF MmInv

-----------------------------------------------------------------------------
\* The hardware, and the flushes.

\* A step that changes what harts have cached or are walking, and no more.
LEMMA CacheKeeps ==
  ASSUME MmInv, MmTypes',
         UNCHANGED <<vma, table, pte, op, frVars, ops>>,
         TlbInv', \A g \in Cpus : tlb'[g] = tlb[g] \/ tlb'[g] = NoEntry
  PROVE  MmInv'
  <1>1. OpInv' /\ Exclusive' /\ \A m \in Mms : Shaped(pte'[m])
    BY DEF MmInv, OpInv, Exclusive, Busy, Taking, Overlap
  <1>2. OwnInv' BY DEF MmInv, OwnInv, Owns, Ops, Held, frVars
  <1>3. \A f : Known(f)' <=> Known(f) BY DEF Known, Taking, Held, frVars
  <1>4. KnownInv' BY <1>3 DEF MmInv, KnownInv, frVars
  <1> QED BY <1>1, <1>2, <1>4 DEF MmInv

LEMMA WalkPmdKeeps == ASSUME MmInv, NEW h \in Cpus, WalkPmd(h) PROVE MmInv'
  <1> USE DEF MmInv, WalkPmd
  <1>1. MmTypes' BY DEF MmTypes, frVars, Levels
  <1>2. walk'[h] = "pmd" /\ \A g \in Cpus \ {h} : walk'[g] = walk[g] BY DEF MmTypes
  <1>3. \A g \in Cpus : ~Unmaps(g, h) BY CachedFacts DEF Unmaps, Ops, OpInv, Busy, Taking, NoOp
  <1>4. Walking(h)'
    <2>1. \A g \in Cpus : ~Unmaps(g, h)' BY <1>3 DEF Unmaps, Ops, Taking
    <2> QED BY <1>2, <2>1 DEF Walking
  <1>5. \A g \in Cpus \ {h} : Walking(g)'
    BY <1>2 DEF TlbInv, Walking, Unmapping, Unmaps, Ops, Taking
  <1>6. TlbInv'
    BY <1>2, <1>4, <1>5 DEF TlbInv, Cached, Agrees, FlushComes, Ops, Owns, Held, Taking
  <1> QED BY <1>1, <1>6, CacheKeeps

LEMMA WalkTableKeeps == ASSUME MmInv, NEW h \in Cpus, WalkTable(h) PROVE MmInv'
  <1> USE DEF MmInv, WalkTable
  <1>1. MmTypes' BY DEF MmTypes, frVars, Levels
  <1>2. /\ \A g \in Cpus \ {h} : walk'[g] = walk[g]
        /\ walk'[h] = "pte" => table[active[h]]["pte"] = "linked"
        /\ active[h] \in Mms
    BY CachedFacts DEF MmTypes
  <1>3. /\ Walking(h) /\ walk[h] = "pmd"
        /\ walk'[h] = "stray" => table[active[h]]["pmd"] # "linked"
        /\ walk'[h] \in {"pte", "none", "stray"}
    BY DEF TlbInv, MmTypes
  <1>6. \A g, k \in Cpus : Unmaps(k, g)' <=> Unmaps(k, g) BY DEF Unmaps, Ops, Taking
  <1>7. \A g \in Cpus : Unmapping(g)' <=> Unmapping(g) BY <1>6 DEF Unmapping
  <1>8. Walking(h)' BY <1>2, <1>3, <1>6, <1>7 DEF Walking
  <1>9. ASSUME NEW g \in Cpus \ {h} PROVE Walking(g)'
    BY <1>2, <1>6, <1>7, WalkingKept DEF TlbInv
  <1>4. \A g \in Cpus : Walking(g)' BY <1>8, <1>9
  <1>5. TlbInv'
    BY <1>2, <1>4 DEF TlbInv, Cached, Agrees, FlushComes, Ops, Owns, Held, Taking
  <1> QED BY <1>1, <1>5, CacheKeeps

LEMMA EvictKeeps == ASSUME MmInv, NEW h \in Cpus, Evict(h) PROVE MmInv'
  <1> USE DEF MmInv, Evict
  <1>1. MmTypes' BY DEF MmTypes, frVars, Entries, NoEntry
  <1>2. \A g \in Cpus : tlb'[g] = tlb[g] \/ tlb'[g] = NoEntry BY DEF MmTypes
  <1>3. TlbInv' BY <1>2 DEF TlbInv, Cached, Agrees, FlushComes, Ops, Owns, Held, Taking, Walking, Unmapping, Unmaps
  <1> QED BY <1>1, <1>2, <1>3, CacheKeeps

LEMMA SwitchMmKeeps ==
  ASSUME MmInv, NEW h \in Cpus, NEW m \in Mms \cup {NoMm}, SwitchMm(h, m)
  PROVE  MmInv'
  <1> USE DEF MmInv, SwitchMm
  <1>1. MmTypes'
    <2>1. /\ tlb' \in [Cpus -> Entries] /\ walk' \in [Cpus -> Levels \cup {"none", "stray"}]
          /\ active' \in [Cpus -> Mms \cup {NoMm}]
      <3>1. NoEntry \in Entries BY DEF NoEntry, Entries
      <3>2. CASE m # NoMm /\ NeedsSwitch(h, m)
        <4>1. /\ tlb' = [tlb EXCEPT ![h] = NoEntry] /\ walk' = [walk EXCEPT ![h] = "none"]
              /\ active' = [active EXCEPT ![h] = m]
          BY <3>2 DEF Flushed
        <4>2. tlb' \in [Cpus -> Entries] BY <3>1, <4>1 DEF MmTypes
        <4>3. walk' \in [Cpus -> Levels \cup {"none", "stray"}] BY <4>1 DEF MmTypes
        <4> QED BY <4>1, <4>2, <4>3 DEF MmTypes
      <3>3. CASE ~(m # NoMm /\ NeedsSwitch(h, m)) BY <3>3 DEF MmTypes, hwVars
      <3> QED BY <3>2, <3>3
    <2> QED BY <2>1 DEF MmTypes, frVars
  <1>2. /\ \A g \in Cpus \ {h} : task'[g] = task[g]
        /\ task'[h] = m
    BY DEF MmTypes
  <1>3. \A g \in Cpus : \/ active'[g] = active[g] /\ tlb'[g] = tlb[g] /\ walk'[g] = walk[g]
                        \/ g = h /\ active'[g] = m /\ m \in Mms
                           /\ tlb'[g] = NoEntry /\ walk'[g] = "none"
    BY DEF MmTypes, Flushed, hwVars
  <1>4. m # NoMm => active'[h] = m BY DEF NeedsSwitch, MmTypes
  <1>5. \A g \in Cpus : task'[g] \in {active'[g], NoMm} BY <1>2, <1>3, <1>4 DEF TlbInv
  <1>6. TlbInv'
    BY <1>3, <1>5, NoOpIdle DEF TlbInv, Cached, Agrees, FlushComes, Ops, Owns, Held, Taking, Walking, Unmapping, Unmaps
  <1> QED BY <1>1, <1>3, <1>6, CacheKeeps

LEMMA RemoteSfenceKeeps ==
  ASSUME MmInv, NEW h \in Cpus, NEW g \in Cpus, RemoteSfence(h, g)
  PROVE  MmInv'
  <1> USE DEF MmInv, RemoteSfence
  <1>1. MmTypes' BY DEF MmTypes, frVars, Entries, NoEntry, Flushed
  <1>2. /\ \A k \in Cpus \ {g} : tlb'[k] = tlb[k] /\ walk'[k] = walk[k]
        /\ tlb'[g] = NoEntry /\ walk'[g] = "none"
        /\ \A k \in Cpus : \A i \in Cpus \ {g} : i \in fence'[k] <=> i \in fence[k]
    BY DEF MmTypes, Flushed
  <1>3. \A n : Ops(n) \subseteq Cpus BY DEF Ops
  <1>4. TlbInv'
    BY <1>2, <1>3 DEF TlbInv, Cached, Agrees, FlushComes, Ops, Owns, Held, Taking, Walking, Unmapping, Unmaps
  <1> QED BY <1>1, <1>2, <1>4, CacheKeeps

LEMMA StoreKeeps == ASSUME MmInv, NEW h \in Cpus, Store(h) PROVE MmInv'
  <1> USE DEF MmInv, Store
  <1>1. tlb[h] # NoEntry /\ tlb[h].d BY DEF NoEntry
  <1>2. tlb[h].pfn \in Frames /\ Known(tlb[h].pfn) BY <1>1, CachedFacts DEF KnownInv
  <1>3. MmTypes' BY <1>2 DEF MmTypes, hwVars
  <1>4. OpInv' /\ Exclusive' /\ \A m \in Mms : Shaped(pte'[m])
    BY DEF OpInv, Exclusive, Busy, Taking, Overlap
  <1>5. OwnInv' BY DEF OwnInv, Owns, Ops, Held
  <1>6. TlbInv'
    BY DEF TlbInv, Cached, Agrees, FlushComes, Ops, Owns, Held, Taking, Walking, Unmapping, Unmaps, hwVars
  <1>7. \A f : Known(f)' <=> Known(f) BY DEF Known, Taking, Held
  <1>8. KnownInv' BY <1>2, <1>7 DEF KnownInv, hwVars
  <1> QED BY <1>3, <1>4, <1>5, <1>6, <1>8

\* The walker reads a last-level entry, and may set its accessed and dirty bits.
LEMMA WalkPteKeeps ==
  ASSUME MmInv, NEW h \in Cpus, NEW store \in BOOLEAN, WalkPte(h, store)
  PROVE  MmInv'
  <1>1. PICK m \in Mms : m = active[h] BY CachedFacts DEF WalkPte
  <1> DEFINE p == pte[m]
  <1>2. p \in Ptes /\ Shaped(p) BY DEF MmInv, MmTypes
  <1>3. PICK f : f = pte_pfn(p) OBVIOUS
  <1>4. /\ walk' = [walk EXCEPT ![h] = "none"] /\ walk[h] = "pte"
        /\ UNCHANGED <<task, active, vma, table, op, fence, used, dirtied, raced, leaked, ops>>
    BY DEF WalkPte
  <1>5. ASSUME UNCHANGED <<pte, tlb, modified>> PROVE MmInv'
    <2> USE DEF MmInv
    <2>1. MmTypes' BY <1>4, <1>5 DEF MmTypes, Levels
    <2>2. \A g \in Cpus : walk'[g] = walk[g] \/ walk'[g] = "none" BY <1>4 DEF MmTypes
    <2>3. TlbInv'
      BY <1>4, <1>5, <2>2 DEF TlbInv, Cached, Agrees, FlushComes, Ops, Owns, Held, Taking, Walking, Unmapping, Unmaps
    <2> QED BY <1>4, <1>5, <2>1, <2>3, CacheKeeps DEF frVars
  <1>6. ASSUME pte_present(p), store => pte_write(p),
               pte' = [pte EXCEPT ![m].low =
                    @ \cup {ACCESSED} \cup (IF store THEN {DIRTY} ELSE {})],
               tlb' = [tlb EXCEPT ![h] =
                    [pfn |-> pte_pfn(p), w |-> pte_write(p), d |-> pte_dirty(pte'[m])]],
               modified' = IF store THEN modified \cup {pte_pfn(p)} ELSE modified
        PROVE  MmInv'
    <2> DEFINE q == [p EXCEPT !.low = @ \cup {ACCESSED} \cup (IF store THEN {DIRTY} ELSE {})]
               e == [pfn |-> pte_pfn(p), w |-> pte_write(p), d |-> pte_dirty(q)]
    <2>1. /\ q \in Ptes /\ q.high = p.high /\ pte_present(q) /\ (pte_write(q) <=> pte_write(p))
          /\ pte_dirty(p) => pte_dirty(q)
          /\ store => pte_dirty(q)
      BY <1>2, <1>6 DEF Ptes, pte_present, pte_write, pte_dirty
    <2>2. IsPage(p) /\ pte_pfn(p) \in Frames /\ Behind(p) = {pte_pfn(p)}
      BY <1>2, <1>6, Shapes, PageFacts
    <2>3. Shaped(q) /\ pte_pfn(q) = pte_pfn(p) /\ Behind(q) = Behind(p)
      <3>1. IsPage(q) BY <2>1, <2>2 DEF IsPage
      <3> QED BY <1>2, <2>1, <3>1, HighDecides DEF Shaped
    <2>4. pte' = [pte EXCEPT ![m] = q] BY <1>6 DEF MmInv, MmTypes
    <2> HIDE DEF q
    <2>5. pte' \in [Mms -> Ptes] /\ pte'[m] = q /\ \A n \in Mms \ {m} : pte'[n] = pte[n]
      BY <2>1, <2>4 DEF MmInv, MmTypes
    <2>6. /\ tlb' \in [Cpus -> Entries] /\ tlb'[h] = e
          /\ \A g \in Cpus \ {h} : tlb'[g] = tlb[g]
      <3>1. tlb' = [tlb EXCEPT ![h] = e] BY <1>6, <2>5
      <3>2. e \in Entries BY <2>2 DEF Entries, pte_write, pte_dirty
      <3> QED BY <3>1, <3>2 DEF MmInv, MmTypes
    <2>7. e.pfn = f /\ (e.w <=> pte_write(p)) /\ (e.d <=> pte_dirty(q)) BY <1>3
    <2> HIDE DEF e
    <2>8. MmTypes'
      <3>1. modified' \subseteq Frames BY <1>6, <2>2 DEF MmInv, MmTypes
      <3>2. walk' \in [Cpus -> Levels \cup {"none", "stray"}] BY <1>4 DEF MmInv, MmTypes
      <3> QED BY <1>4, <2>5, <2>6, <3>1, <3>2 DEF MmInv, MmTypes
    <2>9. \A n \in Mms : Shaped(pte'[n]) /\ Behind(pte'[n]) = Behind(pte[n])
      BY <2>3, <2>5 DEF MmInv
    <2>10. \A k \in Ops(m) : ~Taking(k)
      <3> SUFFICES ASSUME NEW k \in Ops(m), Taking(k) PROVE FALSE OBVIOUS
      <3>1. pte[m] = NoPte BY OpsBusy DEF MmInv, OpInv
      <3> QED BY <1>6, <3>1, NoPageFacts
    <2>11. OpInv'
      <3> SUFFICES ASSUME NEW g \in Cpus, Busy(g)
                   PROVE  LET o == op[g] IN
                          /\ o.mm \in Mms /\ o.kind # "none" /\ o.at # "none"
                          /\ Shaped(o.old)
                          /\ o.kind # "munmap" => pte_present(o.old)
                          /\ o.at = "write" => pte'[o.mm].high = o.old.high
                                               /\ (pte_present(pte'[o.mm]) <=> pte_present(o.old))
                          /\ Taking(g) => pte'[o.mm] = NoPte
                          /\ Taking(g) /\ o.kind = "munmap" =>
                                table[o.mm]["pte"] # "linked" /\ table[o.mm]["pmd"] # "linked"
        BY <1>4 DEF OpInv, Busy, Taking
      <3>1. CASE op[g].mm = m
        <4>1. g \in Ops(m) /\ ~Taking(g) BY <2>10, <3>1 DEF Ops
        <4> QED BY <1>6, <2>1, <2>5, <3>1, <4>1 DEF MmInv, OpInv
      <3>2. CASE op[g].mm # m BY <2>5, <3>2 DEF MmInv, OpInv
      <3> QED BY <3>1, <3>2
    <2>12. Exclusive' BY <1>4 DEF MmInv, Exclusive, Busy, Overlap
    <2>13. \A n \in Mms : \A k : Owns(n, k)' <=> Owns(n, k)
      BY <1>4, <2>9 DEF Owns, Ops, Held
    <2>14. OwnInv' BY <1>4, <2>13 DEF MmInv, OwnInv
    <2>15. ASSUME NEW g \in Cpus PROVE Cached(g)'
      <3> SUFFICES ASSUME tlb'[g] # NoEntry
                   PROVE  /\ Agrees(g)' \/ FlushComes(g, active[g])'
                          /\ Owns(active[g], tlb[g].pfn)'
                          /\ \A k \in Ops(active[g])' : Taking(k)' => g \in fence'[k]
        BY DEF Cached
      <3>1. /\ FlushComes(g, active[g])' <=> FlushComes(g, active[g])
            /\ Ops(active[g])' = Ops(active[g])
            /\ \A k \in Cpus : Taking(k)' <=> Taking(k)
        BY <1>4 DEF FlushComes, Ops, Taking
      <3>2. Ops(active[g]) \subseteq Cpus BY DEF Ops
      <3>3. CASE g = h
        <4>1. Agrees(g)' BY <1>1, <1>4, <1>3, <2>1, <2>3, <2>5, <2>6, <2>7, <3>3 DEF Agrees
        <4>2. Owns(m, f)' BY <1>3, <2>2, <2>13 DEF Owns
        <4>3. Owns(active[g], tlb[g].pfn)'
          <5>1. active'[g] = m /\ tlb'[g].pfn = f BY <1>1, <1>4, <2>6, <2>7, <3>3
          <5> QED BY <4>2, <5>1
        <4> QED BY <1>1, <1>4, <2>10, <3>1, <3>2, <3>3, <4>1, <4>3
      <3>4. CASE g # h
        <4>1. tlb'[g] = tlb[g] /\ active[g] \in Mms BY <2>6, <3>4, CachedFacts
        <4>2. Cached(g) BY DEF MmInv, TlbInv
        <4>3. Agrees(g) => Agrees(g)'
          BY <1>4, <2>1, <2>3, <2>5, <4>1 DEF Agrees
        <4>4. Owns(active[g], tlb[g].pfn)'
          <5>1. Owns(active[g], tlb[g].pfn) BY <4>1, <4>2 DEF Cached
          <5>2. \A n \in Mms : \A i : Owns(n, i) => Owns(n, i)' BY <2>13
          <5> QED BY <1>4, <4>1, <5>1, <5>2
        <4> QED BY <1>4, <3>1, <3>2, <4>1, <4>2, <4>3, <4>4 DEF Cached
      <3> QED BY <3>3, <3>4
    <2>16. \A g \in Cpus : Walking(g)'
      <3>1. \A g \in Cpus : walk'[g] = "pte" => walk[g] = "pte" BY <1>4 DEF MmInv, MmTypes
      <3> QED BY <1>4, <3>1 DEF MmInv, TlbInv, Walking, Unmapping, Unmaps, Ops, Taking
    <2>17. TlbInv'
      <3>1. \A g \in Cpus : active[g] = NoMm => g # h BY <1>1, NoOpIdle
      <3>2. \A g \in Cpus : walk'[g] = walk[g] \/ walk'[g] = "none" BY <1>4 DEF MmInv, MmTypes
      <3> QED BY <1>4, <2>6, <2>15, <2>16, <3>1, <3>2 DEF MmInv, TlbInv
    <2>18. ASSUME NEW i, Known(i) PROVE Known(i)'
      BY <1>4, <2>1, <2>5, <2>9, <2>18 DEF Known, Taking, Held
    <2>19. KnownInv'
      <3>1. ASSUME pte_dirty(q) PROVE Known(f)' BY <1>3, <2>2, <2>5, <2>9, <3>1 DEF Known
      <3>2. ASSUME NEW i \in modified' PROVE Known(i)'
        <4>1. CASE i \in modified
          <5>1. Known(i) BY <4>1 DEF MmInv, KnownInv
          <5> QED BY <2>18, <5>1
        <4>2. CASE i \notin modified
          <5>1. store /\ i = f BY <1>6, <1>3, <3>2, <4>2
          <5> QED BY <2>1, <3>1, <5>1
        <4> QED BY <4>1, <4>2
      <3>3. ASSUME NEW g \in Cpus, tlb'[g] # NoEntry, tlb'[g].d PROVE Known(tlb[g].pfn)'
        <4>1. CASE g = h
          <5>1. tlb'[g].pfn = f /\ pte_dirty(q) BY <2>6, <2>7, <3>3, <4>1
          <5> QED BY <3>1, <5>1
        <4>2. CASE g # h
          <5>1. tlb'[g] = tlb[g] BY <2>6, <4>2
          <5>2. Known(tlb[g].pfn) BY <3>3, <5>1 DEF MmInv, KnownInv
          <5>3. \A i : Known(i) => Known(i)' BY <2>18
          <5> QED BY <5>1, <5>2, <5>3
        <4> QED BY <4>1, <4>2
      <3> QED BY <3>2, <3>3 DEF KnownInv
    <2> QED BY <2>8, <2>9, <2>11, <2>12, <2>14, <2>17, <2>19 DEF MmInv
  <1> QED BY <1>1, <1>5, <1>6 DEF WalkPte

-----------------------------------------------------------------------------
\* A fault maps a frame that was free.

LEMMA FaultMapKeeps ==
  ASSUME MmInv, NEW h \in Cpus, NEW m \in Mms, NEW w \in BOOLEAN, FaultMap(h, m, w)
  PROVE  MmInv'
  <1>1. PICK f \in Frames \ used :
          /\ pte' = [pte EXCEPT ![m] = IF w THEN Writable(m, pfn_pte(f, PageProt(m)))
                                       ELSE pfn_pte(f, PageProt(m))]
          /\ used' = used \cup {f}
    BY DEF FaultMap
  <1> DEFINE q == IF w THEN Writable(m, pfn_pte(f, PageProt(m))) ELSE pfn_pte(f, PageProt(m))
  <1>2. q \in Ptes /\ q.high = 8 * f
    <2> DEFINE new == pfn_pte(f, PageProt(m))
    <2>1. PageProt(m) \in SUBSET (0..6)
      BY DEF PageProt, Protection, PAGE_NONE, PAGE_READ, PAGE_WRITE, PAGE_EXEC, PAGE_WRITE_EXEC,
             BASE, USER_RO, USER_RW, USER_RX, USER_RWX
    <2>2. new \in Ptes /\ new.high = 8 * f BY <2>1 DEF pfn_pte, Pte, Ptes
    <2> HIDE DEF new
    <2>3. pte_mkdirty(new) \in Ptes /\ pte_mkdirty(new).high = 8 * f
      BY <2>2, HelperFacts DEF pte_mkdirty
    <2>4. Writable(m, new) \in Ptes /\ Writable(m, new).high = 8 * f
      BY <2>3, HelperFacts DEF Writable, pte_mkwrite
    <2> QED BY <2>2, <2>4 DEF new
  <1>3. pte' = [pte EXCEPT ![m] = q] BY <1>1
  <1> HIDE DEF q
  <1>4. /\ pte' \in [Mms -> Ptes] /\ pte'[m] = q
        /\ \A n \in Mms \ {m} : pte'[n] = pte[n]
    BY <1>2, <1>3 DEF MmInv, MmTypes
  <1>5. IsPage(q) /\ Shaped(q) /\ Behind(q) = {f}
    <2>1. IsPage(q) BY <1>2 DEF IsPage
    <2>2. q.high = 8 * pte_pfn(q) /\ pte_pfn(q) \in Frames /\ Behind(q) = {pte_pfn(q)}
      BY <2>1, PageFacts
    <2>3. pte_pfn(q) = f
      <3>1. \A i, j \in Nat : 8 * i = 8 * j => i = j OBVIOUS
      <3>2. f \in Nat /\ pte_pfn(q) \in Nat BY <2>2
      <3> QED BY <1>2, <2>2, <3>1, <3>2
    <2> QED BY <2>1, <2>2, <2>3 DEF Shaped
  <1>6. /\ UNCHANGED <<task, active, hwVars, vma, op, fence, dirtied, modified, raced, leaked>>
        /\ ops' = ops + 1 /\ ops < MaxOps
        /\ table' = [table EXCEPT ![m] = [l \in Levels |-> "linked"]]
    BY DEF FaultMap
  <1>7. MmTypes' BY <1>1, <1>4, <1>6 DEF MmInv, MmTypes, hwVars
  <1>8. \A n \in Mms : Shaped(pte'[n]) BY <1>4, <1>5 DEF MmInv
  \* Nobody is in an operation on m, and nothing was behind its entry.
  <1>9. Ops(m) = {}
    <2> SUFFICES ASSUME NEW k \in Ops(m) PROVE FALSE OBVIOUS
    <2>1. k \in Cpus /\ Busy(k) /\ op[k].mm = m BY OpsBusy DEF MmInv
    <2>2. op[k].kind \notin {"mprotect", "munmap", "fault", "reclaim", "clean", "age"}
      BY DEF FaultMap, MayFault, SemWritten, PtlTaken
    <2> QED BY <2>1, <2>2 DEF MmInv, MmTypes, Records, Kinds, OpInv
  <1>10. Behind(pte[m]) = {} /\ ~pte_present(pte[m]) /\ ~pte_dirty(pte[m])
    <2>1. ~IsPage(pte[m]) BY PageFacts DEF FaultMap, pte_none, Behind, Residue, Mapped, IsSwap
    <2> QED BY <2>1, NoPageFacts DEF MmInv, Shaped
  <1>11. \A g : ~Owns(m, g) BY <1>9, <1>10 DEF Owns
  <1>12. OpInv' /\ Exclusive'
    <2>1. \A k \in Cpus : op[k].mm # m BY <1>9 DEF Ops
    <2>2. \A n \in Mms \ {m} : table'[n] = table[n] BY <1>6 DEF MmInv, MmTypes
    <2> QED BY <1>4, <1>6, <2>1, <2>2 DEF MmInv, OpInv, Exclusive, Busy, Taking, Overlap
  <1>13. /\ \A g : Owns(m, g)' <=> g = f
         /\ \A n \in Mms \ {m} : \A g : Owns(n, g)' <=> Owns(n, g)
    BY <1>4, <1>5, <1>6, <1>9 DEF Owns, Ops, Held
  <1>14. OwnInv' BY <1>1, <1>6, <1>11, <1>13 DEF MmInv, OwnInv
  <1>15. \A g \in Cpus : tlb[g] # NoEntry => active[g] \in Mms \ {m}
    BY <1>11, CachedFacts DEF MmInv, TlbInv, Cached
  <1>16. ASSUME NEW g \in Cpus PROVE Cached(g)'
    <2> SUFFICES ASSUME tlb[g] # NoEntry
                 PROVE  /\ Agrees(g)' \/ FlushComes(g, active[g])
                        /\ Owns(active[g], tlb[g].pfn)'
                        /\ \A k \in Ops(active[g]) : Taking(k) => g \in fence[k]
      BY <1>6 DEF Cached, FlushComes, Ops, Taking, hwVars
    <2>1. active[g] \in Mms \ {m} BY <1>15
    <2>2. Cached(g) BY DEF MmInv, TlbInv
    <2>3. Agrees(g) => Agrees(g)' BY <1>4, <1>6, <2>1 DEF Agrees, hwVars
    <2>4. Owns(active[g], tlb[g].pfn)' BY <1>6, <1>13, <2>1, <2>2 DEF Cached, hwVars
    <2> QED BY <2>2, <2>3, <2>4 DEF Cached
  <1>17. ASSUME NEW g \in Cpus PROVE Walking(g)'
    <2>1. \A n \in Mms : /\ table[n]["pte"] # "none" => table'[n]["pte"] # "none"
                         /\ table[n]["pmd"] = "linked" => table'[n]["pmd"] = "linked"
      BY <1>6 DEF MmInv, MmTypes, Levels
    <2> SUFFICES ASSUME walk[g] # "none" PROVE Walking(g)' BY <1>6 DEF Walking, hwVars
    <2>2. active[g] \in Mms /\ Walking(g) BY CachedFacts DEF MmInv, TlbInv
    <2>3. \A k \in Cpus : Unmaps(k, g)' <=> Unmaps(k, g)
      BY <1>6 DEF Unmaps, Ops, Taking, hwVars
    <2>4. Unmapping(g)' <=> Unmapping(g) BY <1>6, <2>3 DEF Unmapping
    <2>5. active' = active /\ walk' = walk /\ fence' = fence BY <1>6 DEF hwVars
    <2>6. /\ table[active[g]]["pte"] # "none" => table'[active[g]]["pte"] # "none"
          /\ table[active[g]]["pmd"] = "linked" => table'[active[g]]["pmd"] = "linked"
      BY <2>1, <2>2
    <2> QED BY <2>2, <2>3, <2>4, <2>5, <2>6, WalkingKept
  <1>18. TlbInv' BY <1>6, <1>16, <1>17 DEF MmInv, TlbInv, hwVars
  <1>19. ASSUME NEW g, Known(g) PROVE Known(g)'
    BY <1>4, <1>6, <1>10, <1>19 DEF Known, Taking, Held
  <1>20. KnownInv' BY <1>6, <1>19 DEF MmInv, KnownInv, hwVars
  <1> QED BY <1>7, <1>8, <1>12, <1>14, <1>18, <1>20 DEF MmInv

-----------------------------------------------------------------------------
\* The whole machine.

IInv == BootInv /\ MmInv

LEMMA BootNextKeeps == ASSUME BootInv, BootNext PROVE BootInv'
  <1>1. PICK h \in Harts : HartNext(h) \/ SoftwareInterrupt(h) BY DEF BootNext
  <1>2. ASSUME BootHartNext PROVE BootInv'
    BY <1>2, BootHartKeeps, SetupSmpKeeps, CpuUpKeeps, CpuIsUpKeeps, AllocDriverKeeps,
       RegisterDriverKeeps, RequestIrqKeeps, PollDoneKeeps DEF BootHartNext
  <1>3. ASSUME SecondaryNext(h) PROVE BootInv'
    BY <1>3, SecondaryStartKeeps, WaitForCpuUpKeeps, CallinKeeps, SetOnlineKeeps,
       LocalIrqEnableKeeps DEF SecondaryNext
  <1>4. ASSUME NEW level \in {"task", "irq"}, IsrNext(<<h, level>>) PROVE BootInv'
    <2>1. PICK c \in Contexts : c = <<h, level>> OBVIOUS
    <2>2. IsrNext(c) BY <1>4, <2>1
    <2> QED BY <2>2, GetCharKeeps, SpinIsLockedKeeps, SpinTrylockKeeps, InsertAndUnlockKeeps
            DEF IsrNext
  <1> QED BY <1>1, <1>2, <1>3, <1>4, SoftwareInterruptKeeps DEF HartNext

LEMMA HardwareKeeps == ASSUME MmInv, NEW h \in Cpus, Hardware(h) PROVE MmInv'
  BY WalkPmdKeeps, WalkTableKeeps, WalkPteKeeps, StoreKeeps, EvictKeeps DEF Hardware

LEMMA KernelKeeps == ASSUME MmInv, NEW h \in Cpus, Kernel(h) PROVE MmInv'
  <1>1. CASE FaultFinish(h) BY <1>1, FinishKeeps DEF FaultFinish
  <1>2. CASE MprotectFinish(h) BY <1>2, FinishKeeps DEF MprotectFinish
  <1>3. CASE AgeFinish(h) BY <1>3, FinishKeeps DEF AgeFinish
  <1>4. CASE \E m \in Mms, w \in BOOLEAN : FaultMap(h, m, w) \/ FaultStart(h, m, w)
    BY <1>4, FaultMapKeeps, FaultStartKeeps
  <1>5. CASE \E m \in Mms, xwr \in Prots : Mprotect(h, m, xwr) \/ Mmap(h, m, xwr)
    BY <1>5, MprotectKeeps, MmapKeeps
  <1>6. CASE \E m \in Mms : Munmap(h, m) \/ Reclaim(h, m) \/ Clean(h, m) \/ Age(h, m)
    BY <1>6, MunmapKeeps, ReclaimKeeps, CleanKeeps, AgeKeeps
  <1>7. CASE (\E m \in Mms \cup {NoMm} : SwitchMm(h, m)) \/ (\E g \in Cpus : RemoteSfence(h, g))
    BY <1>7, SwitchMmKeeps, RemoteSfenceKeeps
  <1>8. CASE FaultWrite(h) \/ MprotectWrite(h) \/ AgeWrite(h)
    BY <1>8, FaultWriteKeeps, MprotectWriteKeeps, AgeWriteKeeps
  <1>9. CASE MunmapWrite(h) \/ ReclaimWrite(h) \/ CleanWrite(h)
    BY <1>9, MunmapWriteKeeps, ReclaimWriteKeeps, CleanWriteKeeps
  <1>10. CASE MunmapFinish(h) \/ ReclaimFinish(h) \/ CleanFinish(h)
    BY <1>10, MunmapFinishKeeps, ReclaimFinishKeeps, CleanFinishKeeps
  <1> QED BY <1>1, <1>2, <1>3, <1>4, <1>5, <1>6, <1>7, <1>8, <1>9, <1>10 DEF Kernel

LEMMA MmInitInv == MmInit => MmInv
  <1> SUFFICES ASSUME MmInit PROVE MmInv OBVIOUS
  <1> USE DEF MmInit
  <1>1. NoPte \in Ptes /\ NoOp \in Records /\ NoEntry \in Entries
    BY EmptyPtes, NoOpIdle DEF NoEntry, Entries
  <1>2. MmTypes BY <1>1 DEF MmTypes, Prots, NoVma
  <1>3. OpInv /\ Exclusive BY DEF OpInv, Exclusive, Busy
  <1>4. \A m \in Mms : Shaped(pte[m]) /\ Behind(pte[m]) = {} BY NoPageFacts DEF Shaped
  <1>5. \A h \in Cpus : Held(h) = {} BY NoOpIdle DEF Held
  <1>6. \A m \in Mms : \A f : ~Owns(m, f) BY <1>4, <1>5 DEF Owns, Ops
  <1>7. OwnInv BY <1>6 DEF OwnInv
  <1>8. TlbInv BY DEF TlbInv, Cached, Walking
  <1>9. KnownInv BY DEF KnownInv
  <1> QED BY <1>2, <1>3, <1>4, <1>7, <1>8, <1>9 DEF MmInv

\* A step that changes nothing of boot, or nothing of the address spaces.
LEMMA BootSame == ASSUME BootInv, UNCHANGED bootVars PROVE BootInv'
  BY ZenonT(60)
     DEF bootVars, BootInv, BootTypeOK, PlaceInv, StartInv, OnlineIsReady, DriverInv, LockInv

LEMMA MmSame == ASSUME MmInv, UNCHANGED mmVars PROVE MmInv'
  <1>1. vma' \in [Mms -> Prots \cup {NoVma}] /\ ops' \in 0..MaxOps BY DEF mmVars, MmInv, MmTypes
  <1>2. UNCHANGED <<task, active, hwVars, table, pte, op, fence, frVars>>
    BY DEF mmVars, hwVars, frVars
  <1> QED BY <1>1, <1>2, VmaKeeps

\* The invariant holds of every behaviour of the machine.
THEOREM Invariance == Spec => []IInv
  <1>1. Init => IInv BY BootInitInv, MmInitInv DEF Init, IInv
  <1>2. ASSUME IInv, [Next]_vars PROVE IInv'
    <2>1. CASE Booting BY <1>2, <2>1, BootNextKeeps, MmSame DEF Booting, IInv
    <2>2. CASE \E h \in Harts : Running(h)
      <3>1. PICK h \in Cpus : (Hardware(h) \/ Kernel(h)) /\ UNCHANGED bootVars
        BY <2>2 DEF Running
      <3> QED BY <1>2, <3>1, HardwareKeeps, KernelKeeps, BootSame DEF IInv
    <2>3. CASE UNCHANGED vars BY <1>2, <2>3, BootSame, MmSame DEF vars, IInv
    <2> QED BY <1>2, <2>1, <2>2, <2>3 DEF Next
  <1> QED BY <1>1, <1>2, PTL DEF Spec

\* The variables of boot and of the address spaces keep their types.
THEOREM TypeCorrect == Spec => []TypeOK
  <1>1. IInv => TypeOK
    <2> SUFFICES ASSUME IInv PROVE MmTypeOK BY DEF IInv, BootInv, TypeOK
    <2>1. op \in [Cpus -> [kind : {"none", "fault", "mprotect", "munmap",
                                   "reclaim", "clean", "age"},
                           at : {"none", "write", "flush"}, mm : Mms \cup {NoMm},
                           old : {op[h].old : h \in Cpus}, w : BOOLEAN]]
      BY DEF IInv, MmInv, MmTypes, Records, Kinds
    <2> QED BY <2>1 DEF IInv, MmInv, MmTypes, MmTypeOK, Entries, Ptes
  <1> QED BY <1>1, Invariance, PTL

\* A hart that others see in cpu_online_mask has been asked to come up, has a
\* slot in the per-hart arrays and is set up, for every number of harts and
\* every NR_CPUS (head.S, smpboot.c).
THEOREM OnlineCorrect == Spec => []OnlineIsReady
  <1>1. IInv => OnlineIsReady BY DEF IInv, BootInv
  <1> QED BY <1>1, Invariance, PTL

\* Characters of the console are inserted by one context at a time, whichever
\* harts take the software interrupt and whatever amoswap finds; the only hart
\* that can wait for a lock of its own is hart 0 in the poll of
\* sbi_console_init (sbi-con.c, spinlock.h).
THEOREM PortLockCorrect == Spec => []PortLockSafe
  <1>1. ASSUME IInv PROVE PortLockSafe
    <2> USE <1>1 DEF IInv, BootInv
    <2>1. \A c, d \in Holders : c = d BY DEF Holders, LockInv
    <2>2. lock = Cardinality(Holders)
      <3>1. CASE Holders = {}
        <4>1. lock = 0 BY <3>1 DEF Holders, LockInv, BootTypeOK
        <4> QED BY <3>1, <4>1, FS_EmptySet
      <3>2. CASE Holders # {}
        <4>1. PICK c \in Holders : Holders = {c} BY <2>1, <3>2
        <4>2. lock = 1 BY <3>2 DEF Holders, LockInv
        <4> QED BY <4>1, <4>2, FS_Singleton
      <3> QED BY <3>1, <3>2
    <2>3. Holders # {} => driver = "registered" BY DEF Holders, DriverInv
    <2>4. ASSUME SelfDeadlock PROVE pc[0] = "poll" /\ Holders = {<<0, "task">>}
      <3>1. PICK h \in Harts : <<h, "task">> \in Holders BY <2>4 DEF SelfDeadlock
      <3>2. <<h, "task">> = <<0, "task">> /\ pc[0] = "poll" BY <3>1 DEF Holders, DriverInv
      <3> QED BY <2>1, <3>1, <3>2
    <2> QED BY <2>2, <2>3, <2>4 DEF PortLockSafe
  <1> QED BY <1>1, Invariance, PTL

\* No hart goes on with a translation, a frame or a page table that was taken
\* away: whatever the walkers and the operations of mm/ on other harts do, a
\* flush of it is still to come before the frame can be used again
\* (tlbflush.h, pgalloc.h, mmu_context.h).
THEOREM NoStaleCorrect == Spec => []NoStaleTranslation
  <1>1. ASSUME IInv PROVE NoStaleTranslation
    <2> SUFFICES ASSUME NEW h \in Cpus
                 PROVE  /\ task[h] \in {active[h], NoMm}
                        /\ tlb[h] # NoEntry => Agrees(h) \/ FlushComes(h, active[h])
                        /\ tlb[h] # NoEntry => tlb[h].pfn \in used
                        /\ walk[h] = "pte" => table[active[h]]["pte"] # "none"
                        /\ walk[h] = "stray" => FlushComes(h, active[h])
      BY DEF NoStaleTranslation, Agrees
    <2>1. task[h] \in {active[h], NoMm} /\ Cached(h) /\ Walking(h) BY <1>1 DEF IInv, MmInv, TlbInv
    <2>2. tlb[h] # NoEntry => tlb[h].pfn \in used
      BY <1>1, <2>1, CachedFacts DEF IInv, MmInv, OwnInv, Cached
    <2>3. walk[h] = "stray" => FlushComes(h, active[h])
      BY <2>1 DEF Walking, Unmapping, Unmaps, Taking, FlushComes
    <2> QED BY <2>1, <2>2, <2>3 DEF Cached, Walking
  <1> QED BY <1>1, Invariance, PTL

\* Each allocated frame is mapped, on its way out of one mapping, kept by a
\* PAGE_NONE entry, or lost by the unmapping of one; no two address spaces map
\* the same frame (pgtable.h as mm/ uses it).
THEOREM FramesCorrect == Spec => []FramesAccounted
  <1>1. ASSUME IInv PROVE FramesAccounted
    <2> USE <1>1 DEF IInv
    <2>1. \A h \in Cpus : Held(h) # {} => op[h].mm \in Mms /\ h \in Ops(op[h].mm)
      BY NoOpIdle DEF MmInv, OpInv, Busy, Held, Ops
    <2>2. ASSUME NEW f
          PROVE  f \in used <=> \/ f \in leaked
                                \/ \E m \in Mms : f \in Behind(pte[m])
                                \/ \E h \in Cpus : f \in Held(h)
      <3>1. (\E m \in Mms : Owns(m, f)) <=>
                \/ \E m \in Mms : f \in Behind(pte[m])
                \/ \E h \in Cpus : f \in Held(h)
        BY <2>1 DEF Owns, Ops
      <3>2. f \in Frames \/ ~(f \in used \/ f \in leaked \/ \E m \in Mms : Owns(m, f))
        BY OwnedFrames DEF MmInv, MmTypes
      <3> QED BY <3>1, <3>2 DEF MmInv, OwnInv
    <2>3. used = (UNION {Behind(pte[m]) : m \in Mms}) \cup (UNION {Held(h) : h \in Cpus})
                 \cup leaked
      BY <2>2
    <2>4. \A m, n \in Mms : m # n => Mapped(pte[m]) \cap Mapped(pte[n]) = {}
      BY Unique DEF Owns, Behind
    <2> QED BY <2>3, <2>4 DEF FramesAccounted, Behind
  <1> QED BY <1>1, Invariance, PTL

\* A frame that differs from its backing store is known to be dirty, whenever
\* harts store through cached translations; excepted are the dirty bits set
\* between a helper's read and its write of the entry, and the lost frames.
THEOREM DirtyCorrect == Spec => []DirtyKept
  <1>1. ASSUME IInv PROVE DirtyKept
    <2> SUFFICES ASSUME NEW f \in modified
                 PROVE  \/ f \in dirtied \cup raced \cup leaked
                        \/ \E m \in Mms : pte_pfn(pte[m]) = f /\ pte_dirty(pte[m])
                        \/ \E h \in Cpus : op[h] # NoOp /\ pte_pfn(op[h].old) = f
                                           /\ pte_dirty(op[h].old)
      BY DEF DirtyKept
    <2>1. Known(f) BY <1>1 DEF IInv, MmInv, KnownInv
    <2>2. ASSUME NEW m \in Mms, f \in Behind(pte[m]), pte_dirty(pte[m])
          PROVE  pte_pfn(pte[m]) = f
      BY <1>1, <2>2, Shapes, PageFacts DEF IInv, MmInv
    <2>3. ASSUME NEW h \in Cpus, Taking(h), f \in Held(h)
          PROVE  op[h] # NoOp /\ pte_pfn(op[h].old) = f
      BY <2>3, NoOpIdle DEF Taking, Held, Mapped
    <2> QED BY <2>1, <2>2, <2>3 DEF Known
  <1> QED BY <1>1, Invariance, PTL
==============================================================================
