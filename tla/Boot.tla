-------------------------------- MODULE Boot --------------------------------
(***************************************************************************)
(* From reset to a running machine: the start of all harts                 *)
(* (kernel/head.S), the bring-up of the secondary ones (kernel/smpboot.c), *)
(* and the last step of the boot hart that other harts can disturb, the    *)
(* SBI console (kernel/sbi-con.c) with the spin lock (spinlock.h) that its *)
(* interrupt handler shares with its first poll.                           *)
(*                                                                         *)
(* The stack of the idle task and the task pointer at its bottom are       *)
(* written before __cpu_up by a caller that takes and gives back locks in  *)
(* between, so a hart that sees its stack pointer sees the task as well.   *)
(***************************************************************************)
EXTENDS Integers, FiniteSets

CONSTANTS
    NumHarts,   \* sbi_num_harts(); hart ids are 0 .. NumHarts - 1
    NrCpus,     \* NR_CPUS
    MaxIrqs     \* bound: software interrupts taken

ASSUME BootAssumption == NumHarts \in Nat \ {0} /\ NrCpus \in Nat \ {0} /\ MaxIrqs \in Nat

VARIABLES
    pc,        \* pc[h]: where hart h is in head.S, start_kernel or smp_callin
    possible,  \* cpu_possible_mask (and cpu_present_mask)
    stackp,    \* stackp[h]: __cpu_up_stack_pointer[h] is set
    cpu,       \* the hart __cpu_up waits for
    online,    \* cpu_online_mask
    ready,     \* ready[h]: what smp_callin (or start_kernel) has set up on h
    driver,    \* sbi_tty_driver: "none", "allocated", "registered", "error", "freed"
    shared,    \* sbi_console_isr is registered on the software interrupt
    lock,      \* sbi_tty_port_lock
    isr,       \* isr[c]: where context c is in sbi_console_isr
    irqs       \* software interrupts taken

bootVars == <<pc, possible, stackp, cpu, online, ready, driver, shared, lock, isr, irqs>>
smpVars  == <<possible, stackp, cpu, online, ready>>
consVars == <<driver, shared, lock, isr, irqs>>

Harts    == 0..NumHarts - 1
Contexts == Harts \X {"task", "irq"}   \* sbi_console_isr runs in either
Facilities == {"mm", "traps", "clock"}

BootInit ==
    /\ pc = [h \in Harts |-> "_start"]
    /\ possible = {}
    /\ stackp = [h \in Harts |-> FALSE]
    /\ cpu = 0
    /\ online = {}
    /\ ready = [h \in Harts |-> {}]
    /\ driver = "none" /\ shared = FALSE /\ lock = 0
    /\ isr = [c \in Contexts |-> "idle"]
    /\ irqs = 0

Step(h, from, to) == pc[h] = from /\ pc' = [pc EXCEPT ![h] = to]

-----------------------------------------------------------------------------
\* head.S

\* Hart 0 clears .bss and calls start_kernel, which sets up its traps and clock
\* and marks it online.
BootHart ==
    /\ Step(0, "_start", "setup_arch")
    /\ stackp' = [h \in Harts |-> FALSE]
    /\ ready' = [ready EXCEPT ![0] = Facilities]
    /\ online' = {0}
    /\ UNCHANGED <<possible, cpu, consVars>>

\* A hart without a slot in __cpu_up_stack_pointer parks.
Parks(h) == h >= NrCpus

SecondaryStart(h) ==
    /\ h # 0 /\ Step(h, "_start", IF Parks(h) THEN "park" ELSE "wait_for_cpu_up")
    /\ UNCHANGED <<smpVars, consVars>>

\* The loop on the stack pointer; the loader left zeroes there, as .bss asks.
WaitForCpuUp(h) ==
    /\ Step(h, "wait_for_cpu_up", "smp_callin")
    /\ stackp[h]
    /\ UNCHANGED <<smpVars, consVars>>

-----------------------------------------------------------------------------
\* smpboot.c

\* min(num_cpus, NR_CPUS)
PossibleCpus == {h \in Harts : h < NrCpus}

SetupSmp ==
    /\ Step(0, "setup_arch", "smp_init")
    /\ possible' = PossibleCpus
    /\ UNCHANGED <<stackp, cpu, online, ready, consVars>>

\* __cpu_up, called for the present harts in turn.
CpuUp(h) ==
    /\ Step(0, "smp_init", "cpu_up")
    /\ h \in possible \ online /\ \A g \in possible \ online : h <= g
    /\ stackp' = [stackp EXCEPT ![h] = TRUE]
    /\ cpu' = h
    /\ UNCHANGED <<possible, online, ready, consVars>>

CpuIsUp ==
    /\ Step(0, "cpu_up", "smp_init")
    /\ cpu \in online
    /\ UNCHANGED <<smpVars, consVars>>

\* smp_callin up to set_cpu_online: init_mm, trap_init, init_clockevent.
Callin(h) ==
    /\ Step(h, "smp_callin", "callin_ready")
    /\ ready' = [ready EXCEPT ![h] = Facilities]
    /\ UNCHANGED <<possible, stackp, cpu, online, consVars>>

\* Mutant: set_cpu_online comes first in smp_callin.
SetOnlineEarly(h) ==
    /\ pc[h] \in {"smp_callin", "callin_ready"} /\ h \notin online
    /\ pc' = [pc EXCEPT ![h] = IF @ = "callin_ready" THEN "local_irq_enable" ELSE @]
    /\ online' = online \cup {h}
    /\ UNCHANGED <<possible, stackp, cpu, ready, consVars>>

SetOnline(h) ==
    /\ Step(h, "callin_ready", "local_irq_enable")
    /\ online' = online \cup {h}
    /\ UNCHANGED <<possible, stackp, cpu, ready, consVars>>

\* local_flush_tlb_all, local_irq_enable, and the idle loop.
LocalIrqEnable(h) ==
    /\ Step(h, "local_irq_enable", "idle")
    /\ UNCHANGED <<smpVars, consVars>>

-----------------------------------------------------------------------------
\* sbi_console_init, a device_initcall of the boot hart.

AllocDriver ==
    /\ possible \subseteq online
    /\ \/ Step(0, "smp_init", "tty_register_driver") /\ driver' = "allocated"
       \/ Step(0, "smp_init", "done") /\ driver' = "error"   \* PTR_ERR
    /\ UNCHANGED <<smpVars, shared, lock, isr, irqs>>

RegisterDriver ==
    /\ \/ Step(0, "tty_register_driver", "request_irq") /\ driver' = "registered"
       \/ Step(0, "tty_register_driver", "done") /\ driver' = "freed"
    /\ UNCHANGED <<smpVars, shared, lock, isr, irqs>>

\* After request_irq the console is polled once, in process context with
\* interrupts on.  On failure the driver is put but not unregistered.
RequestIrq ==
    /\ \/ /\ Step(0, "request_irq", "poll")
          /\ shared' = TRUE
          /\ isr' = [isr EXCEPT ![<<0, "task">>] = "getchar"]
          /\ UNCHANGED driver
       \/ /\ Step(0, "request_irq", "done")
          /\ driver' = "freed"
          /\ UNCHANGED <<shared, isr>>
    /\ UNCHANGED <<smpVars, lock, irqs>>

PollDone ==
    /\ Step(0, "poll", "done")
    /\ isr[<<0, "task">>] = "idle"
    /\ UNCHANGED <<smpVars, consVars>>

-----------------------------------------------------------------------------
\* sbi_console_isr.  A hart's handler runs on top of its task.

IrqsOn(h) == IF h = 0 THEN pc[0] \notin {"_start", "setup_arch"} ELSE pc[h] = "idle"
Runs(c) == c[2] = "irq" \/ isr[<<c[1], "irq">>] = "idle"
IsrStep(c, from, to) == Runs(c) /\ isr[c] = from /\ isr' = [isr EXCEPT ![c] = to]

\* The software interrupt is shared: the handler runs for every one.
SoftwareInterrupt(h) ==
    /\ shared /\ IrqsOn(h) /\ irqs < MaxIrqs
    /\ IsrStep(<<h, "irq">>, "idle", "getchar")
    /\ irqs' = irqs + 1
    /\ UNCHANGED <<pc, smpVars, driver, shared, lock>>

\* sbi_console_getchar has a character or not.
GetChar(c) ==
    /\ IsrStep(c, "getchar", "idle") \/ IsrStep(c, "getchar", "spin_lock")
    /\ UNCHANGED <<pc, smpVars, driver, shared, lock, irqs>>

\* arch_spin_lock: wait until the lock looks free, ...
SpinIsLocked(c) ==
    /\ IsrStep(c, "spin_lock", "trylock")
    /\ lock = 0
    /\ UNCHANGED <<pc, smpVars, driver, shared, lock, irqs>>

\* Mutant: the result of the amoswap is not looked at.
SpinTrylockIgnored(c) ==
    /\ IsrStep(c, "trylock", "insert")
    /\ lock' = 1
    /\ UNCHANGED <<pc, smpVars, driver, shared, irqs>>

\* ... then amoswap 1 into it, and start again unless it was.
SpinTrylock(c) ==
    /\ \/ lock = 0 /\ IsrStep(c, "trylock", "insert")
       \/ lock # 0 /\ IsrStep(c, "trylock", "spin_lock")
    /\ lock' = 1
    /\ UNCHANGED <<pc, smpVars, driver, shared, irqs>>

\* Mutant: the handler returns without spin_unlock.
SpinUnlockNot(c) ==
    /\ IsrStep(c, "insert", "idle")
    /\ UNCHANGED <<pc, smpVars, driver, shared, lock, irqs>>

\* tty_insert_flip_char, tty_flip_buffer_push, spin_unlock
InsertAndUnlock(c) ==
    /\ IsrStep(c, "insert", "idle")
    /\ lock' = 0
    /\ UNCHANGED <<pc, smpVars, driver, shared, irqs>>

IsrNext(c) ==
    \/ GetChar(c)
    \/ SpinIsLocked(c)
    \/ SpinTrylock(c)
    \/ InsertAndUnlock(c)

\* The boot hart's own code goes on when it is not in a handler.
BootHartNext ==
    /\ isr[<<0, "irq">>] = "idle"
    /\ \/ BootHart
       \/ SetupSmp
       \/ \E h \in Harts : CpuUp(h)
       \/ CpuIsUp
       \/ AllocDriver
       \/ RegisterDriver
       \/ RequestIrq
       \/ PollDone

SecondaryNext(h) ==
    \/ SecondaryStart(h)
    \/ WaitForCpuUp(h)
    \/ Callin(h)
    \/ SetOnline(h)
    \/ LocalIrqEnable(h)

\* A hart that has nothing of all this left to do.
Resting(h) ==
    /\ pc[h] \in {"done", "idle", "park"}
    /\ isr[<<h, "task">>] = "idle" /\ isr[<<h, "irq">>] = "idle"

\* What hart h executes.
HartNext(h) ==
    /\ ~Resting(h)
    /\ \/ h = 0 /\ BootHartNext
       \/ SecondaryNext(h)
       \/ \E level \in {"task", "irq"} : IsrNext(<<h, level>>)

BootNext == \E h \in Harts : HartNext(h) \/ SoftwareInterrupt(h)

\* Every hart keeps executing.
BootFairness == \A h \in Harts : WF_bootVars(HartNext(h))

-----------------------------------------------------------------------------
BootTypeOK ==
    /\ pc \in [Harts -> {"_start", "setup_arch", "smp_init", "cpu_up",
          "tty_register_driver", "request_irq", "poll", "done", "park",
          "wait_for_cpu_up", "smp_callin", "callin_ready", "local_irq_enable", "idle"}]
    /\ possible \subseteq Harts /\ online \subseteq Harts /\ cpu \in Harts
    /\ stackp \in [Harts -> BOOLEAN]
    /\ ready \in [Harts -> SUBSET Facilities]
    /\ driver \in {"none", "allocated", "registered", "error", "freed"}
    /\ shared \in BOOLEAN /\ lock \in {0, 1} /\ irqs \in 0..MaxIrqs
    /\ isr \in [Contexts -> {"idle", "getchar", "spin_lock", "trylock", "insert"}]

\* A hart that others see online, and may send work to, can take it: its memory
\* map, trap vector and clock are set up, it was asked to come up, and it has a
\* slot in the per-hart arrays.
OnlineIsReady ==
    \A h \in online :
        /\ ready[h] = Facilities
        /\ h = 0 \/ (stackp[h] /\ h < NrCpus)

Waiting(c) == isr[c] \in {"spin_lock", "trylock"}
Holders == {c \in Contexts : isr[c] = "insert"}

\* A context that waits for the lock the task below it holds.
SelfDeadlock == \E h \in Harts : Waiting(<<h, "irq">>) /\ <<h, "task">> \in Holders

\* Characters are inserted by one context at a time, into the port of a
\* registered driver, and no hart waits for a lock that nobody will give back:
\* except by an interrupt in the poll of sbi_console_init, which has them on.
PortLockSafe ==
    /\ lock = Cardinality(Holders)
    /\ Holders # {} => driver = "registered"
    /\ SelfDeadlock => pc[0] = "poll" /\ Holders = {<<0, "task">>}

\* The boot hart brings up every hart it can and finishes its initcalls, unless
\* the first poll of the console deadlocks with its own interrupt.
BootFinishes == <>(\/ pc[0] = "done" /\ online = possible
                   \/ SelfDeadlock)
=============================================================================
