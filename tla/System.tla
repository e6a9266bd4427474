------------------------------- MODULE System -------------------------------
(***************************************************************************)
(* The machine from reset to user programs: Boot up to the end of the boot *)
(* hart's initcalls, then the address spaces of Mm on the harts that boot  *)
(* has brought online.                                                     *)
(*                                                                         *)
(* Programs run from one of the ends of boot only, the one with the        *)
(* console working and its MaxIrqs interrupts taken: what the harts do     *)
(* with address spaces depends on nothing else that boot leaves behind.    *)
(***************************************************************************)
EXTENDS Boot, Mm

ASSUME SystemAssumption == Cpus \subseteq PossibleCpus

Init == BootInit /\ MmInit

Booted ==
    /\ \A h \in Harts : Resting(h)
    /\ driver = "registered" /\ irqs = MaxIrqs

Booting == BootNext /\ UNCHANGED mmVars

\* Remote sfences are executed by all of Cpus, with or without Linux on them;
\* programs and the kernel run on those that came online.
Running(h) ==
    /\ Booted /\ h \in Cpus \cap online
    /\ Hardware(h) \/ Kernel(h)
    /\ UNCHANGED bootVars

Next == Booting \/ \E h \in Harts : Running(h)

vars == <<bootVars, mmVars>>

Spec == Init /\ [][Next]_vars /\ BootFairness

TypeOK == BootTypeOK /\ MmTypeOK
=============================================================================
