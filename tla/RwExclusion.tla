---------------------------- MODULE RwExclusion ----------------------------
(***************************************************************************)
(* What a reader/writer spin lock promises to the rest of the kernel:      *)
(* any number of contexts may hold it for reading, one may hold it for     *)
(* writing, never both.  Taking and giving back the lock are one step.     *)
(* RwLock.tla implements this module.                                      *)
(***************************************************************************)

CONSTANT Contexts

VARIABLES readers, writers

Init == readers = {} /\ writers = {}

AcquireRead(c) ==
    /\ writers = {} /\ c \notin readers
    /\ readers' = readers \cup {c}
    /\ UNCHANGED writers

AcquireWrite(c) ==
    /\ readers = {} /\ writers = {}
    /\ writers' = {c}
    /\ UNCHANGED readers

ReleaseRead(c) ==
    /\ c \in readers
    /\ readers' = readers \ {c}
    /\ UNCHANGED writers

ReleaseWrite(c) ==
    /\ c \in writers
    /\ writers' = {}
    /\ UNCHANGED readers

Next == \E c \in Contexts : \/ AcquireRead(c) \/ AcquireWrite(c)
                            \/ ReleaseRead(c) \/ ReleaseWrite(c)

Spec == Init /\ [][Next]_<<readers, writers>>
=============================================================================
