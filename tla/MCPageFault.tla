---------------------------- MODULE MCPageFault ----------------------------
\* Two threads that share an mm: a store in user mode, a copy_to_user, one with
\* page faults disabled, and the kernel's use of vmalloc memory.
EXTENDS PageFault

Write(addr, user, fixup, atomic) ==
    [addr |-> addr, user |-> user, cause |-> "write", fixup |-> fixup, atomic |-> atomic]

UserStore    == Write("user", TRUE, FALSE, FALSE)
CopyToUser   == Write("user", FALSE, TRUE, FALSE)
AtomicCopy   == Write("user", FALSE, TRUE, TRUE)
VmallocUse   == Write("vmalloc", FALSE, FALSE, FALSE)
\* A user program that touches the vmalloc area.
UserVmalloc  == Write("vmalloc", TRUE, FALSE, FALSE)

Vma(kind, perms) == [kind |-> kind, perms |-> perms]
MCMappings == {Vma("none", {}), Vma("above", {"write"}), Vma("stack", {"write"}),
               Vma("covers", {"read"}), Vma("covers", {"read", "write"})}

UserAndVmalloc == {UserStore, UserVmalloc}
Copies == {CopyToUser}
MCAccesses == {UserStore, CopyToUser, AtomicCopy, VmallocUse, UserVmalloc}
=============================================================================
