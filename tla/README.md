# Verification of the RISC-V port of Linux 4.6 (`src/arch/riscv`)

TLA+ models of the RISC-V architecture code of this kernel, checked with TLC on
small instances and, for almost all that is not recursive, proved with TLAPS for
every value of the constants. All paths below are relative to
`src/arch/riscv/`.

## 1. The system and its parts

The tree is the architecture port alone. The generic kernel (scheduler, cross
calls, memory manager, signals core) and the supervisor binary interface (SBI)
are outside of it; the models describe them by what the port relies on, and the
map in `PROJECT.json` marks those definitions `external`.

| component | code | state | operations | meets |
|---|---|---|---|---|
| reader-writer spinlocks | `include/asm/spinlock.h` | the lock word; a hart's lr/sc reservation | lock, trylock, unlock for readers and writers | every hart, task and interrupt handler |
| interprocessor interrupts | `kernel/smp.c`, `kernel/irq.c` | `ipi_data[].bits`, the SBI's pending flag | `send_ipi_message`, `ipi_isr`, `smp_send_stop` | scheduler, cross-call queues, console (shared interrupt) |
| trap entry and exit | `kernel/entry.S`, `kernel/traps.c` | `sp`, `tp`, `sscratch`, `sstatus`, `pt_regs` on the kernel stacks | `handle_exception`, `ret_from_exception`, `__switch_to` | everything that runs in the kernel |
| process creation, exec | `kernel/process.c` | `thread` and `childregs` of a task | `copy_thread`, `start_thread` | trap return path |
| page faults | `mm/fault.c`, `mm/extable.c` | `mmap_sem`, fault flags, page tables | `do_page_fault` | memory manager, signals, exception table |
| signals and restart | `kernel/signal.c` | user frames, `pt_regs`, blocked mask | `do_signal`, `handle_signal`, `rt_sigreturn` | trap return path, FP state |
| FP state | `include/asm/switch_to.h` | FP registers, `thread.fstate`, `sstatus.FS` | save, restore, switch, fork, exec | signals, context switch |
| SMP bring-up | `kernel/smpboot.c`, `kernel/head.S` | `__cpu_up_stack_pointer`, the online mask | `__cpu_up`, `smp_callin` | generic hotplug |
| page tables and TLB | `include/asm/pgtable*.h`, `tlbflush.h`, `mmu_context.h`, `pgalloc.h` | ptes, `sptbr`, TLBs | pte helpers, `switch_mm`, flushes | page faults, context switch |
| configuration string | `drivers/config.c` | parser position, node tables | three parsing passes | platform devices |
| SBI console | `kernel/sbi-con.c` | `sbi_tty_port_lock` | interrupt handler, initial poll, write | shared software interrupt |
| atomics and bit operations | `include/asm/atomic*.h`, `bitops.h`, `cmpxchg.h` | one word | amo and lr/sc operations | everything |
| time, delay | `kernel/time.c`, `lib/delay.c` | cycle counter | `get_cycles`, `__delay`, clock event | SBI timer |
| user copies | `lib/uaccess.S`, `include/asm/uaccess.h` | registers at a fault | copy, clear, fixups | page faults |
| stack traces | `kernel/stacktrace.c` | the frame or stack word reached, the trace | `walk_stackframe`, `get_wchan`, `save_stack_trace_tsk` | other harts, which may run the task |
| frame buffer | `video/fb.c` | the mode, the controller's registers, the video memory | probe, check, set and pan | fb core |
| library assembly | `lib/memcpy.S`, `lib/memset.S` | registers | `memcpy`, `memset` | everything |
| ptrace, setup, vDSO, tables, libgcc | the remaining files | little or none | - | - |

What is hard: harts run concurrently over weakly ordered memory and interrupt
each other; handlers run between any two instructions of kernel code that has
interrupts on; the trap path runs on state (`sscratch`, `sp`) that is only
consistent at its ends; faults sleep and retry in an address space that changes
meanwhile. `PROJECT.json` lists each such place as a hazard with the properties
that would catch it, or with the reason why none does.

What makes each part correct:

- locks: writers exclude everybody, the word always tells the holders, no
  store is based on a stale load, somebody always gets in;
- interrupts between harts: no message without an interrupt to come for it, no
  call forgotten or run on a reused descriptor, every request served;
- traps: a trap always starts on the current task's own stack, returns restore
  exactly what was saved, user mode is never entered over pending work, nesting
  is bounded;
- page faults: the `mmap_sem` is balanced on every way out, a retry looks at
  the address space again, signals say what was found, every fault ends;
- signals: a restarted call is the same call, registers and FP state come back
  from a handler as they were;
- FP state: a task always computes with its own registers;
- bring-up: a hart is seen online only when it can be interrupted, and boot ends;
- page tables: no access through a translation that was removed, no frame lost
  or mapped twice, no modified page taken for a clean one;
- configuration string: the passes agree, buffers have room, lookups find what
  the parser saw;
- routines without state: each does what its callers count on, at every
  alignment, wrap and fault.

## 2. Modules

| module | models | run |
|---|---|---|
| `RwLock` | the lr/sc reader-writer lock | part of `library` |
| `RwExclusion` | what such a lock promises (abstract) | as `Implements` of `library` |
| `RwLock_proofs` | theorems about `RwLock` | |
| `Ipi` | `smp.c`, the cross-call queue, the handler and its interrupt | `ipi`, `ipi_masked` |
| `CrossCall` | what cross calls promise (abstract) | as `CallsAsPromised` of `ipi` |
| `Ipi_proofs` | theorems about `Ipi` | |
| `TrapEntry` | `entry.S`, `copy_thread`, `start_thread`, work flags | part of `user_task` |
| `TrapEntry_proofs` | theorems about `TrapEntry` | |
| `FState` | who owns the FP registers | part of `user_task` |
| `FState_proofs` | theorems about `FState` | |
| `Signal` | `signal.c` and the system-call return | part of `user_task`; `signal_argument`, `signal_rewind` |
| `Signal_proofs` | theorems about `Signal` | |
| `UserTask` | the choice of `TrapEntry`, `FState` or `Signal` | `user_task` |
| `PageFault` | `do_page_fault` | `page_fault`, `page_fault_user_vmalloc`, `page_fault_killed` |
| `PageFault_proofs` | theorems about `PageFault` | |
| `Boot` | `head.S`, `smpboot.c`, the console's start and interrupt | part of `system` |
| `Pte` | page table entries as operators | used by `Mm` |
| `Mm` | page tables, TLBs, flushes, `switch_mm` | part of `system` |
| `System` | `Boot`, then `Mm` on the harts that came online | `system` |
| `System_proofs` | theorems about `System` | |
| `UserCopy`, `MemOps`, `Clock`, `StackWalk`, `Atomics`, `FrameBuffer`, `ConfigParser`, `ConfigString` | one topic each, see below | part of `library`; `put_user` (`UserCopy`), `atomics` (`Atomics`) |
| `Words` | powers of 2 and bitwise operations, bit by bit | used by `Atomics`, `FrameBuffer` |
| `Routines` | the topics that have theorems: all but the lock and the lookups of `ConfigString` | part of `library` |
| `Routines_proofs` | theorems about `Routines` | |
| `Library` | the choice of a topic: the lock, one of `Routines`, or a lookup | `library`, `atomics`, `put_user` |
| `MC*` | the instances for TLC | |

`System` composes two components one after the other: user programs run on the
harts that boot has brought online. `UserTask` and `Library` put independent components
into one run: a behaviour is about the part or topic it starts with, and the others keep their
initial state. So that they can be extended together their variables and actions have
names of their own: `LockInit`, `FpNext`, `TrapSpec`, `signalVars` and so on. The other modules
meet at the trap path: `Ipi` and `Boot` have the handlers it calls, `Signal` and `FState` what
it does on the way back.

`user_task` checks for deadlock, too: the only states without a step of their own are those of a program that is dead or waits
in a call (`Stopped`). The other passing runs can really stop, with their bounds used up or everybody waiting, and
do not check for it.

Operators named after a bug ("Mutant:" in their comment) are not part of the
models: each is put in the place of the definition below it to see that a
property notices.

### RwLock

A context is a hart's task `<<h, 0>>` or the interrupt handler on top of it
`<<h, 1>>`. `lr`, `sc` and the two unlocking amos are one action each, so an
interrupt or another hart comes between any two of them. The reservation `res`
belongs to the hart, is broken by any other hart's store, may be lost at any time
(`LoseReservation`), and ends at the return from a trap, as the architecture
has it; the trap path has no `sc` of its own to break it (`entry.S:207-209`), and
the model shows the lock depends on that (`NoStaleStore` and its mutant).
A lock a handler reads is written with interrupts off, as the kernel's rules ask.

In `library`: two harts (`Cpus`), so four contexts. More harts add no new kind of
interference (a reservation only knows "another hart stored"), and the safety
properties are proved for any finite number. Fairness: every running context goes
on, and an `sc` that keeps finding a reservation is eventually executed with
it (strong fairness; the architecture guarantees eventual success of such loops).
The code promises no fairness between contenders (`spinlock.h:8`), so
`SomebodyGetsIt` is about the lock and not about one contender. `LockFairSpec` states this fairness; in
behaviours about another topic no action of the lock is enabled, so it asks nothing of them.

### Ipi

Each hart has a task (`pc`, `req`) and a handler (`isr`). `set_bit` goes
through a store buffer that drains in any order, an AMO of the handler acts on memory,
`mb()` waits for the buffer to be empty: this is what the fences are
there for. `queue` and `locked` are the generic call queue and the lock bit of the
call descriptors; the sender interrupts a hart only if its queue was empty
(`generic_exec_single`) unless it calls many. `need` is TIF_NEED_RESCHED,
looked at on the way to user mode.

The software interrupt has one descriptor for all harts, with the flow `handle_level_irq` and the
mask callbacks of `irq.c`. `Arrive` masks this hart's interrupt and looks whether the actions are in progress on
another hart; if they are, it leaves at once. `IsrUnmask` ends the actions and unmasks the hart that ran them. So a
hart that arrives meanwhile is left with its interrupt pending and masked for good: it is deaf. `ipi_masked`
(two harts that call each other) shows it: `IpiHandled`, that a pending interrupt is handled, fails, although
`smp.h:23` calls `ipi_isr` the handler of these interrupts.

`CrossCall` says what the rest of the kernel counts on: a hart runs the functions asked of
it one at a time, once each, in order; a waiting caller returns after its function has ended
everywhere. `Ipi` implements it (`CallsAsPromised`): a call is asked when it is queued, begun
when the handler reaches it in its batch, and over for its caller when `csd_lock_wait` is; that a call which
does not wait is over with its last `llist_add`, whatever is left to do of its interrupt, is part of the mapping.
Rescheduling is not a cross call and maps to no step.

`ipi`: three harts, one that makes every kind of request, one that makes
reschedules, single calls and stops, one that only serves, and two requests in all
(`MaxRequests`); three harts are needed for two senders to meet at one
receiver's queue, two requests for one to ride on the other's interrupt. The
run stops when the requests are used up, so deadlock is not checked there.
Safety was also seen to hold with three requests. Fairness: weak, for each hart's task, each
hart's handler and each store buffer; hardware takes a pending interrupt that stays enabled and unmasked.
`RequestsServed` has two exceptions. One is a `smp_send_stop`, whose function never returns: every other hart is then
stopped, with what it owed unserved. The other is a deaf hart: what was asked of it, and of a hart whose sender waits for
a deaf one before it has interrupted all of its targets, may stay unserved. Whatever else is asked is
served. The safety properties have no exception: a deaf hart's message still has its interrupt pending.

### TrapEntry

One hart. A kernel stack is the sequence of the `pt_regs` on it; a frame also
says at which stage the kernel code below it is, so a nested trap resumes it.
The registers that matter are `sp`, `sscratch`, `tp`, `sstatus.IE` and the
saved PS, PIE and sp. `tp` is the current-task pointer; while in user mode the
hardware register has the user's value, and the model keeps the task there.
Actions follow the labels of `entry.S`: `Trap` (SAVE_ALL up to the handler),
`RetFromException`, `ResumeUserspace`, `WorkResched`, `WorkNotifysig`,
`Restore`. SAVE_ALL and RESTORE_ALL run with interrupts off and touch kernel
memory only, so each is one step; what a fault inside of them would do is not covered.

Faults come wherever the code may cause them. A user-memory fault comes in system calls, signal delivery and kernel
threads, and in interrupts and softirqs, where `do_page_fault` leaves it to the fixup with interrupts as they
were. A vmalloc fault comes in all these, in the idle task and in a page fault ("we may be in an interrupt or a
critical region", `mm/fault.c:35`), but not within another one, which touches the page tables
only. `level` counts the interrupts in `preempt_count`: softirqs run at the end of the outermost one.

In `user_task`: the idle task, a user task and a third that is either forked or begins as a kernel thread and
execs, the work bits SIGPENDING and NEED_RESCHED. There is no bound on nesting: the
model is finite because interrupts are off in handlers outside of softirqs, which
is what `NestingBounded` says. Seven frames are reached: a system call, a page fault in it, an interrupt, a
fault in its softirqs, one more interrupt, a fault in that, and a vmalloc fault.

### PageFault

Threads of one process access one user page and one vmalloc address. `pc` follows
the labels of `do_page_fault`; `sem` counts the read holds of the `mmap_sem` as an
integer, and `strays` (a ghost) the releases that nobody's `down_read` preceded, so an unbalanced
`up_read` shows. `mmap` and the like are atomic steps
with the semaphore free; reclaim needs no semaphore. `__lock_page_or_retry` gives
the semaphore back before `VM_FAULT_RETRY`. The `BUG()` for an error that is neither OOM nor SIGBUS ends the
thread with the semaphore held. The `panic` for an unknown cause, `perf` and the fault counters are left out.

A user access to the vmalloc area is among the accesses of `page_fault`. It gives back a semaphore nobody took, so
`SemMatchesHolders` says that the count is that of the holders less these stray releases. With a stray release the
count can be zero while a thread reads, and a writer gets in, or it can stay at -1: so `HandlesWhatItChecked` and
`FaultEnds` are claimed as long as there is none.

`page_fault`: two threads and two events (`MaxEvents`: changes of the mapping,
allocation failures, reclaims, vmallocs, kills, further accesses), enough for a vma to go
between an attempt and its retry, or a kill to come during the wait. `HandlesWhatItChecked` is about steps and not states, as `expand_stack` changes a vma
under the read lock; and it has an exception for the same reason the code has one:
`code` stays SEGV_ACCERR from a first attempt when the retry finds nothing mapped.
Fairness: runnable threads run and page I/O ends. `page_fault_killed` drops the latter,
as a page may stay under I/O for as long as a device or a server likes.

Disagreements between the code and its comments that these runs show:

- `page_fault_user_vmalloc`: a user-mode fault in the vmalloc area goes from
  line 208 to `bad_area`, which releases a `mmap_sem` nobody took; the
  comment at `mm/fault.c:35` says no lock may be touched there.
- `page_fault_killed`: with a fatal signal pending, a kernel-mode fault that
  gets `VM_FAULT_RETRY` returns at line 109 without a fixup and is redone while
  the page stays locked; the comment at `mm/fault.c:96` promises a graceful exit.

### Signal

One thread, its user program and the frames on its stack. The program makes a
call with the arguments set just before it; `regs` are its registers, `pt_regs`
while the kernel runs, with `scause` as SAVE_ALL stored it. What a call returns
when a signal interrupts it depends on the call (`RestartCode`). `HandleSignal` is
one pass of `do_notify_resume` with a handler to run, `NoSignal` one
without; the passes repeat while `tif` is set, as `ret_from_exception` does.
Signals are sent at any moment and may be taken by another thread, which leaves
the flag behind. Register values other than the restart codes are told apart only by
where they come from; a program that puts a restart code in a0 itself is left
out, as are the alternate stack and bad frames in `rt_sigreturn`.

In `user_task`: two signals, with and without SA_RESTART, four sends, all five kinds of
call; four sends allow a nested handler and a further pass over either
return. Two further runs show disagreements with the comments of `signal.c:199-201`:

- `signal_argument`: after a rewind the ecall runs with the restart code in a0,
  as `entry.S:184` has overwritten the argument;
- `signal_rewind`: `do_signal` leaves `scause` and `a0` as they are, so a second
  pass before the return (a second signal that another thread takes, or one
  after `rt_sigreturn`) rewinds sepc over the instruction before the ecall.

In `user_task` the program goes on from there like the real one would, so
the properties hold of the code with these defects.

### FState

`reg[h]` is the register file of a hart, `fstate[t]` the saved one of a task, each
a pair of halves because the copies to and from a signal frame may sleep half
way. `fs[t]` is the FS field a task's user context has; the kernel runs with FS off and
never touches the registers. Actions are the calls of `switch_to.h`, `process.c` and
`signal.c`: a context switch (`Switch`: save if dirty, load unless off), fork
in two steps (`arch_dup_task_struct`, `copy_thread`), exec in two (`flush_thread`,
`start_thread`), and both directions of `sigcontext` in two each. What a
program may expect is the ghost `mine`.

In `user_task`: two harts, two tasks (`Threads`; both harts may be busy, and a task moves between
them), two values, one frame, symmetric in the harts. Exceptions, each written in the
property or the model:

- `__fstate_clean` ors its bits in without clearing the field, so that a dirty
  state stays dirty and an initial one becomes dirty: saving is done more often than
  needed, which is safe (`Cleaned`);
- exec sets the saved state to zero but not the registers, and loads nothing: a new
  program is promised nothing (`Unset`);
- a switch between the copy into `fstate` and `fstate_restore` in `restore_sigcontext`
  saves the handler's registers over what was copied (`torn`).

### Boot, Pte, Mm and System

`Boot` follows every hart from `_start`: the boot hart through `setup_arch`, `smp_init`
(one `__cpu_up` after the other) and the initcall of the console, the others through the wait
for a stack pointer and `smp_callin`. `sbi_console_isr` runs in an interrupt of any
hart, and once in the initcall; its lock is taken as `arch_spin_lock` does, a read
loop and an amoswap. The memory map, traps and clock of a hart are the set `ready`.
Exceptions of its properties: the initcall polls the console with interrupts on
while the handler takes the same lock plainly, so an interrupt there waits for itself
(`SelfDeadlock`). When `request_irq` fails, the driver is put but stays registered, which
the model shows as the stage `freed`.

`Pte` has the helpers of `pgtable.h` over the low bits of an entry and the rest, where the
frame number and the swap offset overlap as in the code. In `Mm` each address space has one
user page below one page-table page of each level. A kernel operation (fault, mprotect,
munmap, reclaim, write-back, aging) reads the entry, writes it in a later step and then waits for
the remote sfence of every hart, which happen one by one; the hardware walks the
tables in three steps, caches a translation and sets the accessed and dirty bits in between.
The operations are those of the generic memory manager with its locks, external here; what
they call is the port's. Exceptions:

- the helpers read and write an entry non-atomically, so a dirty bit the hardware sets in
  between is lost (`raced`);
- an entry of `PAGE_NONE` is not present and not none, so it is taken for a swap entry when
  unmapped and its frame is lost (`leaked`, `Residue`);
- `__pmd_free_tlb` frees the page at once, not after the flush. A walker that reads the freed page goes astray
  (`"stray"`), as it may hold anything by then; `NoStaleTranslation` says that this hart has a flush to come, and
  what the walker makes of the page until then is not modelled;
- `pte_mkyoung` and `pte_mkold` are exchanged: the model has them so, with no effect on
  the three properties (pages never look old).

`system`: four harts and three slots, so that one parks; two harts run the programs of two address
spaces, one shared and one private page, with two frames, so that frames are reused, and three
changes of mappings (a first mapping, a change, and a reuse of the frame). Programs run from one
end of boot only, the one with the console working, as nothing else that boot leaves
behind matters to `Mm`. A machine may stop (harts rest, the console may deadlock, the
changes are used up), so deadlock is not checked; instead `BootFinishes` says that boot ends.
Fairness: weak, for each hart: it keeps executing. Nothing is assumed of interrupts.

### Library

Each topic is small enough to look at all its inputs; a word is a few bytes or has
a few values where only its wrapping matters.

- `UserCopy`: `__copy_user` and `__clear_user` with a fault at any access, `get_user` and
  `put_user` of one register and of two in a 32-bit build. Registers of four bytes, nine
  addresses (every alignment of source against destination), lengths to 11 (head, words, tail).
  The fixup subtracts the destination pointer from the end of the source, so after a
  fault in a copy its count is off by the distance of the two: of it `CopiesExact` claims only that it is an error when
  the ranges are apart; the count of a clear is exact. The fixup of the 32-bit `__put_user_8` jumps back to the second store,
  so that a fault in it is repeated for ever and the promised -EFAULT (`uaccess.h:395`) never returned:
  run `put_user`, under weak fairness of the hart.
- `MemOps`: `memset` and `memcpy` with rounds of four words instead of 32 and blocks of two instead
  of 16, two alignments, lengths over several rounds; the entry into the middle of the round is
  the interesting part.
- `Clock`: `get_cycles` in both builds with the counter running at any speed between its reads,
  `__delay` across a wrap, `set_next_event`. Registers of four values, and enough ticks to wrap
  twice. Exception: in a 32-bit build `get_cycles` returns half of the counter, so after 2^32 ticks
  a timer is due at once. (The clock source is 32 bits wide in both builds, as `time.c:59` tests
  a name that is defined nowhere, `CONFIG_64BITS`; it is not modelled.)
- `StackWalk`: the walk with frame pointers and without over a stack whose words hold anything, as
  another hart may run the task meanwhile.
- `Atomics`: every operation as an AMO or a loop of lr and sc, by two harts, against what the
  comments promise; words of 16 values in two halves, which begin with one of `Starts`. The code does not keep
  two of the promises, and `AtomicAsPromised` leaves them out: `atomic64_dec_if_positive` stores
  the lower half only and takes the most negative value for a positive one; `atomic64_add_unless` returns a
  variable that no path has written if it does not add. Run `atomics` has them (`AtomicAsCommented`).
- `FrameBuffer`: probe with every failing step, modes and pans, against what the controller then
  reads, with a video memory of 32 bytes and an `unsigned int` of 8 bits. Sizes asked for are 0, small,
  or more than half of the numbers. Exceptions: the size test wraps for huge heights; the virtual
  width does for widths of more than half of the numbers; between `set_par` and `pan_display` the
  base is that of the old mode; with 4 bits per pixel shifts are by -1, which matters for the
  offsets only; and `iris_pan_display` takes the depth from the structure of its caller, of which the fb
  core has checked the offsets only, so that a pan to the right by a greater depth than the mode's, or by none that makes a
  byte, leaves the memory (`Misplaced`). (Each exception happens in the run.) A failing `register_framebuffer` undoes
  nothing, which does no harm
  to what the controller reads.
- `ConfigParser` (the passes) and `ConfigString` (the lookups): every string of up to five fragments out
  of nine, through both passes and every lookup. `parse_config_string` calls itself for each block and hands its
  state down and up by value; here the parser goes by steps, an item begun or ended, a value taken, a
  block opened or closed, and the calls under way are the sequence `blocks` of the locals of
  each. `find_key` is recursive as in the code. `DevicesRight` says that the passes agree, `ValuesRight` that
  the resources and the lookups are what stands in the string. Exceptions: a device declared right in a `mem`, `irq` or `bus` block makes `parse_range`
  follow a null parent; an item may not go on after a block (the key is that of the last item in it);
  `find_key` searches the first of repeated blocks only; an overflow in the last digit
  is not noticed; a string of opening braces only would need one root more than allocated.

## 3. What is proved

Every theorem rests on the assumptions its module makes of its constants (`...Assumption`,
which TLC evaluates in every run) and holds for every value they allow: any number of
harts, tasks, frames, requests, every width and length. The bounds that keep TLC's instances
finite (`MaxRequests`, `MaxEvents`, `MaxFrames`, `MaxOps`, `MaxTime` and the like)
are constants too, so a theorem holds for each of them. Each
proof has the same outline: an invariant `IInv`, checked by TLC on the run's instance first, is
shown to hold initially and to be kept by each action, one lemma per action; the properties
follow from it.

`RwLock_proofs` (any finite set of harts): the inductive invariant `IInv` is
`TypeOK`, `WordMatchesHolders`, `NoStaleStore` (a context at its `sc` with the
reservation alive has in `tmp` the value computed from the present lock word) and
`HandlerIdle` (outside of an interrupt the handler context holds nothing).
`WordMatchesHolders` alone is not inductive: an `sc` would be free to store
anything. From it: type correctness, the lock word theorem, and the refinement
`Spec => Implements`. The assumption is `HartsAssumption` (finiteness, for
counting readers).

`Ipi_proofs` (any harts, any number of requests): `IInv` is `TypeOK`,
structural parts (`BatchInv`, `FlushInv`: a handler has a batch only in its loop;
`BufferInv`: a buffered bit belongs to the request being sent; `RequestInv`: a
sender's mask and kind fit its place), and the properties themselves,
which support each other: a forgotten call is excluded because a sender that
found the queue non-empty relies on one that has still to set its bit, a
stranded bit because a bit is set before its interrupt is sent and the handler
loops until it reads zero. `CsdNotReused` is inductive: a descriptor is queued only
by the sender that has just locked it, and unlocked only when it has left the batch. That a
wait ends only when the calls have run (`WaitMeansDone`, a property of steps, which `CallsAsPromised` includes and
so has no run of its own) then follows, except for `smp_send_stop`:
its wait never ends, as the descriptors of its own calls stay locked (`StopInv`). The
refinement `Spec => CallsAsPromised` needs one invariant more: a listed call that somebody waits for is one of the
request its sender is in, past the queueing and before the return (`AwaitInv`), so that a return
leaves none behind. `Enqueue` maps to `AskOne`, `IsrCall` and `IsrCalled` to `Begin` and `End`, `Waited` to
`Return`; taking the queue as a whole (`IsrFlush`) and all that is about bits, fences, interrupts and masks maps to no step.

`Signal_proofs` (any signals, handler flags, calls and masks, any number of
sends): every invariant of its part of `user_task`. None but `TypeOK` and
`PendingIsFlagged` says enough of the state in the kernel to be inductive, so
`IInv` adds where everything is: the oldest frame is the program's and each newer
one that of the handler below it (`WhereInv`); the mask sigsuspend put aside is
pending only while there is no frame and only until the first pass of
`do_signal` (`MaskInv`); a frame's mask holds the signals of all frames below it
and not its own (`ChainInv`, from which no handler runs on top of itself); a
restart code stands behind the ecall only while the flag is set and `scause`
says system call (`CodeInv`); and a result of EINTR, or a `restart_syscall`
whose `restart_block` has been cleared, means that a handler has run
(`ResultInv`). The lemmas `RestartForHandlerRegs` and `RestartWithoutHandlerRegs` say what
the two restart switches of `signal.c` do to registers. The two disagreements
of the runs `signal_argument` and `signal_rewind` are within these theorems:
whatever is executed again after a second rewind, the mask, the flag and the
result codes stay right.

`TrapEntry_proofs` (any tasks, any work bits): every property of its part of `user_task`. `IInv` says of every frame
where its trap came from and how high it can be (`FrameOK`), of a
frame below another trap or of a task switched out that it is at a stage which can be trapped in (`Suspended`),
that no interrupt handler has a frame above it that was taken with interrupts on (`IrqInv`), and how
the registers fit the top frame (`TopOK`, `KernelInv`, `UserInv`, `ThreadInv`). `NestingBounded` rests on a height for
each frame: within l interrupts a stack has at most 2l + 3 frames, and at most 2l + 2 up to one that runs with interrupts on
or handles a page fault; and no interrupt is taken within two others. `NoWorkLeftBehind` holds because `RESTORE_ALL` is reached
with interrupts off since the flags were read. `FramesUntouched` is proved of each step.

`PageFault_proofs` (any finite set of threads, any mappings, any accesses, any number of events): the properties
`SemMatchesHolders`, `NoSleepInAtomic` and `HandlesWhatItChecked` of the run `page_fault`, without a hypothesis. Only
user addresses of threads that may sleep get past the first tests, and a user access to the vmalloc area goes straight to
`bad_area` (`PathInv`); from this the stray releases are all that the count is too low by. `SemBalanced` says what
remains when no access of user mode goes there: no stray release (`StrayInv`), and a count that is that of the holders.
`HandlesWhatItChecked` needs further that a vma checked under the semaphore still covers the access, and that
whoever changes it grows it (`VmaInv`, as long as no stray release has let a writer in), and that a signal's code
is right, or preset only in a second attempt (`CodeInv`).

`FState_proofs` (any harts, tasks, values and nesting of signal frames): `OwnRegisters`, that
a program computes with its own registers, and `SavedRight`. `IInv` says where a task's registers are at
any time: in the hart it runs on (`RegInv`) or in its `fstate` (`SavedInv`), in a new child's as its parent
had them (`ForkInv`), half in the frame and half in either while a frame is written or read (`HalfInv`,
`FrameInv`); and that skipping the save is right, since a task whose FS is not dirty, or was not
at its trap, has never been promised anything (`FreshInv`).

`System_proofs` (any number of harts and slots, any address spaces, frames and operations):

- of `Boot`, `OnlineIsReady` (from how far hart 0 has got with each hart, `StartInv`) and `PortLockSafe` (`LockInv`:
  the lock is taken exactly while one context is between amoswap and release;
  `DriverInv`: the handler runs only after its interrupt was requested, so a hart
  that waits for itself can only be hart 0 in the first poll);
- of `Mm`, `NoStaleTranslation`, `FramesAccounted` and `DirtyKept`. The invariant says that a
  cached translation agrees with the entry or has a flush to come and that its frame is still that address
  space's (`TlbInv`); a frame has one owner, behind an entry or held by an operation that
  took the page out and has not flushed yet (`OwnInv`); two operations meet on one page only where the
  locks of `mm/` let them (`Exclusive`, `OpInv`); and a page modified, or modifiable without
  the walker, is known to be dirty (`KnownInv`). Frames are any natural numbers but 0, so
  the arithmetic of entries (page number and swap offset in one field) is proved, not enumerated.

`Routines_proofs` (each topic for every size of register, word, stack, buffer, address and length, as
specifications of their own in `Routines`; every behaviour of `Library` is one of each):

- `WaitsLongEnough`: what `__delay` compares is the difference of two readings modulo the
  register, which is never more than the time between them (`Difference`);
- `WalkBounded`: the frame or word read is always inside the stack and above the last;
- `BytesExact`, from `CopiesExact` (the bytes behind the pointer are done, the loops meet at aligned addresses,
  and the count of a clear is what is left; of a copy between ranges that are apart, it is not zero before its end) and `MemExact` (`RoundInv`: after going back by
  the words skipped, whole rounds are ahead, and the count's remainder modulo a word is what
  comes after them). Two assumptions in `MemOps` are needed and hold of the code: 16 bytes, the least
  `memset` treats by words, hold an aligned word wherever they begin, and 128, the least `memcpy`
  does, hold the bytes before one;
- `AtomicAsPromised`, with the two claims it leaves out, for any number of harts and any word of an even number of bits. An AMO does what its comment says
  at once, by the arithmetic of two's complement (`WrapSums`, `WrappedZero`) and of a single bit (`OneBit`).
  A loop of lr and sc does when its sc stores, since the word is still what lr has loaded while the
  reservation is valid (`LoopsInv`), or when it leaves. The hart's amoand, amoor and amoxor are defined bit by
  bit (`Combined` in `Words`); how they agree with addition (`BitwiseLaws`) and with a single bit
  (`MaskLaws`) is proved by induction over the bits. TLC compares them with the bitwise operations of
  the community modules;
- `ScansVideoMemory`, for any memory of a power of two and any width of an `unsigned int`
  (`FbInv`): the virtual width is 2^e, a line takes 2^k bytes, and the mode has VIDEOMEM_SIZE / 2^k lines (`HasWidth`), so
  that an offset within the virtual resolution stays within the memory (`WholeBytes`). With 4 bits per pixel
  a line counts 0 bytes and the controller reads the first one again and again, which fits as the
  test has bounded half of the width (`HalfBytes`). A pan may state any depth; one between a byte and the
  mode's stays inside. One assumption is needed that the code does
  not check: the first mode fits. It does, with 320 by 480 pixels of 16 bits in 4 MiB;
- `DevicesRight`, for every string of any length, fragments, numerals and width of a number. A pass ends:
  each step uses up something of `Rank`, the tokens ahead, the blocks open and how far the
  item at hand has got (`RankLess`), and `Steps` of them are enough (`RunEnds`). In pass 0 nothing
  is made and only roots that were met are marked (`Pass0Inv`). Pass 1 stays in step with
  pass 0, at the same token, root and key in each block (`SameStep`), until it follows a null
  parent, and only the block of a device right in a keyword's has one to follow (`Target`). The windows are
  nested because those of the devices around the current token are the ones of the open blocks
  and no other grows (`Nested`, `Targets`), and a device is made for each mark when its block is
  opened (`Made`).

Induction. The library's induction theorems take an operator as a parameter, which no prover here
can instantiate. `Induction` states it for a set instead, from the minimum that a well-founded
relation has (`WFMin`), and `RecursionExists` that a recursive function on the numbers is what its equation
says. What rests on them: powers of two (`Pow2Sum`, `Pow2Less`, `BetweenPowers`) and the bitwise
operations, and that the state of a pass after n steps, a recursive function as well, is that of its equation (`RunExists`).

Only model-checked:

- liveness (`SomebodyGetsIt`, `RequestsServed`, `FaultEnds`, `BootFinishes`), which rests on
  fairness and ENABLED and is out of the prover's reach;
- `ValuesRight`: `find_key` calls itself for the items after an item and for the blocks in it, and
  `ConfigString` declares RECURSIVE operators for it, which the provers do not take.

`Library` extends `ConfigString`, so nothing can be proved in it either;
`Routines` is the part of it that is free of them.

## 4. Plan

Done: the modules above, every run, and the theorems for every safety property but `ValuesRight`.
Left, in order of importance:

1. `find_key` as a step machine like the parser, and with it a proof of `ValuesRight`;
2. abstract specifications of `Mm` (a memory that forgets a translation at once) and of the trap
   path (a stack of calls), with the present models shown to implement them.

## 5. Not modelled

- ptrace, the vDSO, the system-call table and wrappers, `setup.c` and the build files: they keep no
  state that evolves under concurrency or failure, or hand everything to generic code;
- `ashldi3.c`, the palette and colour fields of the frame buffer, console output, the printing of
  traces: pure data movement or I/O;
- kernel page tables, `ioremap` and huge pages: built once, and only widened after;
- memory ordering between different words, except where `Ipi` and `Boot` say so: it would take
  models of the generic code that relies on it;
- code and paths the component list in `PROJECT.json` names as left out.
