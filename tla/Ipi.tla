-------------------------------- MODULE Ipi --------------------------------
(***************************************************************************)
(* Inter-processor interrupts, kernel/smp.c: send_ipi_message on the       *)
(* sending hart against ipi_isr on the receiving one, under their two real *)
(* users: a remote reschedule (set TIF_NEED_RESCHED, then interrupt) and a *)
(* cross call (queue a csd, then interrupt).  The queue, the csd locks and *)
(* the run queue lock are generic kernel code outside this repository and  *)
(* the software interrupt itself belongs to the machine-mode firmware;     *)
(* both are modelled from how smp.c and the trap exit of entry.S use them. *)
(* So is handle_level_irq, which init_IRQ chooses for the interrupt: one   *)
(* descriptor for all harts, whose mask is each hart's own.                *)
(*                                                                         *)
(* Memory is weak: amoor (set_bit) results wait in the hart's buffer       *)
(* buffer[h] and reach memory in any order; mb() waits for them.  A hart's *)
(* task does not run while its handler does.                               *)
(***************************************************************************)
EXTENDS Naturals, Sequences, FiniteSets

CONSTANTS
    Harts,        \* the online harts, a set of naturals (for_each_cpu's order)
    MayAsk,       \* MayAsk[h]: the kinds of request hart h makes
    MaxRequests   \* bound: requests and console characters in a behaviour

Kinds == {"reschedule", "single", "single_wait", "many", "many_wait", "stop"}

ASSUME IpiAssumption ==
    /\ Harts \subseteq Nat /\ IsFiniteSet(Harts)
    /\ MayAsk \in [Harts -> SUBSET Kinds]
    /\ MaxRequests \in Nat

VARIABLES
    bits,     \* bits[i]: ipi_data[i].bits, the set of pending messages
    ipi,      \* ipi[i]: the firmware's software-interrupt flag of hart i
    budget,   \* requests and console characters still to come
    buffer,   \* buffer[h]: stores of h not yet in memory
    need,     \* need[i]: TIF_NEED_RESCHED of the task running on hart i
    queue,    \* queue[i]: call_single_queue of hart i, oldest csd first
    locked,   \* the locked csds: <<sender, slot, target>>
    pc,       \* pc[h]: where the task of hart h is
    req,      \* req[h]: the request it is making
    left,     \* left[h]: what remains of its for_each_cpu loop
    isr,      \* isr[h]: where the software-interrupt handler of hart h is
    masked,   \* masked[h]: hart h has masked the software interrupt
    batch     \* batch[h]: what the handler took off queue[h]

vars == <<bits, ipi, budget, buffer, need, queue, locked, pc, req, left, isr, masked, batch>>
memory  == <<bits, need>>
calls   == <<queue, locked>>
handler == <<isr, masked, batch>>

NoReq == [kind |-> "none", to |-> {}]

Init ==
    /\ bits = [i \in Harts |-> {}]
    /\ ipi = [i \in Harts |-> FALSE]
    /\ budget = MaxRequests
    /\ buffer = [h \in Harts |-> {}]
    /\ need = [i \in Harts |-> FALSE]
    /\ queue = [i \in Harts |-> <<>>]
    /\ locked = {}
    /\ pc = [h \in Harts |-> "user"]
    /\ req = [h \in Harts |-> NoReq]
    /\ left = [h \in Harts |-> {}]
    /\ isr = [h \in Harts |-> "off"]
    /\ masked = [h \in Harts |-> FALSE]
    /\ batch = [h \in Harts |-> <<>>]

-----------------------------------------------------------------------------
\* What a request is: the message it sends, whether the caller waits for the
\* called function to end, the csd slot it uses and the function.

Message(k) == IF k = "reschedule" THEN "IPI_RESCHEDULE" ELSE "IPI_CALL_FUNC"
Waits(k)   == k \in {"single_wait", "many_wait", "stop"}
Slot(r)    == IF Cardinality(r.to) > 1 THEN "cfd"          \* per target
              ELSE IF Waits(r.kind) THEN "stack" ELSE "csd_data"
Function(k) == IF k = "stop" THEN "ipi_stop" ELSE "fn"

\* The task of h executes: no handler is on top of it.
Executing(h) == isr[h] = "off"

\* resched_curr runs under the target's run queue lock with interrupts off,
\* and schedule() needs that lock to clear the flag.
Rescheduling(h) == req[h].kind = "reschedule" /\ pc[h] # "exit"
RqFree(i) == \A h \in Harts : ~(Rescheduling(h) /\ i \in req[h].to)
IrqsOn(h) == ~Rescheduling(h)

\* for_each_cpu visits a mask in ascending order.
IsFirst(i, s) == i \in s /\ \A j \in s : i <= j

\* Mutant: a barrier that orders nothing.
NoMb(h) == TRUE

\* mb(): a fence on hart h completes once all its stores are in memory.
Mb(h) == buffer[h] = {}

-----------------------------------------------------------------------------
\* The task: make a request, send the message, wait, return to user mode.

Ask(h) == Executing(h) /\ pc[h] = "user" /\ budget > 0 /\ budget' = budget - 1

\* resched_curr(i): nothing to do if the flag is already set.
AskReschedule(h, i) ==
    /\ Ask(h) /\ "reschedule" \in MayAsk[h]
    /\ i # h /\ RqFree(i) /\ ~need[i]
    /\ buffer' = [buffer EXCEPT ![h] = @ \cup {<<"NEED_RESCHED", i>>}]
    /\ req' = [req EXCEPT ![h] = [kind |-> "reschedule", to |-> {i}]]
    /\ pc' = [pc EXCEPT ![h] = "fence1"]
    /\ UNCHANGED <<memory, ipi, calls, left, handler>>

\* smp_call_function_single / _many; smp_send_stop is a waiting call of
\* ipi_stop on everybody else (its own turn would come after the others).
AskCall(h, k, to) ==
    /\ Ask(h)
    /\ k \in MayAsk[h] \ {"reschedule"}
    /\ to # {} /\ h \notin to
    /\ IF k \in {"single", "single_wait"}
       THEN Cardinality(to) = 1 ELSE to = Harts \ {h}
    /\ req' = [req EXCEPT ![h] = [kind |-> k, to |-> to]]
    /\ left' = [left EXCEPT ![h] = to]
    /\ pc' = [pc EXCEPT ![h] = "enqueue"]
    /\ UNCHANGED <<memory, ipi, buffer, calls, handler>>

Csd(h, r, i) == <<h, Slot(r), i>>

\* Mutant: csd_lock does not wait for the csd's last use.
CsdAlwaysFree(h, r, i) == TRUE

\* csd_lock spins on a csd still in use; the single slot is one csd whatever
\* its target.
CsdFree(h, r, i) ==
    IF Slot(r) = "csd_data"
    THEN \A j \in Harts : <<h, "csd_data", j>> \notin locked
    ELSE Csd(h, r, i) \notin locked

Call(h, i) == [csd |-> Csd(h, req[h], i), wait |-> Waits(req[h].kind),
               func |-> Function(req[h].kind)]

\* Mutant: a call to several harts also relies on a queue that is not empty.
InterruptsIfEmpty(h, i) == queue[i] = <<>>

\* A call to one hart interrupts it only if its queue was empty; a call to
\* several harts interrupts them all.
Interrupts(h, i) == Slot(req[h]) = "cfd" \/ queue[i] = <<>>

\* csd_lock and llist_add, whose cmpxchg is fenced on both sides.
Enqueue(h) ==
    /\ Executing(h) /\ pc[h] = "enqueue" /\ Mb(h)
    /\ \E i \in left[h] :
          /\ IsFirst(i, left[h]) /\ CsdFree(h, req[h], i)
          /\ locked' = locked \cup {Csd(h, req[h], i)}
          /\ queue' = [queue EXCEPT ![i] = Append(@, Call(h, i))]
          /\ left' = [left EXCEPT ![h] = @ \ {i}]
          /\ pc' = [pc EXCEPT ![h] =
                IF left[h] # {i} THEN "enqueue"
                ELSE IF Interrupts(h, i) THEN "fence1"
                ELSE IF Waits(req[h].kind) THEN "wait" ELSE "exit"]
    /\ UNCHANGED <<memory, ipi, budget, buffer, req, handler>>

\* send_ipi_message: mb, a set_bit per target, mb, an sbi_send_ipi per target.
Fence1(h) ==
    /\ Executing(h) /\ pc[h] = "fence1" /\ Mb(h)
    /\ left' = [left EXCEPT ![h] = req[h].to]
    /\ pc' = [pc EXCEPT ![h] = "set"]
    /\ UNCHANGED <<memory, ipi, budget, buffer, calls, req, handler>>

SetBit(h) ==
    /\ Executing(h) /\ pc[h] = "set"
    /\ \E i \in left[h] :
          /\ IsFirst(i, left[h])
          /\ buffer' = [buffer EXCEPT ![h] = @ \cup {<<Message(req[h].kind), i>>}]
          /\ left' = [left EXCEPT ![h] = @ \ {i}]
          /\ pc' = [pc EXCEPT ![h] = IF left[h] = {i} THEN "fence2" ELSE "set"]
    /\ UNCHANGED <<memory, ipi, budget, calls, req, handler>>

Fence2(h) ==
    /\ Executing(h) /\ pc[h] = "fence2" /\ Mb(h)
    /\ left' = [left EXCEPT ![h] = req[h].to]
    /\ pc' = [pc EXCEPT ![h] = "send"]
    /\ UNCHANGED <<memory, ipi, budget, buffer, calls, req, handler>>

SendIpi(h) ==
    /\ Executing(h) /\ pc[h] = "send"
    /\ \E i \in left[h] :
          /\ IsFirst(i, left[h])
          /\ ipi' = [ipi EXCEPT ![i] = TRUE]
          /\ left' = [left EXCEPT ![h] = @ \ {i}]
          /\ pc' = [pc EXCEPT ![h] =
                IF left[h] # {i} THEN "send"
                ELSE IF Waits(req[h].kind) THEN "wait" ELSE "exit"]
    /\ UNCHANGED <<memory, budget, buffer, calls, req, handler>>

\* csd_lock_wait on every target's csd.
Waited(h) ==
    /\ Executing(h) /\ pc[h] = "wait"
    /\ \A i \in req[h].to : Csd(h, req[h], i) \notin locked
    /\ pc' = [pc EXCEPT ![h] = "exit"]
    /\ UNCHANGED <<memory, ipi, budget, buffer, calls, req, left, handler>>

\* The flag of the interrupted task is looked at with interrupts off, and
\* schedule() clears it.
CheckNeed(h) ==
    IF need[h] THEN RqFree(h) /\ need' = [need EXCEPT ![h] = FALSE]
    ELSE UNCHANGED need

\* ret_from_syscall, resume_userspace and, if needed, work_resched.
Exit(h) ==
    /\ Executing(h) /\ pc[h] = "exit"
    /\ CheckNeed(h)
    /\ pc' = [pc EXCEPT ![h] = "user"]
    /\ req' = [req EXCEPT ![h] = NoReq]
    /\ UNCHANGED <<bits, ipi, budget, buffer, calls, left, handler>>

-----------------------------------------------------------------------------
\* The machine: a buffered store reaches memory; a software interrupt is taken.

Store(h) == \E s \in buffer[h] :
    /\ buffer' = [buffer EXCEPT ![h] = @ \ {s}]
    /\ IF s[1] = "NEED_RESCHED"
       THEN need' = [need EXCEPT ![s[2]] = TRUE] /\ UNCHANGED bits
       ELSE bits' = [bits EXCEPT ![s[2]] = @ \cup {s[1]}] /\ UNCHANGED need
    /\ UNCHANGED <<ipi, budget, calls, pc, req, left, handler>>

\* handle_level_irq runs the actions of the descriptor on this hart.
InProgress(h) == isr[h] \in {"clear", "xchg", "flush", "run", "function", "unmask"}

\* handle_level_irq, under the descriptor's lock: mask_ack on this hart; if the
\* actions are in progress on another one, leave it at that.
Arrive(h) ==
    /\ masked' = [masked EXCEPT ![h] = TRUE]
    /\ isr' = [isr EXCEPT ![h] =
          IF \E g \in Harts : InProgress(g) THEN "return" ELSE "clear"]

TakeIpi(h) ==
    /\ isr[h] = "off" /\ IrqsOn(h) /\ ~masked[h] /\ ipi[h]
    /\ Arrive(h)
    /\ UNCHANGED <<memory, ipi, budget, buffer, calls, pc, req, left, batch>>

\* The console shares the interrupt (IRQF_SHARED), so ipi_isr also runs when
\* no IPI is pending.
TakeConsole(h) ==
    /\ isr[h] = "off" /\ IrqsOn(h) /\ ~masked[h] /\ budget > 0
    /\ budget' = budget - 1
    /\ Arrive(h)
    /\ UNCHANGED <<memory, ipi, buffer, calls, pc, req, left, batch>>

-----------------------------------------------------------------------------
\* ipi_isr.

\* sbi_clear_ipi says whether one was pending; if not, IRQ_NONE.
IsrClear(h) ==
    /\ isr[h] = "clear"
    /\ isr' = [isr EXCEPT ![h] = IF ipi[h] THEN "xchg" ELSE "unmask"]
    /\ ipi' = [ipi EXCEPT ![h] = FALSE]
    /\ UNCHANGED <<memory, budget, buffer, calls, pc, req, left, masked, batch>>

\* ops = xchg(pending_ipis, 0): leave the loop on zero.  scheduler_ipi has
\* nothing to do here, the flag is looked at on the way back to user mode.
IsrXchg(h) ==
    /\ isr[h] = "xchg"
    /\ bits' = [bits EXCEPT ![h] = {}]
    /\ isr' = [isr EXCEPT ![h] =
          IF bits[h] = {} THEN "unmask"
          ELSE IF "IPI_CALL_FUNC" \in bits[h] THEN "flush" ELSE "xchg"]
    /\ UNCHANGED <<ipi, need, budget, buffer, calls, pc, req, left, masked, batch>>

\* generic_smp_call_function_interrupt: take the whole queue, ...
IsrFlush(h) ==
    /\ isr[h] = "flush"
    /\ batch' = [batch EXCEPT ![h] = queue[h]]
    /\ queue' = [queue EXCEPT ![h] = <<>>]
    /\ isr' = [isr EXCEPT ![h] = "run"]
    /\ UNCHANGED <<memory, ipi, budget, buffer, locked, pc, req, left, masked>>

\* Mutant: the csd of a waiting call is given back before its function runs.
IsrCallUnlocksEarly(h) ==
    /\ isr[h] = "run" /\ batch[h] # <<>>
    /\ locked' = locked \ {Head(batch[h]).csd}
    /\ isr' = [isr EXCEPT ![h] = "function"]
    /\ UNCHANGED <<memory, ipi, budget, buffer, queue, pc, req, left, masked, batch>>

\* ... and call the functions in order.  The csd of an asynchronous call is
\* unlocked before its function runs, that of a waiting call after it ends.
IsrCall(h) ==
    /\ isr[h] = "run" /\ batch[h] # <<>>
    /\ LET c == Head(batch[h])
       IN locked' = IF c.wait THEN locked ELSE locked \ {c.csd}
    /\ isr' = [isr EXCEPT ![h] = "function"]
    /\ UNCHANGED <<memory, ipi, budget, buffer, queue, pc, req, left, masked, batch>>

\* A function ends, except ipi_stop.
IsrCalled(h) ==
    /\ isr[h] = "function" /\ Head(batch[h]).func # "ipi_stop"
    /\ LET c == Head(batch[h])
       IN locked' = IF c.wait THEN locked \ {c.csd} ELSE locked
    /\ batch' = [batch EXCEPT ![h] = Tail(@)]
    /\ isr' = [isr EXCEPT ![h] = "run"]
    /\ UNCHANGED <<memory, ipi, budget, buffer, queue, pc, req, left, masked>>

IsrFlushed(h) ==
    /\ isr[h] = "run" /\ batch[h] = <<>>
    /\ isr' = [isr EXCEPT ![h] = "xchg"]
    /\ UNCHANGED <<memory, ipi, budget, buffer, calls, pc, req, left, masked, batch>>

\* The rest of handle_level_irq: the actions are no longer in progress, and
\* this hart's interrupt is unmasked.
IsrUnmask(h) ==
    /\ isr[h] = "unmask"
    /\ masked' = [masked EXCEPT ![h] = FALSE]
    /\ isr' = [isr EXCEPT ![h] = "return"]
    /\ UNCHANGED <<memory, ipi, budget, buffer, calls, pc, req, left, batch>>

\* ret_from_exception: only a return to user mode looks at the flag.
IsrReturn(h) ==
    /\ isr[h] = "return"
    /\ IF pc[h] = "user" THEN CheckNeed(h) ELSE UNCHANGED need
    /\ isr' = [isr EXCEPT ![h] = "off"]
    /\ UNCHANGED <<bits, ipi, budget, buffer, calls, pc, req, left, masked, batch>>

-----------------------------------------------------------------------------
TaskStep(h) == \/ Enqueue(h) \/ Fence1(h) \/ SetBit(h) \/ Fence2(h)
               \/ SendIpi(h) \/ Waited(h) \/ Exit(h)

IsrStep(h) == \/ IsrClear(h) \/ IsrXchg(h) \/ IsrFlush(h) \/ IsrCall(h)
              \/ IsrCalled(h) \/ IsrFlushed(h) \/ IsrUnmask(h) \/ IsrReturn(h)

Request(h) ==
    \/ \E i \in Harts : AskReschedule(h, i)
    \/ \E k \in Kinds, to \in SUBSET Harts : AskCall(h, k, to)

Next == \E h \in Harts :
    \/ Request(h) \/ TaskStep(h) \/ Store(h)
    \/ TakeIpi(h) \/ TakeConsole(h) \/ IsrStep(h)

\* Harts execute, stores drain, a pending interrupt is taken if it stays unmasked.
\* Requests are never obliged to come.
Fairness == \A h \in Harts :
    WF_vars(TaskStep(h)) /\ WF_vars(Store(h)) /\ WF_vars(TakeIpi(h)) /\ WF_vars(IsrStep(h))

Spec == Init /\ [][Next]_vars
FairSpec == Spec /\ Fairness

-----------------------------------------------------------------------------
Messages == {"IPI_RESCHEDULE", "IPI_CALL_FUNC"}
Csds == Harts \X {"cfd", "stack", "csd_data"} \X Harts
Calls == [csd : Csds, wait : BOOLEAN, func : {"fn", "ipi_stop"}]
Requests == [kind : Kinds \cup {"none"}, to : SUBSET Harts]

TypeOK ==
    /\ bits \in [Harts -> SUBSET Messages]
    /\ ipi \in [Harts -> BOOLEAN]
    /\ budget \in 0..MaxRequests
    /\ buffer \in [Harts -> SUBSET ((Messages \cup {"NEED_RESCHED"}) \X Harts)]
    /\ need \in [Harts -> BOOLEAN]
    /\ queue \in [Harts -> Seq(Calls)]
    /\ locked \subseteq Csds
    /\ pc \in [Harts -> {"user", "enqueue", "fence1", "set", "fence2", "send",
                         "wait", "exit"}]
    /\ req \in [Harts -> Requests]
    /\ left \in [Harts -> SUBSET Harts]
    /\ isr \in [Harts -> {"off", "clear", "xchg", "flush", "run", "function",
                          "unmask", "return"}]
    /\ masked \in [Harts -> BOOLEAN]
    /\ batch \in [Harts -> Seq(Calls)]

Stopped(h) == isr[h] = "function" /\ Head(batch[h]).func = "ipi_stop"

\* Hart h has yet to interrupt i for the message it is sending.
WillSend(h, i) ==
    \/ pc[h] \in {"set", "fence2"} /\ i \in req[h].to
    \/ pc[h] = "send" /\ i \in left[h]

\* The handler of i still has an xchg of the word ahead of it.
InLoop(i) == isr[i] \in {"xchg", "flush", "run", "function"}

\* A message bit in memory is never stranded: the hart's interrupt is pending,
\* or its handler will look at the word again, or a sender is yet to raise the
\* interrupt (the pairing of the two loops of send_ipi_message with the clear
\* and the xchg loop of ipi_isr).
NoStrandedBit ==
    \A i \in Harts : bits[i] # {} =>
        ipi[i] \/ InLoop(i) \/ \E h \in Harts : WillSend(h, i)

\* Hart h has a message m for i that is not yet in i's word.
WillSet(h, i, m) ==
    /\ Message(req[h].kind) = m /\ i \in req[h].to
    /\ \/ pc[h] = "fence1"
       \/ pc[h] = "set" /\ i \in left[h]
       \/ pc[h] \in {"set", "fence2"} /\ <<m, i>> \in buffer[h]

\* A hart that will go through its list of targets once more before it sends.
StillQueueing(h, i) ==
    pc[h] = "enqueue" /\ i \in req[h].to \ left[h] /\ Slot(req[h]) = "cfd"

\* A queued call is never forgotten, although only the caller that found the
\* queue empty interrupts its target: some hart is about to set the bit, or
\* the bit is set, or the handler is about to take the queue.
NoForgottenCall ==
    \A i \in Harts : queue[i] # <<>> =>
        \/ "IPI_CALL_FUNC" \in bits[i] \/ isr[i] = "flush"
        \/ \E h \in Harts : WillSet(h, i, "IPI_CALL_FUNC") \/ StillQueueing(h, i)

\* A reschedule that reached memory is always followed by a look at the flag:
\* a hart in user mode with the flag set has its interrupt, or the request for
\* it, on the way (entry.S looks at the flag only when it returns to user mode).
NoMissedReschedule ==
    \A i \in Harts : need[i] /\ pc[i] = "user" /\ isr[i] = "off" =>
        \/ ipi[i]
        \/ \E h \in Harts : Rescheduling(h) /\ req[h].to = {i}

\* The calls listed for hart i whose csd has not been given back.
Listed(i) == IF isr[i] = "function" /\ ~Head(batch[i]).wait
             THEN Tail(batch[i]) \o queue[i] ELSE batch[i] \o queue[i]

\* The list node of a csd: csd_data is one node whatever its target.
Node(c) == IF c[2] = "csd_data" THEN <<c[1], c[2]>> ELSE c

\* A csd stays locked while it is listed and is listed once: reusing it while
\* another hart can still follow its link would corrupt that hart's queue.
CsdNotReused ==
    /\ \A i \in Harts : \A n \in DOMAIN Listed(i) : Listed(i)[n].csd \in locked
    /\ \A i, j \in Harts : \A m \in DOMAIN Listed(i), n \in DOMAIN Listed(j) :
          Node(Listed(i)[m].csd) = Node(Listed(j)[n].csd) => i = j /\ m = n

\* smp_call_function(..., wait) only returns after its function has ended on
\* every target; for smp_send_stop that is never.
WaitMeansDone ==
    [][\A h \in Harts : pc[h] = "wait" /\ pc'[h] = "exit" =>
          /\ req[h].kind # "stop"
          /\ \A i \in req[h].to : \A n \in DOMAIN Listed(i) :
                Listed(i)[n].csd # Csd(h, req[h], i)]_vars

\* The promise, over the state of the interrupts.  A call is in force until its
\* last target is asked or, if the caller waits, until csd_lock_wait is over; a
\* hart is in a call while its handler executes the function; what it has yet
\* to begin is the rest of the batch and then the queue.
Promised(c) == [from |-> c.csd[1], wait |-> c.wait, func |-> c.func]
InForce(h) == \/ pc[h] = "enqueue"
              \/ pc[h] \notin {"user", "exit"} /\ Waits(req[h].kind)
Calling(h) ==
    IF InForce(h)
    THEN [to |-> IF pc[h] = "enqueue" THEN left[h] ELSE {},
          wait |-> Waits(req[h].kind), func |-> Function(req[h].kind)]
    ELSE [to |-> {}, wait |-> FALSE, func |-> "none"]
Running(i) == IF isr[i] = "function" THEN <<Promised(Head(batch[i]))>> ELSE <<>>
NotBegun(i) ==
    (IF isr[i] = "function" THEN Tail(batch[i]) ELSE batch[i]) \o queue[i]
Promises(s) == [n \in DOMAIN s |-> Promised(s[n])]

CrossCalls == INSTANCE CrossCall WITH
    Functions <- {"fn", "ipi_stop"},
    calling <- [h \in Harts |-> Calling(h)],
    asked <- [i \in Harts |-> Promises(NotBegun(i))],
    running <- [i \in Harts |-> Running(i)]

\* The message bits, the interrupts, the queue that is taken as a whole, the
\* interrupt left out for a queue that is not empty and the csd locks together
\* are cross calls: each function runs once on each target, in order, and the
\* caller that waits is never told too early.
CallsAsPromised == CrossCalls!Spec

Stopping == \E h \in Harts : req[h].kind = "stop"

\* A hart that came while the actions ran on another has masked its interrupt,
\* and nobody will unmask it: only the hart that ran the actions does, its own.
Deaf(h) == masked[h] /\ ~InProgress(h)

\* A caller goes no further: it waits for a csd that a deaf hart holds.
StuckQueueing(g, h) ==
    /\ pc[g] = "enqueue" /\ h \in req[g].to \ left[g]
    /\ \E c \in locked : c[1] = g /\ Deaf(c[3])

\* Unless the system is being stopped, every request is served as far as deaf
\* harts permit: the flag is acted on, but by a deaf hart or one whose task is
\* in a call while there is a deaf one; a queued call runs, but on a deaf hart
\* or if the caller that is to send the interrupt waits for one; and
\* smp_send_stop stops every other hart but the deaf ones, two concurrent ones
\* included.
RequestsServed ==
    \A h \in Harts :
        /\ need[h] ~> \/ ~need[h] \/ Stopping \/ Deaf(h)
                      \/ pc[h] \in {"enqueue", "wait"} /\ \E i \in Harts : Deaf(i)
        /\ queue[h] # <<>> ~> \/ queue[h] = <<>> /\ batch[h] = <<>>
                             \/ Stopping \/ Deaf(h)
                             \/ \E g \in Harts : StuckQueueing(g, h)
        /\ pc[h] = "wait" /\ req[h].kind = "stop"
             ~> \A i \in Harts \ {h} : Stopped(i) \/ Deaf(i)

\* Every IPI is handled: "Interprocessor interrupt handler" is what asm/smp.h:23
\* says of ipi_isr, and "Clear pending IPI" the first thing it does (smp.c:25).
\* The mask of irq.c:18-35 and handle_level_irq on one descriptor (irq.c:43-48)
\* keep a hart from it that arrives while another is in ipi_isr.
IpiHandled == \A h \in Harts : ipi[h] ~> ~ipi[h]
=============================================================================
