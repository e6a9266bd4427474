----------------------------- MODULE Ipi_proofs -----------------------------
(***************************************************************************)
(* Proofs about Ipi for every set of harts and every number of requests:   *)
(* no message bit is stranded, no queued call is forgotten, no reschedule  *)
(* is missed and no csd is reused too early, whatever order the stores     *)
(* reach memory in; and Ipi implements CrossCall.                          *)
(***************************************************************************)
EXTENDS Ipi, FiniteSetTheorems, SequenceTheorems, TLAPS

\* What a hart's buffer can hold: the flag it sets before the first mb, the
\* bits it sets between the two; both barriers empty it.
BufferInv ==
    \A h \in Harts, i \in Harts :
        /\ <<"NEED_RESCHED", i>> \in buffer[h] =>
              pc[h] = "fence1" /\ req[h].kind = "reschedule" /\ i \in req[h].to
        /\ \A m \in Messages : <<m, i>> \in buffer[h] =>
              pc[h] \in {"set", "fence2"} /\ i \in req[h].to

\* Which requests a stage belongs to.
RequestInv ==
    \A h \in Harts :
        /\ req[h].kind = "reschedule" =>
              /\ \E i \in Harts : req[h].to = {i}
              /\ pc[h] \in {"fence1", "set", "fence2", "send", "exit"}
        /\ pc[h] = "enqueue" =>
              left[h] \subseteq req[h].to
        /\ pc[h] \in {"set", "send"} => left[h] \subseteq req[h].to

\* While a function runs, it is the first of the batch.
BatchInv == \A h \in Harts : isr[h] = "function" => batch[h] # <<>>

\* Outside the loop over the batch there is none.
FlushInv == \A h \in Harts : isr[h] \notin {"run", "function"} => batch[h] = <<>>

\* smp_send_stop on hart h has queued its call for hart i.
Held(h, i) ==
    /\ req[h].kind = "stop" /\ i \in req[h].to
    /\ pc[h] = "enqueue" => i \notin left[h]

\* A smp_send_stop never gets to its end: its csds stay locked, because a
\* listed call that uses one of them is a waiting call of ipi_stop.
StopInv ==
    \A h \in Harts : req[h].kind = "stop" =>
        /\ req[h].to # {} /\ pc[h] \notin {"user", "exit"}
        /\ \A i \in Harts : Held(h, i) =>
              /\ Csd(h, req[h], i) \in locked
              /\ \A g \in Harts : \A n \in DOMAIN Listed(g) :
                    Listed(g)[n].csd = Csd(h, req[h], i)
                      => Listed(g)[n].wait /\ Listed(g)[n].func = "ipi_stop"

IInv == /\ TypeOK /\ BatchInv /\ BufferInv /\ RequestInv
        /\ NoStrandedBit /\ NoForgottenCall /\ NoMissedReschedule
        /\ FlushInv /\ CsdNotReused /\ StopInv

USE IpiAssumption DEF memory, calls, handler

LEMMA InitIInv == Init => IInv
  <1> SUFFICES ASSUME Init PROVE IInv OBVIOUS
  <1>1. TypeOK
    BY DEF Init, TypeOK, Requests, NoReq, Messages
  <1>2. BufferInv /\ RequestInv /\ BatchInv
    BY DEF Init, BufferInv, RequestInv, BatchInv, NoReq
  <1>3. NoStrandedBit /\ NoForgottenCall /\ NoMissedReschedule
    BY DEF Init, NoStrandedBit, NoForgottenCall, NoMissedReschedule
  <1>4. \A i \in Harts : Listed(i) = <<>> BY DEF Init, Listed
  <1>5. FlushInv /\ CsdNotReused /\ StopInv
    BY <1>4 DEF Init, FlushInv, CsdNotReused, StopInv, NoReq
  <1> QED BY <1>1, <1>2, <1>3, <1>5 DEF IInv

-----------------------------------------------------------------------------
LEMMA CallType ==
  ASSUME TypeOK, NEW h \in Harts, NEW i \in Harts
  PROVE  Csd(h, req[h], i) \in Csds /\ Call(h, i) \in Calls
  BY DEF Csd, Slot, Csds, Call, Calls, Waits, Function

LEMMA BatchStep == TypeOK /\ BatchInv /\ [Next]_vars => BatchInv'
  <1> SUFFICES ASSUME TypeOK, BatchInv, [Next]_vars PROVE BatchInv'
    OBVIOUS
  <1>1. ASSUME NEW h \in Harts, IsrStep(h) PROVE BatchInv'
    BY <1>1 DEF IsrStep, IsrClear, IsrXchg, IsrFlush, IsrCall, IsrCalled,
                IsrFlushed, IsrUnmask, IsrReturn, BatchInv, TypeOK
  <1>2. ASSUME NEW h \in Harts, TakeIpi(h) \/ TakeConsole(h) PROVE BatchInv'
    BY <1>2 DEF TakeIpi, TakeConsole, Arrive, BatchInv, TypeOK
  <1>3. ASSUME NEW h \in Harts, Request(h) \/ TaskStep(h) \/ Store(h)
        PROVE  isr' = isr /\ batch' = batch
    BY <1>3 DEF Request, AskReschedule, AskCall, TaskStep, Enqueue, Fence1,
                SetBit, Fence2, SendIpi, Waited, Exit, Store
  <1>4. CASE UNCHANGED vars BY <1>4 DEF vars, BatchInv
  <1> QED BY <1>1, <1>2, <1>3, <1>4 DEF Next, BatchInv

LEMMA TypeStep == TypeOK /\ BatchInv /\ [Next]_vars => TypeOK'
  <1> SUFFICES ASSUME TypeOK, BatchInv, [Next]_vars PROVE TypeOK' OBVIOUS
  <1> USE DEF TypeOK
  <1>1. ASSUME NEW h \in Harts, NEW i \in Harts, AskReschedule(h, i)
        PROVE  TypeOK'
    BY SMTT(60), <1>1 DEF AskReschedule, Ask, Requests, Kinds
  <1>2. ASSUME NEW h \in Harts, NEW k \in Kinds, NEW to \in SUBSET Harts,
               AskCall(h, k, to)
        PROVE  TypeOK'
    <2>1. [kind |-> k, to |-> to] \in Requests BY DEF Requests
    <2>2. /\ req' = [req EXCEPT ![h] = [kind |-> k, to |-> to]]
          /\ left' = [left EXCEPT ![h] = to]
          /\ pc' = [pc EXCEPT ![h] = "enqueue"]
          /\ budget' = budget - 1 /\ budget > 0
          /\ UNCHANGED <<memory, ipi, buffer, calls, handler>>
      BY <1>2 DEF AskCall, Ask
    <2> QED BY <2>1, <2>2
  <1>3. ASSUME NEW h \in Harts, Enqueue(h) PROVE TypeOK'
    <2>1. PICK i \in left[h] :
            /\ locked' = locked \cup {Csd(h, req[h], i)}
            /\ queue' = [queue EXCEPT ![i] = Append(@, Call(h, i))]
            /\ left' = [left EXCEPT ![h] = @ \ {i}]
            /\ pc' = [pc EXCEPT ![h] =
                  IF left[h] # {i} THEN "enqueue"
                  ELSE IF Interrupts(h, i) THEN "fence1"
                  ELSE IF Waits(req[h].kind) THEN "wait" ELSE "exit"]
      BY <1>3 DEF Enqueue
    <2>2. i \in Harts OBVIOUS
    <2>3. Csd(h, req[h], i) \in Csds /\ Call(h, i) \in Calls
      BY <2>2, CallType
    <2>4. queue' \in [Harts -> Seq(Calls)] BY <2>1, <2>2, <2>3
    <2>5. pc' \in [Harts -> {"user", "enqueue", "fence1", "set", "fence2",
                             "send", "wait", "exit"}]
      BY <2>1
    <2> QED BY <1>3, <2>1, <2>3, <2>4, <2>5 DEF Enqueue
  <1>4. ASSUME NEW h \in Harts, Fence1(h) \/ Fence2(h) PROVE TypeOK'
    BY SMTT(60), <1>4 DEF Fence1, Fence2, Requests
  <1>5. ASSUME NEW h \in Harts, SetBit(h) PROVE TypeOK'
    <2>1. PICK i \in left[h] :
            /\ buffer' = [buffer EXCEPT ![h] = @ \cup {<<Message(req[h].kind), i>>}]
            /\ left' = [left EXCEPT ![h] = @ \ {i}]
            /\ pc' = [pc EXCEPT ![h] = IF left[h] = {i} THEN "fence2" ELSE "set"]
      BY <1>5 DEF SetBit
    <2>2. <<Message(req[h].kind), i>> \in (Messages \cup {"NEED_RESCHED"}) \X Harts
      BY DEF Message, Messages
    <2>3. buffer' \in [Harts -> SUBSET ((Messages \cup {"NEED_RESCHED"}) \X Harts)]
      BY <2>1, <2>2
    <2>4. UNCHANGED <<memory, ipi, budget, calls, req, handler>>
      BY <1>5 DEF SetBit
    <2> QED BY <2>1, <2>3, <2>4
  <1>6. ASSUME NEW h \in Harts, SendIpi(h) PROVE TypeOK'
    <2>1. PICK i \in left[h] :
            /\ ipi' = [ipi EXCEPT ![i] = TRUE]
            /\ left' = [left EXCEPT ![h] = @ \ {i}]
            /\ pc' = [pc EXCEPT ![h] =
                  IF left[h] # {i} THEN "send"
                  ELSE IF Waits(req[h].kind) THEN "wait" ELSE "exit"]
      BY <1>6 DEF SendIpi
    <2>2. ipi' \in [Harts -> BOOLEAN] /\ left' \in [Harts -> SUBSET Harts]
      BY <2>1
    <2>3. pc' \in [Harts -> {"user", "enqueue", "fence1", "set", "fence2",
                             "send", "wait", "exit"}]
      BY <2>1
    <2>4. UNCHANGED <<memory, budget, buffer, calls, req, handler>>
      BY <1>6 DEF SendIpi
    <2> QED BY <2>2, <2>3, <2>4
  <1>7. ASSUME NEW h \in Harts, Waited(h) \/ Exit(h) PROVE TypeOK'
    <2>1. CASE Waited(h) BY <2>1 DEF Waited
    <2>2. CASE Exit(h)
      <3>1. need' \in [Harts -> BOOLEAN] BY <2>2 DEF Exit, CheckNeed
      <3>2. NoReq \in Requests BY DEF NoReq, Requests
      <3> QED BY <2>2, <3>1, <3>2 DEF Exit
    <2> QED BY <1>7, <2>1, <2>2
  <1>8. ASSUME NEW h \in Harts, Store(h) PROVE TypeOK'
    <2>1. PICK s \in buffer[h] :
            /\ buffer' = [buffer EXCEPT ![h] = @ \ {s}]
            /\ IF s[1] = "NEED_RESCHED"
               THEN need' = [need EXCEPT ![s[2]] = TRUE] /\ UNCHANGED bits
               ELSE bits' = [bits EXCEPT ![s[2]] = @ \cup {s[1]}] /\ UNCHANGED need
      BY <1>8 DEF Store
    <2>7. s \in (Messages \cup {"NEED_RESCHED"}) \X Harts OBVIOUS
    <2>2. s[1] \in Messages \cup {"NEED_RESCHED"} /\ s[2] \in Harts
      BY ONLY <2>7
    <2>3. buffer' \in [Harts -> SUBSET ((Messages \cup {"NEED_RESCHED"}) \X Harts)]
      BY <2>1
    <2>5. need' \in [Harts -> BOOLEAN] BY <2>1, <2>2
    <2>6. bits' \in [Harts -> SUBSET Messages]
      <3>1. CASE s[1] = "NEED_RESCHED" BY <2>1, <3>1
      <3>2. CASE s[1] # "NEED_RESCHED"
        <4>1. s[1] \in Messages BY <2>2, <3>2
        <4>2. bits' = [bits EXCEPT ![s[2]] = @ \cup {s[1]}] BY <2>1, <3>2
        <4> QED BY <2>2, <4>1, <4>2
      <3> QED BY <3>1, <3>2
    <2>4. UNCHANGED <<ipi, budget, calls, pc, req, left, handler>>
      BY <1>8 DEF Store
    <2> QED BY <2>3, <2>4, <2>5, <2>6
  <1>9. ASSUME NEW h \in Harts, TakeIpi(h) \/ TakeConsole(h) PROVE TypeOK'
    <2>1. CASE TakeIpi(h) BY <2>1 DEF TakeIpi, Arrive
    <2>2. CASE TakeConsole(h) BY <2>2 DEF TakeConsole, Arrive
    <2> QED BY <1>9, <2>1, <2>2
  <1>10. ASSUME NEW h \in Harts, IsrClear(h) \/ IsrXchg(h) \/ IsrFlushed(h)
                                 \/ IsrUnmask(h) \/ IsrReturn(h)
         PROVE  TypeOK'
    <2>1. CASE IsrClear(h) BY <2>1 DEF IsrClear
    <2>2. CASE IsrXchg(h) BY <2>2 DEF IsrXchg
    <2>3. CASE IsrFlushed(h) BY <2>3 DEF IsrFlushed
    <2>4. CASE IsrReturn(h)
      <3>1. need' \in [Harts -> BOOLEAN] BY <2>4 DEF IsrReturn, CheckNeed
      <3> QED BY <2>4, <3>1 DEF IsrReturn
    <2>5. CASE IsrUnmask(h) BY <2>5 DEF IsrUnmask
    <2> QED BY <1>10, <2>1, <2>2, <2>3, <2>4, <2>5
  <1>11. ASSUME NEW h \in Harts, IsrFlush(h) \/ IsrCall(h) PROVE TypeOK'
    <2>1. CASE IsrFlush(h)
      <3>1. queue' \in [Harts -> Seq(Calls)] BY <2>1 DEF IsrFlush
      <3>2. batch' \in [Harts -> Seq(Calls)] BY <2>1 DEF IsrFlush
      <3> QED BY <2>1, <3>1, <3>2 DEF IsrFlush
    <2>2. CASE IsrCall(h)
      <3>1. locked' \subseteq locked BY <2>2 DEF IsrCall
      <3>2. /\ isr' = [isr EXCEPT ![h] = "function"]
            /\ UNCHANGED <<memory, ipi, budget, buffer, queue, pc, req, left, masked, batch>>
        BY <2>2 DEF IsrCall
      <3>3. locked' \subseteq Csds BY <3>1
      <3> QED BY <3>2, <3>3
    <2> QED BY <1>11, <2>1, <2>2
  <1>12. ASSUME NEW h \in Harts, IsrCalled(h) PROVE TypeOK'
    <2>1. batch[h] \in Seq(Calls) /\ batch[h] # <<>>
      BY <1>12 DEF IsrCalled, BatchInv
    <2>2. Tail(batch[h]) \in Seq(Calls) BY <2>1
    <2>3. locked' \subseteq locked BY <1>12 DEF IsrCalled
    <2> QED BY <1>12, <2>2, <2>3 DEF IsrCalled
  <1>13. CASE UNCHANGED vars BY <1>13 DEF vars
  <1> QED
    BY <1>1, <1>2, <1>3, <1>4, <1>5, <1>6, <1>7, <1>8, <1>9, <1>10, <1>11,
       <1>12, <1>13 DEF Next, Request, TaskStep, IsrStep
-----------------------------------------------------------------------------
\* A step that touches no store buffer and moves no task keeps every promise a
\* task has made.
LEMMA HandlerKeepsTasks ==
  ASSUME NEW h \in Harts, TakeIpi(h) \/ TakeConsole(h) \/ IsrStep(h)
  PROVE  UNCHANGED <<buffer, pc, req, left>>
  BY DEF TakeIpi, TakeConsole, Arrive, IsrStep, IsrClear, IsrXchg, IsrFlush, IsrCall,
         IsrCalled, IsrFlushed, IsrUnmask, IsrReturn

LEMMA TaskKeepsHandler ==
  ASSUME NEW h \in Harts, Request(h) \/ TaskStep(h) \/ Store(h)
  PROVE  UNCHANGED <<isr, batch>>
  BY DEF Request, AskReschedule, AskCall, TaskStep, Enqueue, Fence1, SetBit,
         Fence2, SendIpi, Waited, Exit, Store

\* What a step of the task of h leaves of the other tasks.
LEMMA OthersUnmoved ==
  ASSUME TypeOK, NEW h \in Harts, Request(h) \/ TaskStep(h) \/ Store(h),
         NEW g \in Harts, g # h
  PROVE  /\ pc'[g] = pc[g] /\ req'[g] = req[g]
         /\ left'[g] = left[g] /\ buffer'[g] = buffer[g]
  BY DEF Request, AskReschedule, AskCall, TaskStep, Enqueue, Fence1, SetBit,
         Fence2, SendIpi, Waited, Exit, Store, TypeOK

LEMMA TasksStep ==
  TypeOK /\ BufferInv /\ RequestInv /\ [Next]_vars => BufferInv' /\ RequestInv'
  <1> SUFFICES ASSUME TypeOK, BufferInv, RequestInv, [Next]_vars
               PROVE  BufferInv' /\ RequestInv'
    OBVIOUS
  <1> DEFINE B(h) == \A i \in Harts :
        /\ <<"NEED_RESCHED", i>> \in buffer[h] =>
              pc[h] = "fence1" /\ req[h].kind = "reschedule" /\ i \in req[h].to
        /\ \A m \in Messages : <<m, i>> \in buffer[h] =>
              pc[h] \in {"set", "fence2"} /\ i \in req[h].to
  <1> DEFINE R(h) ==
        /\ req[h].kind = "reschedule" =>
              /\ \E i \in Harts : req[h].to = {i}
              /\ pc[h] \in {"fence1", "set", "fence2", "send", "exit"}
        /\ pc[h] = "enqueue" => left[h] \subseteq req[h].to
        /\ pc[h] \in {"set", "send"} => left[h] \subseteq req[h].to
  <1>0. \A h \in Harts : B(h) /\ R(h) BY DEF BufferInv, RequestInv
  <1>t. \A h \in Harts : "NEED_RESCHED" \notin Messages BY DEF Messages
  <1>h. ASSUME UNCHANGED <<buffer, pc, req, left>> PROVE BufferInv' /\ RequestInv'
    BY <1>h DEF BufferInv, RequestInv
  <1>o. ASSUME NEW h \in Harts, Request(h) \/ TaskStep(h) \/ Store(h),
               B(h)' /\ R(h)'
        PROVE  BufferInv' /\ RequestInv'
    <2>1. ASSUME NEW g \in Harts PROVE B(g)' /\ R(g)'
      <3>1. CASE g = h BY <1>o, <3>1
      <3>2. CASE g # h
        <4>1. /\ pc'[g] = pc[g] /\ req'[g] = req[g]
              /\ left'[g] = left[g] /\ buffer'[g] = buffer[g]
          BY <1>o, <3>2, OthersUnmoved
        <4> QED BY <1>0, <4>1
      <3> QED BY <3>1, <3>2
    <2> QED BY <2>1 DEF BufferInv, RequestInv
  <1>1. ASSUME NEW h \in Harts, NEW i \in Harts, AskReschedule(h, i)
        PROVE  B(h)' /\ R(h)'
    <2>1. /\ buffer'[h] = buffer[h] \cup {<<"NEED_RESCHED", i>>}
          /\ req'[h] = [kind |-> "reschedule", to |-> {i}]
          /\ pc'[h] = "fence1" /\ pc[h] = "user"
      BY <1>1 DEF AskReschedule, Ask, TypeOK
    <2> QED BY <1>0, <1>t, <2>1
  <1>2. ASSUME NEW h \in Harts, NEW k \in Kinds, NEW to \in SUBSET Harts,
               AskCall(h, k, to)
        PROVE  B(h)' /\ R(h)'
    <2>1. /\ buffer'[h] = buffer[h] /\ k # "reschedule"
          /\ req'[h] = [kind |-> k, to |-> to] /\ left'[h] = to
          /\ pc'[h] = "enqueue" /\ pc[h] = "user"
      BY <1>2 DEF AskCall, Ask, TypeOK
    <2>2. req'[h].kind # "reschedule" /\ req'[h].to = to BY <2>1
    <2>3. R(h)' BY <2>1, <2>2
    <2>4. B(h)' BY <1>0, <2>1
    <2> QED BY <2>3, <2>4
  <1>3. ASSUME NEW h \in Harts, Enqueue(h) PROVE B(h)' /\ R(h)'
    <2>1. /\ buffer'[h] = buffer[h] /\ buffer[h] = {} /\ req'[h] = req[h]
          /\ left'[h] \subseteq left[h] /\ pc[h] = "enqueue"
          /\ pc'[h] \in {"enqueue", "fence1", "wait", "exit"}
      BY <1>3 DEF Enqueue, Mb, TypeOK
    <2>2. req[h].kind # "reschedule" BY <1>0, <2>1
    <2> QED BY <1>0, <2>1, <2>2
  <1>4. ASSUME NEW h \in Harts, Fence1(h) \/ Fence2(h) PROVE B(h)' /\ R(h)'
    <2>1. /\ buffer'[h] = {} /\ req'[h] = req[h] /\ left'[h] = req[h].to
          /\ pc'[h] \in {"set", "send"} /\ pc[h] \in {"fence1", "fence2"}
      BY <1>4 DEF Fence1, Fence2, Mb, TypeOK
    <2> QED BY <1>0, <2>1
  <1>5. ASSUME NEW h \in Harts, SetBit(h) PROVE B(h)' /\ R(h)'
    <2>0. PICK i \in left[h] :
            /\ buffer' = [buffer EXCEPT ![h] = @ \cup {<<Message(req[h].kind), i>>}]
            /\ left' = [left EXCEPT ![h] = @ \ {i}]
            /\ pc' = [pc EXCEPT ![h] = IF left[h] = {i} THEN "fence2" ELSE "set"]
      BY <1>5 DEF SetBit
    <2>1. /\ buffer'[h] = buffer[h] \cup {<<Message(req[h].kind), i>>}
          /\ left'[h] \subseteq left[h]
          /\ pc'[h] \in {"set", "fence2"} /\ pc[h] = "set" /\ req'[h] = req[h]
      BY <1>5, <2>0 DEF SetBit, TypeOK
    <2>2. i \in req[h].to /\ Message(req[h].kind) # "NEED_RESCHED"
      BY <1>0, <2>1 DEF Message
    <2> QED BY <1>0, <2>1, <2>2
  <1>6. ASSUME NEW h \in Harts, SendIpi(h) PROVE B(h)' /\ R(h)'
    <2>1. /\ buffer'[h] = buffer[h] /\ req'[h] = req[h]
          /\ left'[h] \subseteq left[h] /\ pc[h] = "send"
          /\ pc'[h] \in {"send", "wait", "exit"}
          /\ pc'[h] = "wait" => Waits(req[h].kind)
      BY <1>6 DEF SendIpi, TypeOK
    <2>2. req[h].kind = "reschedule" => pc'[h] # "wait" BY <2>1 DEF Waits
    <2> QED BY <1>0, <2>1, <2>2
  <1>7. ASSUME NEW h \in Harts, Waited(h) \/ Exit(h) PROVE B(h)' /\ R(h)'
    <2>1. /\ buffer'[h] = buffer[h] /\ pc'[h] \in {"exit", "user"}
          /\ pc[h] \in {"wait", "exit"}
          /\ \/ pc[h] = "wait" /\ req'[h] = req[h]
             \/ req'[h] = NoReq
      BY <1>7 DEF Waited, Exit, TypeOK
    <2>2. req'[h].kind # "reschedule"
      <3>1. CASE pc[h] = "wait" /\ req'[h] = req[h]
        <4>1. req[h].kind # "reschedule" BY <1>0, <3>1
        <4> QED BY <3>1, <4>1
      <3>2. CASE req'[h] = NoReq BY <3>2 DEF NoReq
      <3> QED BY <2>1, <3>1, <3>2
    <2>3. B(h)' BY <1>0, <2>1
    <2> QED BY <2>1, <2>2, <2>3
  <1>8. ASSUME NEW h \in Harts, Store(h) PROVE B(h)' /\ R(h)'
    <2>1. /\ buffer'[h] \subseteq buffer[h] /\ req'[h] = req[h]
          /\ left'[h] = left[h] /\ pc'[h] = pc[h]
      BY <1>8 DEF Store, TypeOK
    <2> QED BY <1>0, <2>1
  <1>9. ASSUME NEW h \in Harts, TakeIpi(h) \/ TakeConsole(h) \/ IsrStep(h)
        PROVE  BufferInv' /\ RequestInv'
    BY <1>9, <1>h, HandlerKeepsTasks
  <1>10. CASE UNCHANGED vars BY <1>10, <1>h DEF vars
  <1>11. ASSUME NEW h \in Harts, Request(h) \/ TaskStep(h) \/ Store(h)
         PROVE  B(h)' /\ R(h)'
    BY <1>1, <1>2, <1>3, <1>4, <1>5, <1>6, <1>7, <1>8, <1>11
    DEF Request, TaskStep
  <1> QED BY <1>9, <1>10, <1>11, <1>o DEF Next
-----------------------------------------------------------------------------
LEMMA StrandedStep ==
  TypeOK /\ BufferInv /\ RequestInv /\ NoStrandedBit /\ [Next]_vars => NoStrandedBit'
  <1> SUFFICES ASSUME TypeOK, BufferInv, RequestInv, NoStrandedBit, [Next]_vars,
                      NEW i \in Harts, bits'[i] # {}
               PROVE  \/ ipi'[i] \/ InLoop(i)'
                      \/ \E g \in Harts : WillSend(g, i)'
    BY DEF NoStrandedBit
  <1> DEFINE Safe == ipi[i] \/ InLoop(i) \/ \E g \in Harts : WillSend(g, i)
  <1>0. bits[i] # {} => Safe BY DEF NoStrandedBit
  <1>1. ASSUME NEW h \in Harts, Request(h) \/ TaskStep(h) \/ Store(h),
               NEW g \in Harts, g # h, WillSend(g, i)
        PROVE  WillSend(g, i)'
    BY <1>1, OthersUnmoved DEF WillSend
  <1>l. ASSUME NEW h \in Harts, Request(h) \/ TaskStep(h) \/ Store(h)
        PROVE  InLoop(i)' = InLoop(i)
    BY <1>l, TaskKeepsHandler DEF InLoop
  <1>2. ASSUME NEW h \in Harts, Request(h) PROVE Safe'
    <2>1. bits' = bits /\ ipi' = ipi /\ pc[h] = "user"
      BY <1>2 DEF Request, AskReschedule, AskCall, Ask
    <2> QED BY <1>0, <1>1, <1>2, <1>l, <2>1 DEF WillSend
  <1>3. ASSUME NEW h \in Harts,
               Enqueue(h) \/ Fence1(h) \/ Waited(h) \/ Exit(h)
        PROVE  Safe'
    <2>1. bits' = bits /\ ipi' = ipi /\ ~WillSend(h, i)
      BY <1>3 DEF Enqueue, Fence1, Waited, Exit, WillSend
    <2> QED BY <1>0, <1>1, <1>3, <1>l, <2>1 DEF TaskStep
  <1>4. ASSUME NEW h \in Harts, SetBit(h) \/ Fence2(h) PROVE Safe'
    <2>1. bits' = bits /\ ipi' = ipi /\ req' = req
      BY <1>4 DEF SetBit, Fence2
    <2>2. WillSend(h, i) => WillSend(h, i)'
      BY <1>4, <2>1 DEF SetBit, Fence2, WillSend, TypeOK
    <2> QED BY <1>0, <1>1, <1>4, <1>l, <2>1, <2>2 DEF TaskStep
  <1>5. ASSUME NEW h \in Harts, SendIpi(h) PROVE Safe'
    <2>1. PICK j \in left[h] :
            /\ ipi' = [ipi EXCEPT ![j] = TRUE]
            /\ left' = [left EXCEPT ![h] = @ \ {j}]
            /\ pc' = [pc EXCEPT ![h] =
                  IF left[h] # {j} THEN "send"
                  ELSE IF Waits(req[h].kind) THEN "wait" ELSE "exit"]
      BY <1>5 DEF SendIpi
    <2>2. bits' = bits /\ pc[h] = "send" BY <1>5 DEF SendIpi
    <2>3. CASE i = j BY <2>1, <2>3 DEF TypeOK
    <2>4. CASE i # j
      <3>1. ipi'[i] = ipi[i] BY <2>1, <2>4 DEF TypeOK
      <3>2. WillSend(h, i) => WillSend(h, i)'
        BY <2>1, <2>2, <2>4 DEF WillSend, TypeOK
      <3> QED BY <1>0, <1>1, <1>5, <1>l, <2>2, <3>1, <3>2 DEF TaskStep
    <2> QED BY <2>3, <2>4
  <1>6. ASSUME NEW h \in Harts, Store(h) PROVE Safe'
    <2>1. PICK s \in buffer[h] :
            IF s[1] = "NEED_RESCHED"
            THEN need' = [need EXCEPT ![s[2]] = TRUE] /\ UNCHANGED bits
            ELSE bits' = [bits EXCEPT ![s[2]] = @ \cup {s[1]}] /\ UNCHANGED need
      BY <1>6 DEF Store
    <2>2. UNCHANGED <<ipi, pc, req, left, isr>> BY <1>6 DEF Store
    <2>3. Safe => Safe' BY <2>2 DEF WillSend, InLoop
    <2>4. CASE bits[i] # {} BY <1>0, <2>3, <2>4
    <2>5. CASE bits[i] = {}
      <3>1. s[1] # "NEED_RESCHED" /\ s[2] = i BY <2>1, <2>5 DEF TypeOK
      <3>2. s[1] \in Messages /\ s = <<s[1], i>> BY <3>1 DEF TypeOK
      <3>3. WillSend(h, i) BY <3>2 DEF BufferInv, WillSend
      <3> QED BY <2>3, <3>3
    <2> QED BY <2>4, <2>5
  <1>7. ASSUME NEW h \in Harts, TakeIpi(h) \/ TakeConsole(h) \/ IsrStep(h)
        PROVE  Safe'
    <2>1. \A g \in Harts : WillSend(g, i)' = WillSend(g, i)
      BY <1>7, HandlerKeepsTasks DEF WillSend
    <2>2. CASE h # i
      <3>1. bits'[i] = bits[i] /\ ipi'[i] = ipi[i] /\ isr'[i] = isr[i]
        BY <1>7, <2>2
        DEF TakeIpi, TakeConsole, Arrive, IsrStep, IsrClear, IsrXchg, IsrFlush, IsrCall,
            IsrCalled, IsrFlushed, IsrUnmask, IsrReturn, TypeOK
      <3> QED BY <1>0, <2>1, <3>1 DEF InLoop
    <2>3. CASE h = i
      <3>1. CASE TakeIpi(i) \/ TakeConsole(i)
        BY <1>0, <2>1, <3>1 DEF TakeIpi, TakeConsole, Arrive, InLoop, TypeOK
      <3>2. CASE IsrClear(i)
        BY <1>0, <2>1, <3>2 DEF IsrClear, InLoop, TypeOK
      <3>3. CASE IsrXchg(i) BY <3>3 DEF IsrXchg, TypeOK
      <3>4. CASE IsrFlush(i) \/ IsrCall(i) \/ IsrCalled(i) \/ IsrFlushed(i)
        BY <3>4 DEF IsrFlush, IsrCall, IsrCalled, IsrFlushed, InLoop, TypeOK
      <3>5. CASE IsrUnmask(i) \/ IsrReturn(i)
        BY <1>0, <2>1, <3>5 DEF IsrUnmask, IsrReturn, InLoop, TypeOK
      <3> QED BY <1>7, <2>3, <3>1, <3>2, <3>3, <3>4, <3>5 DEF IsrStep
    <2> QED BY <2>2, <2>3
  <1>8. CASE UNCHANGED vars BY <1>0, <1>8 DEF vars, WillSend, InLoop
  <1> QED
    BY <1>2, <1>3, <1>4, <1>5, <1>6, <1>7, <1>8 DEF Next, TaskStep
-----------------------------------------------------------------------------
\* A call that uses a single csd has a single target.
LEMMA SingleTarget ==
  ASSUME TypeOK, NEW h \in Harts, Slot(req[h]) # "cfd", NEW i \in req[h].to
  PROVE  req[h].to = {i}
  <1>1. req[h].to \subseteq Harts BY DEF TypeOK, Requests
  <1>2. IsFiniteSet(req[h].to) BY <1>1, FS_Subset
  <1>3. Cardinality(req[h].to) \in Nat BY <1>2, FS_CardinalityType
  <1>4. ~(Cardinality(req[h].to) > 1) BY DEF Slot
  <1>5. Cardinality(req[h].to) # 0 BY <1>2, FS_EmptySet
  <1>6. Cardinality(req[h].to) = 1 BY <1>3, <1>4, <1>5
  <1>7. PICK x : req[h].to = {x} BY <1>2, <1>6, FS_Singleton
  <1> QED BY <1>7

LEMMA ForgottenStep ==
  TypeOK /\ BufferInv /\ RequestInv /\ NoForgottenCall /\ [Next]_vars => NoForgottenCall'
  <1> SUFFICES ASSUME TypeOK, BufferInv, RequestInv, NoForgottenCall, [Next]_vars,
                      NEW i \in Harts, queue'[i] # <<>>
               PROVE  \/ "IPI_CALL_FUNC" \in bits'[i] \/ isr'[i] = "flush"
                      \/ \E g \in Harts : \/ WillSet(g, i, "IPI_CALL_FUNC")'
                                         \/ StillQueueing(g, i)'
    BY DEF NoForgottenCall
  <1> DEFINE Owes(g) == WillSet(g, i, "IPI_CALL_FUNC") \/ StillQueueing(g, i)
  <1> DEFINE Safe == \/ "IPI_CALL_FUNC" \in bits[i] \/ isr[i] = "flush"
                     \/ \E g \in Harts : Owes(g)
  <1>0. queue[i] # <<>> => Safe BY DEF NoForgottenCall
  <1>1. ASSUME NEW h \in Harts, Request(h) \/ TaskStep(h) \/ Store(h),
               NEW g \in Harts, g # h, Owes(g)
        PROVE  Owes(g)'
    BY <1>1, OthersUnmoved DEF WillSet, StillQueueing
  <1>l. ASSUME NEW h \in Harts, Request(h) \/ TaskStep(h) \/ Store(h)
        PROVE  isr'[i] = isr[i]
    BY <1>l, TaskKeepsHandler
  \* A step of h that leaves queue and word alone need only keep h's own debt.
  <1>k. ASSUME NEW h \in Harts, Request(h) \/ TaskStep(h),
               bits' = bits, queue' = queue, Owes(h) => Owes(h)'
        PROVE  Safe'
    BY <1>0, <1>1, <1>k, <1>l
  <1>2. ASSUME NEW h \in Harts, Request(h) PROVE Safe'
    <2>1. bits' = bits /\ queue' = queue /\ pc[h] = "user"
      BY <1>2 DEF Request, AskReschedule, AskCall, Ask
    <2>2. ~Owes(h) BY <2>1 DEF WillSet, StillQueueing
    <2> QED BY <1>2, <1>k, <2>1, <2>2
  <1>3. ASSUME NEW h \in Harts, SendIpi(h) \/ Waited(h) \/ Exit(h) PROVE Safe'
    <2>1. bits' = bits /\ queue' = queue /\ pc[h] \in {"send", "wait", "exit"}
      BY <1>3 DEF SendIpi, Waited, Exit
    <2>2. ~Owes(h) BY <2>1 DEF WillSet, StillQueueing
    <2> QED BY <1>3, <1>k, <2>1, <2>2 DEF TaskStep
  <1>4. ASSUME NEW h \in Harts, Fence1(h) PROVE Safe'
    <2>1. bits' = bits /\ queue' = queue BY <1>4 DEF Fence1
    <2>2. Owes(h) => Owes(h)'
      BY <1>4 DEF Fence1, WillSet, StillQueueing, TypeOK
    <2> QED BY <1>4, <1>k, <2>1, <2>2 DEF TaskStep
  <1>5. ASSUME NEW h \in Harts, SetBit(h) PROVE Safe'
    <2>1. bits' = bits /\ queue' = queue BY <1>5 DEF SetBit
    <2>2. Owes(h) => Owes(h)'
      BY <1>5 DEF SetBit, WillSet, StillQueueing, TypeOK
    <2> QED BY <1>5, <1>k, <2>1, <2>2 DEF TaskStep
  <1>6. ASSUME NEW h \in Harts, Fence2(h) PROVE Safe'
    <2>1. bits' = bits /\ queue' = queue BY <1>6 DEF Fence2
    <2>2. ~Owes(h) BY <1>6 DEF Fence2, Mb, WillSet, StillQueueing
    <2> QED BY <1>6, <1>k, <2>1, <2>2 DEF TaskStep
  <1>7. ASSUME NEW h \in Harts, Enqueue(h) PROVE Safe'
    <2>1. PICK j \in left[h] :
            /\ queue' = [queue EXCEPT ![j] = Append(@, Call(h, j))]
            /\ left' = [left EXCEPT ![h] = @ \ {j}]
            /\ pc' = [pc EXCEPT ![h] =
                  IF left[h] # {j} THEN "enqueue"
                  ELSE IF Interrupts(h, j) THEN "fence1"
                  ELSE IF Waits(req[h].kind) THEN "wait" ELSE "exit"]
      BY <1>7 DEF Enqueue
    <2>2. /\ bits' = bits /\ req' = req /\ buffer' = buffer
          /\ pc[h] = "enqueue" /\ left[h] \subseteq req[h].to /\ j \in Harts
      BY <1>7 DEF Enqueue, RequestInv, TypeOK
    <2>3. Message(req[h].kind) = "IPI_CALL_FUNC"
      BY <2>2 DEF RequestInv, Message
    <2>4. ASSUME Slot(req[h]) = "cfd", i \in req[h].to, i \notin left'[h]
          PROVE  Owes(h)'
      <3>1. pc'[h] \in {"enqueue", "fence1"}
        BY <2>1, <2>4 DEF Interrupts, TypeOK
      <3> QED BY <2>2, <2>3, <2>4, <3>1 DEF WillSet, StillQueueing
    <2>5. i \notin left'[h] <=> i \notin left[h] \/ i = j
      BY <2>1 DEF TypeOK
    <2>6. CASE Slot(req[h]) = "cfd"
      <3>1. CASE i = j BY <2>2, <2>4, <2>5, <2>6, <3>1
      <3>2. CASE i # j
        <4>1. queue'[i] = queue[i] BY <2>1, <3>2 DEF TypeOK
        <4>2. Owes(h) => Owes(h)'
          BY <2>2, <2>4, <2>5, <2>6 DEF WillSet, StillQueueing
        <4> QED BY <1>0, <1>1, <1>7, <1>l, <2>2, <4>1, <4>2 DEF TaskStep
      <3> QED BY <3>1, <3>2
    <2>7. CASE Slot(req[h]) # "cfd"
      <3>1. ~Owes(h) BY <2>2, <2>7 DEF WillSet, StillQueueing
      <3>2. CASE i = j /\ queue[i] = <<>>
        <4>1. left[h] = {i} BY <2>2, <2>7, <3>2, SingleTarget
        <4>2. pc'[h] = "fence1" BY <2>1, <3>2, <4>1 DEF Interrupts, TypeOK
        <4>3. WillSet(h, i, "IPI_CALL_FUNC")'
          BY <2>2, <2>3, <3>2, <4>2 DEF WillSet
        <4> QED BY <4>3
      <3>3. CASE i # j \/ queue[i] # <<>>
        <4>1. queue[i] # <<>> BY <2>1, <3>3 DEF TypeOK
        <4> QED BY <1>0, <1>1, <1>7, <1>l, <2>2, <3>1, <4>1 DEF TaskStep
      <3> QED BY <3>2, <3>3
    <2> QED BY <2>6, <2>7
  <1>8. ASSUME NEW h \in Harts, Store(h) PROVE Safe'
    <2>1. PICK s \in buffer[h] :
            /\ buffer' = [buffer EXCEPT ![h] = @ \ {s}]
            /\ IF s[1] = "NEED_RESCHED"
               THEN need' = [need EXCEPT ![s[2]] = TRUE] /\ UNCHANGED bits
               ELSE bits' = [bits EXCEPT ![s[2]] = @ \cup {s[1]}] /\ UNCHANGED need
      BY <1>8 DEF Store
    <2>2. UNCHANGED <<queue, pc, req, left, isr>> BY <1>8 DEF Store
    <2>3. "IPI_CALL_FUNC" \in bits[i] => "IPI_CALL_FUNC" \in bits'[i]
      <3>1. CASE bits' = bits BY <3>1
      <3>2. CASE bits' = [bits EXCEPT ![s[2]] = @ \cup {s[1]}]
        <4>1. bits[i] \subseteq bits'[i] BY <3>2 DEF TypeOK
        <4> QED BY <4>1
      <3> QED BY <2>1, <3>1, <3>2
    <2>4. CASE s = <<"IPI_CALL_FUNC", i>> BY <2>1, <2>4 DEF TypeOK
    <2>5. CASE s # <<"IPI_CALL_FUNC", i>>
      <3>1. \A g \in Harts :
              <<"IPI_CALL_FUNC", i>> \in buffer[g] => <<"IPI_CALL_FUNC", i>> \in buffer'[g]
        BY <2>1, <2>5 DEF TypeOK
      <3>2. \A g \in Harts : Owes(g) => Owes(g)'
        BY <2>2, <3>1 DEF WillSet, StillQueueing
      <3> QED BY <1>0, <2>2, <2>3, <3>2
    <2> QED BY <2>4, <2>5
  <1>9. ASSUME NEW h \in Harts, TakeIpi(h) \/ TakeConsole(h) \/ IsrStep(h)
        PROVE  Safe'
    <2>1. \A g \in Harts : Owes(g)' = Owes(g)
      BY <1>9, HandlerKeepsTasks DEF WillSet, StillQueueing
    <2>2. CASE h # i
      <3>1. bits'[i] = bits[i] /\ queue'[i] = queue[i] /\ isr'[i] = isr[i]
        BY <1>9, <2>2
        DEF TakeIpi, TakeConsole, Arrive, IsrStep, IsrClear, IsrXchg, IsrFlush, IsrCall,
            IsrCalled, IsrFlushed, IsrUnmask, IsrReturn, TypeOK
      <3> QED BY <1>0, <2>1, <3>1
    <2>3. CASE h = i
      <3>1. CASE TakeIpi(i) \/ TakeConsole(i) \/ IsrClear(i) \/ IsrCall(i)
                 \/ IsrCalled(i) \/ IsrFlushed(i) \/ IsrUnmask(i) \/ IsrReturn(i)
        <4>1. bits' = bits /\ queue' = queue /\ isr[i] # "flush"
          BY <3>1 DEF TakeIpi, TakeConsole, Arrive, IsrClear, IsrCall, IsrCalled,
                      IsrFlushed, IsrUnmask, IsrReturn
        <4> QED BY <1>0, <2>1, <4>1
      <3>2. CASE IsrXchg(i)
        <4>1. queue' = queue /\ isr[i] = "xchg" BY <3>2 DEF IsrXchg
        <4>2. "IPI_CALL_FUNC" \in bits[i] => isr'[i] = "flush"
          BY <3>2 DEF IsrXchg, TypeOK
        <4> QED BY <1>0, <2>1, <4>1, <4>2
      <3>3. CASE IsrFlush(i) BY <3>3 DEF IsrFlush, TypeOK
      <3> QED BY <1>9, <2>3, <3>1, <3>2, <3>3 DEF IsrStep
    <2> QED BY <2>2, <2>3
  <1>10. CASE UNCHANGED vars
    <2>1. \A g \in Harts : Owes(g)' = Owes(g)
      BY <1>10 DEF vars, WillSet, StillQueueing
    <2> QED BY <1>0, <1>10, <2>1 DEF vars
  <1> QED
    BY <1>2, <1>3, <1>4, <1>5, <1>6, <1>7, <1>8, <1>9, <1>10 DEF Next, TaskStep
-----------------------------------------------------------------------------
LEMMA MissedStep ==
  TypeOK /\ BufferInv /\ RequestInv /\ NoMissedReschedule /\ [Next]_vars
    => NoMissedReschedule'
  <1> SUFFICES ASSUME TypeOK, BufferInv, RequestInv, NoMissedReschedule, [Next]_vars,
                      NEW i \in Harts, need'[i], pc'[i] = "user", isr'[i] = "off"
               PROVE  \/ ipi'[i]
                      \/ \E g \in Harts : Rescheduling(g)' /\ req'[g].to = {i}
    BY DEF NoMissedReschedule
  <1> DEFINE For(g) == Rescheduling(g) /\ req[g].to = {i}
  <1> DEFINE Safe == ipi[i] \/ \E g \in Harts : For(g)
  <1>0. need[i] /\ pc[i] = "user" /\ isr[i] = "off" => Safe
    BY DEF NoMissedReschedule
  <1>1. ASSUME NEW h \in Harts, Request(h) \/ TaskStep(h) \/ Store(h),
               NEW g \in Harts, g # h, For(g)
        PROVE  For(g)'
    BY <1>1, OthersUnmoved DEF Rescheduling
  <1>l. ASSUME NEW h \in Harts, Request(h) \/ TaskStep(h) \/ Store(h)
        PROVE  isr[i] = "off"
    BY <1>l, TaskKeepsHandler
  \* A step of h that leaves the flag alone, keeps i in user mode and keeps
  \* its own reschedule going, or has just sent the interrupt.
  <1>k. ASSUME NEW h \in Harts, Request(h) \/ TaskStep(h),
               need' = need, pc[i] = "user", ipi[i] => ipi'[i],
               For(h) => For(h)' \/ ipi'[i]
        PROVE  Safe'
    BY <1>0, <1>1, <1>k, <1>l
  <1>2. ASSUME NEW h \in Harts, Request(h) PROVE Safe'
    <2>1. need' = need /\ ipi' = ipi /\ pc[h] = "user" /\ pc'[h] # "user"
      BY <1>2 DEF Request, AskReschedule, AskCall, Ask, TypeOK
    <2>2. ~For(h) BY <2>1 DEF Rescheduling, RequestInv
    <2>3. pc[i] = "user" BY <1>2, <2>1, OthersUnmoved
    <2> QED BY <1>2, <1>k, <2>1, <2>2, <2>3
  <1>3. ASSUME NEW h \in Harts, Enqueue(h) \/ Waited(h) PROVE Safe'
    <2>1. /\ need' = need /\ ipi' = ipi /\ pc[h] \in {"enqueue", "wait"}
          /\ pc'[h] # "user"
      BY <1>3 DEF Enqueue, Waited, TypeOK
    <2>2. ~For(h) BY <2>1 DEF Rescheduling, RequestInv
    <2>3. pc[i] = "user" BY <1>3, <2>1, OthersUnmoved DEF TaskStep
    <2> QED BY <1>3, <1>k, <2>1, <2>2, <2>3 DEF TaskStep
  <1>4. ASSUME NEW h \in Harts, Fence1(h) \/ SetBit(h) \/ Fence2(h) PROVE Safe'
    <2>1. /\ need' = need /\ ipi' = ipi /\ req' = req
          /\ pc'[h] \notin {"user", "exit"}
      BY <1>4 DEF Fence1, SetBit, Fence2, TypeOK
    <2>2. For(h) => For(h)' BY <2>1 DEF Rescheduling
    <2>3. pc[i] = "user" BY <1>4, <2>1, OthersUnmoved DEF TaskStep
    <2> QED BY <1>4, <1>k, <2>1, <2>2, <2>3 DEF TaskStep
  <1>5. ASSUME NEW h \in Harts, SendIpi(h) PROVE Safe'
    <2>1. PICK j \in left[h] :
            /\ ipi' = [ipi EXCEPT ![j] = TRUE]
            /\ pc' = [pc EXCEPT ![h] =
                  IF left[h] # {j} THEN "send"
                  ELSE IF Waits(req[h].kind) THEN "wait" ELSE "exit"]
      BY <1>5 DEF SendIpi
    <2>2. /\ need' = need /\ req' = req /\ pc[h] = "send"
          /\ pc'[h] \in {"send", "wait", "exit"}
      BY <1>5, <2>1 DEF SendIpi, TypeOK
    <2>3. left[h] \subseteq req[h].to BY <2>2 DEF RequestInv
    <2>4. For(h) => ipi'[i]
      <3>1. For(h) => j = i BY <2>3
      <3> QED BY <2>1, <3>1 DEF TypeOK
    <2>5. ipi[i] => ipi'[i] BY <2>1 DEF TypeOK
    <2>6. pc[i] = "user" BY <1>5, <2>2, OthersUnmoved DEF TaskStep
    <2> QED BY <1>5, <1>k, <2>2, <2>4, <2>5, <2>6 DEF TaskStep
  <1>6. ASSUME NEW h \in Harts, Exit(h) PROVE Safe'
    <2>1. /\ ipi' = ipi /\ pc[h] = "exit" /\ h # i
      BY <1>6 DEF Exit, CheckNeed, TypeOK
    <2>2. need'[i] = need[i] BY <1>6, <2>1 DEF Exit, CheckNeed, TypeOK
    <2>3. ~For(h) BY <2>1 DEF Rescheduling
    <2>4. pc[i] = "user" BY <1>6, <2>1, OthersUnmoved DEF TaskStep
    <2> QED BY <1>0, <1>1, <1>6, <1>l, <2>1, <2>2, <2>3, <2>4 DEF TaskStep
  <1>7. ASSUME NEW h \in Harts, Store(h) PROVE Safe'
    <2>1. PICK s \in buffer[h] :
            IF s[1] = "NEED_RESCHED"
            THEN need' = [need EXCEPT ![s[2]] = TRUE] /\ UNCHANGED bits
            ELSE bits' = [bits EXCEPT ![s[2]] = @ \cup {s[1]}] /\ UNCHANGED need
      BY <1>7 DEF Store
    <2>2. UNCHANGED <<ipi, pc, req, isr>> BY <1>7 DEF Store
    <2>3. Safe => Safe' BY <2>2 DEF Rescheduling
    <2>4. CASE need[i] BY <1>0, <2>2, <2>3, <2>4
    <2>5. CASE ~need[i]
      <3>1. s[1] = "NEED_RESCHED" /\ s[2] = i BY <2>1, <2>5 DEF TypeOK
      <3>2. s = <<"NEED_RESCHED", i>> BY <3>1 DEF TypeOK
      <3>3. pc[h] = "fence1" /\ req[h].kind = "reschedule" /\ i \in req[h].to
        BY <3>2 DEF BufferInv
      <3>4. req[h].to = {i} BY <3>3 DEF RequestInv
      <3>5. For(h) BY <3>3, <3>4 DEF Rescheduling
      <3> QED BY <2>3, <3>5
    <2> QED BY <2>4, <2>5
  <1>8. ASSUME NEW h \in Harts, TakeIpi(h) \/ TakeConsole(h) \/ IsrStep(h)
        PROVE  Safe'
    <2>1. \A g \in Harts : For(g)' = For(g)
      BY <1>8, HandlerKeepsTasks DEF Rescheduling
    <2>2. CASE h # i
      <3>1. /\ need'[i] = need[i] /\ ipi'[i] = ipi[i] /\ isr'[i] = isr[i]
            /\ pc' = pc
        BY <1>8, <2>2
        DEF TakeIpi, TakeConsole, Arrive, IsrStep, IsrClear, IsrXchg, IsrFlush, IsrCall,
            IsrCalled, IsrFlushed, IsrUnmask, IsrReturn, CheckNeed, TypeOK
      <3> QED BY <1>0, <2>1, <3>1
    <2>3. CASE h = i
      <3>1. CASE IsrReturn(i)
        BY <3>1 DEF IsrReturn, CheckNeed, TypeOK
      <3>2. CASE ~IsrReturn(i)
        BY <1>8, <2>3, <3>2
        DEF TakeIpi, TakeConsole, Arrive, IsrStep, IsrClear, IsrXchg, IsrFlush, IsrCall,
            IsrCalled, IsrFlushed, IsrUnmask, TypeOK
      <3> QED BY <3>1, <3>2
    <2> QED BY <2>2, <2>3
  <1>9. CASE UNCHANGED vars BY <1>0, <1>9 DEF vars, Rescheduling
  <1> QED
    BY <1>2, <1>3, <1>4, <1>5, <1>6, <1>7, <1>8, <1>9 DEF Next, TaskStep

-----------------------------------------------------------------------------
\* Sequences: what appending and taking the first do to a concatenation.
LEMMA ConcatAppend ==
  ASSUME NEW s \in Seq(Calls), NEW t \in Seq(Calls), NEW e \in Calls
  PROVE  s \o Append(t, e) = Append(s \o t, e)
  <1>1. /\ s \o Append(t, e) \in Seq(Calls) /\ Append(s \o t, e) \in Seq(Calls)
        /\ Len(s \o Append(t, e)) = Len(Append(s \o t, e))
    OBVIOUS
  <1>2. \A n \in 1..Len(s \o Append(t, e)) :
           (s \o Append(t, e))[n] = Append(s \o t, e)[n]
    OBVIOUS
  <1> QED BY <1>1, <1>2, SeqEqual

LEMMA ConcatHeadTail ==
  ASSUME NEW S, NEW s \in Seq(S), NEW t \in Seq(S), s # <<>>
  PROVE  /\ s \o t # <<>> /\ Head(s \o t) = Head(s)
         /\ Tail(s) \o t = Tail(s \o t)
  <1>1. Len(s) \in Nat /\ Len(s) > 0 /\ Len(t) \in Nat OBVIOUS
  <1>2. Tail(s) \o t \in Seq(S) /\ s \o t \in Seq(S) OBVIOUS
  <1>3. Len(s \o t) = Len(s) + Len(t) OBVIOUS
  <1>4. s \o t # <<>> /\ Head(s \o t) = Head(s) BY <1>1, <1>3
  <1>5. Len(Tail(s) \o t) = Len(Tail(s \o t)) BY <1>1, <1>2, <1>3, <1>4
  <1>6. \A n \in 1..Len(Tail(s) \o t) : (Tail(s) \o t)[n] = Tail(s \o t)[n]
    BY <1>1, <1>2, <1>3, <1>4
  <1>7. Tail(s \o t) \in Seq(S) BY <1>2, <1>4
  <1> QED BY <1>2, <1>4, <1>5, <1>6, <1>7, SeqEqual

LEMMA FlushStep == TypeOK /\ FlushInv /\ [Next]_vars => FlushInv'
  <1> SUFFICES ASSUME TypeOK, FlushInv, [Next]_vars PROVE FlushInv'
    OBVIOUS
  <1>1. ASSUME NEW h \in Harts, IsrStep(h) PROVE FlushInv'
    BY <1>1 DEF IsrStep, IsrClear, IsrXchg, IsrFlush, IsrCall, IsrCalled,
                IsrFlushed, IsrUnmask, IsrReturn, FlushInv, TypeOK
  <1>2. ASSUME NEW h \in Harts, TakeIpi(h) \/ TakeConsole(h) PROVE FlushInv'
    BY <1>2 DEF TakeIpi, TakeConsole, Arrive, FlushInv, TypeOK
  <1>3. ASSUME NEW h \in Harts, Request(h) \/ TaskStep(h) \/ Store(h)
        PROVE  UNCHANGED <<isr, batch>>
    BY <1>3, TaskKeepsHandler
  <1>4. CASE UNCHANGED vars BY <1>4 DEF vars, FlushInv
  <1> QED BY <1>1, <1>2, <1>3, <1>4 DEF Next, FlushInv

LEMMA ListedType ==
  ASSUME TypeOK, BatchInv, NEW i \in Harts
  PROVE  Listed(i) \in Seq(Calls)
  <1>1. batch[i] \in Seq(Calls) /\ queue[i] \in Seq(Calls) BY DEF TypeOK
  <1>2. isr[i] = "function" => Tail(batch[i]) \in Seq(Calls)
    BY <1>1 DEF BatchInv
  <1> QED BY <1>1, <1>2 DEF Listed

\* The three things a step can do to the lists of calls and the csd locks:
\* nothing, ...
ListsSame == locked' = locked /\ \A i \in Harts : Listed(i)' = Listed(i)

\* ... lock a free csd and append its call, ...
ListAppended(h, i) ==
    /\ CsdFree(h, req[h], i) /\ locked' = locked \cup {Csd(h, req[h], i)}
    /\ Listed(i)' = Append(Listed(i), Call(h, i))
    /\ \A j \in Harts \ {i} : Listed(j)' = Listed(j)

\* ... or unlock the first one, whose function does return if it is waited for.
ListShortened(g) ==
    /\ Listed(g) # <<>> /\ locked' = locked \ {Head(Listed(g)).csd}
    /\ Head(Listed(g)).wait => Head(Listed(g)).func # "ipi_stop"
    /\ Listed(g)' = Tail(Listed(g))
    /\ \A j \in Harts \ {g} : Listed(j)' = Listed(j)

LEMMA EnqueueAppends ==
  ASSUME TypeOK, BatchInv, NEW h \in Harts, NEW i \in left[h],
         CsdFree(h, req[h], i), locked' = locked \cup {Csd(h, req[h], i)},
         queue' = [queue EXCEPT ![i] = Append(@, Call(h, i))],
         UNCHANGED <<isr, batch>>
  PROVE  ListAppended(h, i)
  <1>1. i \in Harts BY DEF TypeOK
  <1>2. \A j \in Harts \ {i} : Listed(j)' = Listed(j) BY DEF Listed, TypeOK
  <1>3. queue'[i] = Append(queue[i], Call(h, i)) BY <1>1 DEF TypeOK
  <1>4. Call(h, i) \in Calls BY <1>1, CallType
  <1>5. batch[i] \in Seq(Calls) /\ queue[i] \in Seq(Calls) BY <1>1 DEF TypeOK
  <1>6. isr[i] = "function" => Tail(batch[i]) \in Seq(Calls)
    BY <1>1, <1>5 DEF BatchInv
  <1>7. CASE isr[i] = "function" /\ ~Head(batch[i]).wait
    <2>1. Listed(i)' = Tail(batch[i]) \o Append(queue[i], Call(h, i))
      BY <1>3, <1>7 DEF Listed
    <2>2. Listed(i) = Tail(batch[i]) \o queue[i] BY <1>7 DEF Listed
    <2>3. Tail(batch[i]) \o Append(queue[i], Call(h, i))
            = Append(Tail(batch[i]) \o queue[i], Call(h, i))
      BY <1>4, <1>5, <1>6, <1>7, ConcatAppend
    <2> QED BY <1>2, <2>1, <2>2, <2>3 DEF ListAppended
  <1>8. CASE ~(isr[i] = "function" /\ ~Head(batch[i]).wait)
    <2>1. Listed(i)' = batch[i] \o Append(queue[i], Call(h, i))
      BY <1>3, <1>8 DEF Listed
    <2>2. Listed(i) = batch[i] \o queue[i] BY <1>8 DEF Listed
    <2>3. batch[i] \o Append(queue[i], Call(h, i))
            = Append(batch[i] \o queue[i], Call(h, i))
      BY <1>4, <1>5, ConcatAppend
    <2> QED BY <1>2, <2>1, <2>2, <2>3 DEF ListAppended
  <1> QED BY <1>7, <1>8

LEMMA ListsStep ==
  ASSUME TypeOK, BatchInv, FlushInv, [Next]_vars
  PROVE  \/ ListsSame
         \/ \E h \in Harts : Enqueue(h) /\ \E i \in left[h] : ListAppended(h, i)
         \/ \E g \in Harts : ListShortened(g)
  <1>1. ASSUME NEW h \in Harts, Enqueue(h)
        PROVE  \E i \in left[h] : ListAppended(h, i)
    <2>1. PICK i \in left[h] :
            /\ CsdFree(h, req[h], i) /\ locked' = locked \cup {Csd(h, req[h], i)}
            /\ queue' = [queue EXCEPT ![i] = Append(@, Call(h, i))]
      BY <1>1 DEF Enqueue
    <2>2. UNCHANGED <<isr, batch>> BY <1>1 DEF Enqueue
    <2>3. ListAppended(h, i) BY <2>1, <2>2, EnqueueAppends
    <2> QED BY <2>3
  <1>2. ASSUME NEW h \in Harts, Request(h) \/ TaskStep(h) \/ Store(h), ~Enqueue(h)
        PROVE  ListsSame
    <2>1. UNCHANGED <<isr, batch>> BY <1>2, TaskKeepsHandler
    <2>2. UNCHANGED <<queue, locked>>
      BY <1>2 DEF Request, AskReschedule, AskCall, TaskStep, Fence1, SetBit,
                  Fence2, SendIpi, Waited, Exit, Store
    <2> QED BY <2>1, <2>2 DEF ListsSame, Listed
  <1>3. ASSUME NEW h \in Harts,
               \/ TakeIpi(h) \/ TakeConsole(h) \/ IsrClear(h) \/ IsrXchg(h)
               \/ IsrFlushed(h) \/ IsrUnmask(h) \/ IsrReturn(h)
        PROVE  ListsSame
    <2>1. UNCHANGED <<queue, locked, batch>>
      BY <1>3 DEF TakeIpi, TakeConsole, Arrive, IsrClear, IsrXchg, IsrFlushed, IsrUnmask, IsrReturn
    <2>2. \A i \in Harts : isr'[i] = "function" <=> isr[i] = "function"
      BY <1>3 DEF TakeIpi, TakeConsole, Arrive, IsrClear, IsrXchg, IsrFlushed,
                  IsrUnmask, IsrReturn, TypeOK
    <2> QED BY <2>1, <2>2 DEF ListsSame, Listed
  <1>4. ASSUME NEW h \in Harts, IsrFlush(h) PROVE ListsSame
    <2>1. /\ batch'[h] = queue[h] /\ queue'[h] = <<>> /\ locked' = locked
          /\ isr'[h] = "run" /\ isr[h] = "flush" /\ batch[h] = <<>>
      BY <1>4 DEF IsrFlush, FlushInv, TypeOK
    <2>2. Listed(h) = <<>> \o queue[h] /\ Listed(h)' = queue[h] \o <<>>
      BY <2>1 DEF Listed
    <2>3. queue[h] \in Seq(Calls) BY DEF TypeOK
    <2>4. Listed(h)' = Listed(h) BY <2>2, <2>3, ConcatEmptySeq
    <2>5. \A i \in Harts \ {h} : Listed(i)' = Listed(i)
      BY <1>4 DEF IsrFlush, Listed, TypeOK
    <2> QED BY <2>1, <2>4, <2>5 DEF ListsSame
  <1>5. ASSUME NEW h \in Harts, IsrCall(h) PROVE ListsSame \/ ListShortened(h)
    <2>1. /\ isr[h] = "run" /\ isr'[h] = "function" /\ batch[h] # <<>>
          /\ batch' = batch /\ queue' = queue
          /\ locked' = IF Head(batch[h]).wait THEN locked
                       ELSE locked \ {Head(batch[h]).csd}
      BY <1>5 DEF IsrCall, TypeOK
    <2>2. \A i \in Harts \ {h} : Listed(i)' = Listed(i)
      BY <1>5 DEF IsrCall, Listed, TypeOK
    <2>3. Listed(h) = batch[h] \o queue[h] BY <2>1 DEF Listed
    <2>4. CASE Head(batch[h]).wait
      <3>1. Listed(h)' = Listed(h) BY <2>1, <2>3, <2>4 DEF Listed
      <3> QED BY <2>1, <2>2, <2>4, <3>1 DEF ListsSame
    <2>5. CASE ~Head(batch[h]).wait
      <3>1. Listed(h)' = Tail(batch[h]) \o queue[h] BY <2>1, <2>5 DEF Listed
      <3>2. batch[h] \in Seq(Calls) /\ queue[h] \in Seq(Calls) BY DEF TypeOK
      <3>3. /\ batch[h] \o queue[h] # <<>>
            /\ Head(batch[h] \o queue[h]) = Head(batch[h])
            /\ Tail(batch[h]) \o queue[h] = Tail(batch[h] \o queue[h])
        BY <2>1, <3>2, ConcatHeadTail
      <3>4. locked' = locked \ {Head(batch[h]).csd} BY <2>1, <2>5
      <3>5. Listed(h) # <<>> /\ Head(Listed(h)) = Head(batch[h])
            /\ Listed(h)' = Tail(Listed(h))
        BY <2>3, <3>1, <3>3
      <3> QED BY <2>2, <2>5, <3>4, <3>5 DEF ListShortened
    <2> QED BY <2>4, <2>5
  <1>6. ASSUME NEW h \in Harts, IsrCalled(h) PROVE ListsSame \/ ListShortened(h)
    <2>1. /\ isr[h] = "function" /\ isr'[h] = "run" /\ batch[h] # <<>>
          /\ batch'[h] = Tail(batch[h]) /\ queue' = queue
          /\ Head(batch[h]).func # "ipi_stop"
          /\ locked' = IF Head(batch[h]).wait THEN locked \ {Head(batch[h]).csd}
                       ELSE locked
      BY <1>6 DEF IsrCalled, BatchInv, TypeOK
    <2>2. \A i \in Harts \ {h} : Listed(i)' = Listed(i)
      BY <1>6 DEF IsrCalled, Listed, TypeOK
    <2>3. Listed(h)' = Tail(batch[h]) \o queue[h] BY <2>1 DEF Listed
    <2>4. CASE ~Head(batch[h]).wait
      <3>1. Listed(h)' = Listed(h) BY <2>1, <2>3, <2>4 DEF Listed
      <3> QED BY <2>1, <2>2, <2>4, <3>1 DEF ListsSame
    <2>5. CASE Head(batch[h]).wait
      <3>1. Listed(h) = batch[h] \o queue[h] BY <2>1, <2>5 DEF Listed
      <3>2. batch[h] \in Seq(Calls) /\ queue[h] \in Seq(Calls) BY DEF TypeOK
      <3>3. /\ batch[h] \o queue[h] # <<>>
            /\ Head(batch[h] \o queue[h]) = Head(batch[h])
            /\ Tail(batch[h]) \o queue[h] = Tail(batch[h] \o queue[h])
        BY <2>1, <3>2, ConcatHeadTail
      <3>4. locked' = locked \ {Head(batch[h]).csd} BY <2>1, <2>5
      <3>5. Listed(h) # <<>> /\ Head(Listed(h)) = Head(batch[h])
            /\ Listed(h)' = Tail(Listed(h))
        BY <2>3, <3>1, <3>3
      <3> QED BY <2>1, <2>2, <3>4, <3>5 DEF ListShortened
    <2> QED BY <2>4, <2>5
  <1>7. CASE UNCHANGED vars BY <1>7 DEF vars, ListsSame, Listed
  <1> QED BY <1>1, <1>2, <1>3, <1>4, <1>5, <1>6, <1>7 DEF Next, IsrStep

\* What the lists hold after each of the last two.
LEMMA AppendedCalls ==
  ASSUME TypeOK, BatchInv, NEW h \in Harts, NEW i \in Harts, ListAppended(h, i),
         NEW g \in Harts, NEW n \in DOMAIN Listed(g)'
  PROVE  \/ n \in DOMAIN Listed(g) /\ Listed(g)'[n] = Listed(g)[n]
         \/ g = i /\ n = Len(Listed(i)) + 1 /\ Listed(g)'[n] = Call(h, i)
  <1>1. CASE g = i
    <2>1. Listed(i) \in Seq(Calls) BY ListedType
    <2>2. Call(h, i) \in Calls BY CallType
    <2>3. Listed(g)' = Append(Listed(i), Call(h, i)) BY <1>1 DEF ListAppended
    <2>4. n \in 1..(Len(Listed(i)) + 1) BY <2>1, <2>2, <2>3
    <2>5. CASE n \in 1..Len(Listed(i))
      BY <1>1, <2>1, <2>2, <2>3, <2>5, AppendProperties
    <2>6. CASE n = Len(Listed(i)) + 1
      BY <1>1, <2>1, <2>2, <2>3, <2>6, AppendProperties
    <2> QED BY <2>1, <2>4, <2>5, <2>6
  <1>2. CASE g # i BY <1>2 DEF ListAppended
  <1> QED BY <1>1, <1>2

LEMMA ShortenedCalls ==
  ASSUME TypeOK, BatchInv, NEW k \in Harts, ListShortened(k),
         NEW g \in Harts, NEW n \in DOMAIN Listed(g)'
  PROVE  LET m == IF g = k THEN n + 1 ELSE n
         IN  n \in Nat /\ m \in DOMAIN Listed(g) /\ Listed(g)'[n] = Listed(g)[m]
  <1>1. Listed(g) \in Seq(Calls) BY ListedType
  <1>2. CASE g = k
    <2>1. Listed(g) # <<>> /\ Listed(g)' = Tail(Listed(g))
      BY <1>2 DEF ListShortened
    <2>2. n \in 1..Len(Tail(Listed(g))) /\ Len(Tail(Listed(g))) = Len(Listed(g)) - 1
      BY <1>1, <2>1, HeadTailProperties
    <2>3. Listed(g)'[n] = Listed(g)[n + 1]
      BY <1>1, <2>1, <2>2, HeadTailProperties
    <2> QED BY <1>1, <1>2, <2>2, <2>3
  <1>3. CASE g # k
    <2>1. Listed(g)' = Listed(g) BY <1>3 DEF ListShortened
    <2> QED BY <1>1, <1>3, <2>1
  <1> QED BY <1>2, <1>3

\* The node of a free csd is not that of a locked one.
LEMMA FreeNode ==
  ASSUME TypeOK, NEW h \in Harts, NEW i \in Harts, CsdFree(h, req[h], i),
         NEW c \in locked
  PROVE  c # Csd(h, req[h], i) /\ Node(c) # Node(Csd(h, req[h], i))
  <1>1. PICK a \in Harts, b \in {"cfd", "stack", "csd_data"}, d \in Harts :
          c = <<a, b, d>>
    BY DEF TypeOK, Csds
  <1>2. Node(c) = IF b = "csd_data" THEN <<a, b>> ELSE <<a, b, d>>
    BY <1>1 DEF Node
  <1>3. Csd(h, req[h], i) = <<h, Slot(req[h]), i>> BY DEF Csd
  <1>4. Node(Csd(h, req[h], i)) =
          IF Slot(req[h]) = "csd_data" THEN <<h, Slot(req[h])>>
          ELSE <<h, Slot(req[h]), i>>
    BY <1>3 DEF Node
  <1>5. CASE Slot(req[h]) = "csd_data"
    <2>1. <<h, "csd_data", d>> \notin locked BY <1>5 DEF CsdFree
    <2>2. ~(a = h /\ b = "csd_data") BY <1>1, <2>1
    <2> QED BY <1>1, <1>2, <1>3, <1>4, <1>5, <2>2
  <1>6. CASE Slot(req[h]) # "csd_data"
    <2>1. c # Csd(h, req[h], i) BY <1>6 DEF CsdFree
    <2> QED BY <1>1, <1>2, <1>3, <1>4, <1>6, <2>1
  <1> QED BY <1>5, <1>6

LEMMA CsdStep ==
  TypeOK /\ BatchInv /\ FlushInv /\ CsdNotReused /\ [Next]_vars => CsdNotReused'
  <1> SUFFICES ASSUME TypeOK, BatchInv, FlushInv, CsdNotReused, [Next]_vars
               PROVE  CsdNotReused'
    OBVIOUS
  <1>1. CASE ListsSame
    <2>1. \A i \in Harts : Listed(i)' = Listed(i) BY <1>1 DEF ListsSame
    <2>2. locked' = locked BY <1>1 DEF ListsSame
    <2> QED BY <2>1, <2>2 DEF CsdNotReused, Node
  <1>2. ASSUME NEW h \in Harts, NEW i \in left[h], ListAppended(h, i)
        PROVE  CsdNotReused'
    <2>0. i \in Harts BY DEF TypeOK
    <2>1. Call(h, i).csd = Csd(h, req[h], i) BY DEF Call
    <2>2. locked' = locked \cup {Csd(h, req[h], i)} BY <1>2 DEF ListAppended
    <2>3. ASSUME NEW c \in locked PROVE Node(c) # Node(Csd(h, req[h], i))
      BY <1>2, <2>0, <2>3, FreeNode DEF ListAppended
    <2>4. ASSUME NEW g \in Harts, NEW n \in DOMAIN Listed(g)'
          PROVE  \/ n \in DOMAIN Listed(g) /\ Listed(g)'[n] = Listed(g)[n]
                 \/ g = i /\ n = Len(Listed(i)) + 1 /\ Listed(g)'[n] = Call(h, i)
      BY <1>2, <2>0, <2>4, AppendedCalls
    <2>5. \A g \in Harts : \A n \in DOMAIN Listed(g) : Listed(g)[n].csd \in locked
      BY DEF CsdNotReused
    <2>6. ASSUME NEW g \in Harts, NEW n \in DOMAIN Listed(g)'
          PROVE  Listed(g)'[n].csd \in locked'
      BY <2>1, <2>2, <2>4, <2>5, <2>6
    <2>7. ASSUME NEW g \in Harts, NEW j \in Harts, NEW m \in DOMAIN Listed(g)',
                 NEW n \in DOMAIN Listed(j)',
                 Node(Listed(g)'[m].csd) = Node(Listed(j)'[n].csd)
          PROVE  g = j /\ m = n
      <3>1. CASE /\ m \in DOMAIN Listed(g) /\ Listed(g)'[m] = Listed(g)[m]
                 /\ n \in DOMAIN Listed(j) /\ Listed(j)'[n] = Listed(j)[n]
        <4>1. Node(Listed(g)[m].csd) = Node(Listed(j)[n].csd) BY <2>7, <3>1
        <4>2. m \in DOMAIN Listed(g) /\ n \in DOMAIN Listed(j) BY <3>1
        <4>3. \A a, b \in Harts : \A p \in DOMAIN Listed(a), q \in DOMAIN Listed(b) :
                 Node(Listed(a)[p].csd) = Node(Listed(b)[q].csd) => a = b /\ p = q
          BY DEF CsdNotReused
        <4> QED BY <4>1, <4>2, <4>3
      <3>2. CASE /\ m \in DOMAIN Listed(g) /\ Listed(g)'[m] = Listed(g)[m]
                 /\ Listed(j)'[n] = Call(h, i)
        BY <2>1, <2>3, <2>5, <2>7, <3>2
      <3>3. CASE /\ n \in DOMAIN Listed(j) /\ Listed(j)'[n] = Listed(j)[n]
                 /\ Listed(g)'[m] = Call(h, i)
        BY <2>1, <2>3, <2>5, <2>7, <3>3
      <3>4. CASE /\ g = i /\ m = Len(Listed(i)) + 1
                 /\ j = i /\ n = Len(Listed(i)) + 1
        BY <3>4
      <3> QED BY <2>4, <3>1, <3>2, <3>3, <3>4
    <2> QED BY <2>6, <2>7 DEF CsdNotReused, Node
  <1>3. ASSUME NEW k \in Harts, ListShortened(k) PROVE CsdNotReused'
    <2>1. Listed(k) \in Seq(Calls) /\ Listed(k) # <<>>
      BY <1>3, ListedType DEF ListShortened
    <2>2. 1 \in DOMAIN Listed(k) /\ Head(Listed(k)) = Listed(k)[1] BY <2>1
    <2>3. locked' = locked \ {Listed(k)[1].csd} BY <1>3, <2>2 DEF ListShortened
    <2>4. ASSUME NEW g \in Harts, NEW n \in DOMAIN Listed(g)'
          PROVE  LET m == IF g = k THEN n + 1 ELSE n
                 IN  n \in Nat /\ m \in DOMAIN Listed(g)
                     /\ Listed(g)'[n] = Listed(g)[m]
      BY <1>3, <2>4, ShortenedCalls
    <2>5. ASSUME NEW g \in Harts, NEW n \in DOMAIN Listed(g)'
          PROVE  Listed(g)'[n].csd \in locked'
      <3>1. PICK m \in DOMAIN Listed(g) :
              Listed(g)'[n] = Listed(g)[m] /\ (g = k => m # 1)
        <4>1. n \in DOMAIN Listed(g)' BY <2>5
        <4>2. g = k => n \in 1..(Len(Listed(k)) - 1)
          BY <1>3, <2>1, <4>1, HeadTailProperties DEF ListShortened
        <4> QED BY <2>4, <4>2
      <3>2. Listed(g)[m].csd \in locked BY DEF CsdNotReused
      <3>3. Listed(g)[m].csd # Listed(k)[1].csd BY <2>2, <3>1 DEF CsdNotReused
      <3> QED BY <2>3, <3>1, <3>2, <3>3
    <2>6. ASSUME NEW g \in Harts, NEW j \in Harts, NEW m \in DOMAIN Listed(g)',
                 NEW n \in DOMAIN Listed(j)',
                 Node(Listed(g)'[m].csd) = Node(Listed(j)'[n].csd)
          PROVE  g = j /\ m = n
      <3> DEFINE mm == IF g = k THEN m + 1 ELSE m
                 nn == IF j = k THEN n + 1 ELSE n
      <3>1. /\ m \in Nat /\ mm \in DOMAIN Listed(g) /\ Listed(g)'[m] = Listed(g)[mm]
            /\ n \in Nat /\ nn \in DOMAIN Listed(j) /\ Listed(j)'[n] = Listed(j)[nn]
        BY <2>4
      <3>2. Node(Listed(g)[mm].csd) = Node(Listed(j)[nn].csd) BY <2>6, <3>1
      <3>3. g = j /\ mm = nn
        <4> HIDE DEF mm, nn
        <4> QED BY <3>1, <3>2 DEF CsdNotReused
      <3> QED BY <3>1, <3>3
    <2> QED BY <2>5, <2>6 DEF CsdNotReused, Node
  <1> QED BY <1>1, <1>2, <1>3, ListsStep

\* A stop goes on from where it is, and only csd_lock adds to what it holds.
LEMMA HeldStep ==
  ASSUME TypeOK, BatchInv, FlushInv, StopInv, [Next]_vars,
         NEW h \in Harts, req'[h].kind = "stop"
  PROVE  /\ req'[h].to # {} /\ pc'[h] \notin {"user", "exit"}
         /\ \A i \in Harts : Held(h, i)' =>
               req'[h] = req[h] /\ (Held(h, i) \/ ListAppended(h, i))
  <1> DEFINE Goal ==
         /\ req'[h].to # {} /\ pc'[h] \notin {"user", "exit"}
         /\ \A i \in Harts : Held(h, i)' =>
               req'[h] = req[h] /\ (Held(h, i) \/ ListAppended(h, i))
  <1>0. req[h].kind = "stop" => req[h].to # {} /\ pc[h] \notin {"user", "exit"}
    BY DEF StopInv
  <1>1. ASSUME UNCHANGED <<pc, req, left>> PROVE Goal BY <1>0, <1>1 DEF Held
  <1>2. ASSUME NEW g \in Harts, g # h, Request(g) \/ TaskStep(g) \/ Store(g)
        PROVE  Goal
    <2>1. pc'[h] = pc[h] /\ req'[h] = req[h] /\ left'[h] = left[h]
      BY <1>2, OthersUnmoved
    <2> QED BY <1>0, <2>1 DEF Held
  <1>3. CASE Request(h)
    <2>1. PICK k \in Kinds, to \in SUBSET Harts : AskCall(h, k, to)
      BY <1>3 DEF Request, AskReschedule, TypeOK
    <2>2. /\ req'[h] = [kind |-> k, to |-> to] /\ left'[h] = to /\ to # {}
          /\ pc'[h] = "enqueue"
      BY <2>1 DEF AskCall, TypeOK
    <2> QED BY <2>2 DEF Held
  <1>4. CASE Enqueue(h)
    <2>1. PICK i \in left[h] :
            /\ CsdFree(h, req[h], i) /\ locked' = locked \cup {Csd(h, req[h], i)}
            /\ queue' = [queue EXCEPT ![i] = Append(@, Call(h, i))]
            /\ left' = [left EXCEPT ![h] = @ \ {i}]
            /\ pc' = [pc EXCEPT ![h] =
                  IF left[h] # {i} THEN "enqueue"
                  ELSE IF Interrupts(h, i) THEN "fence1"
                  ELSE IF Waits(req[h].kind) THEN "wait" ELSE "exit"]
      BY <1>4 DEF Enqueue
    <2>2. req' = req /\ pc[h] = "enqueue" /\ UNCHANGED <<isr, batch>>
      BY <1>4 DEF Enqueue
    <2>3. ListAppended(h, i) BY <2>1, <2>2, EnqueueAppends
    <2>4. Waits(req[h].kind) BY <2>2 DEF Waits
    <2>5. /\ left'[h] = left[h] \ {i}
          /\ pc'[h] = IF left[h] # {i} THEN "enqueue"
                      ELSE IF Interrupts(h, i) THEN "fence1" ELSE "wait"
      BY <2>1, <2>4 DEF TypeOK
    <2>6. ASSUME NEW j \in Harts, Held(h, j)' PROVE j = i \/ Held(h, j)
      BY <2>2, <2>5, <2>6 DEF Held
    <2> QED BY <1>0, <2>2, <2>3, <2>5, <2>6
  <1>5. CASE Fence1(h) \/ SetBit(h) \/ Fence2(h) \/ SendIpi(h)
    <2>1. req' = req /\ pc[h] \in {"fence1", "set", "fence2", "send"}
      BY <1>5 DEF Fence1, SetBit, Fence2, SendIpi
    <2>2. Waits(req[h].kind) BY <2>1 DEF Waits
    <2>3. pc'[h] \in {"set", "fence2", "send", "wait"}
      BY <1>5, <2>2 DEF Fence1, SetBit, Fence2, SendIpi, TypeOK
    <2> QED BY <1>0, <2>1, <2>3 DEF Held
  <1>6. ~Waited(h)
    <2>1. SUFFICES ASSUME Waited(h) PROVE FALSE OBVIOUS
    <2>2. /\ req' = req /\ pc[h] = "wait"
          /\ \A i \in req[h].to : Csd(h, req[h], i) \notin locked
      BY <2>1 DEF Waited
    <2>3. PICK i \in req[h].to : i \in Harts BY <1>0, <2>2 DEF TypeOK, Requests
    <2>4. Held(h, i) BY <2>2, <2>3 DEF Held
    <2> QED BY <2>2, <2>3, <2>4 DEF StopInv
  <1>7. ~Exit(h) BY DEF Exit, NoReq, TypeOK
  <1>8. ASSUME NEW g \in Harts, TakeIpi(g) \/ TakeConsole(g) \/ IsrStep(g)
        PROVE  Goal
    BY <1>1, <1>8, HandlerKeepsTasks
  <1>9. CASE UNCHANGED vars BY <1>1, <1>9 DEF vars
  <1>10. CASE Store(h)
    <2>1. UNCHANGED <<pc, req, left>> BY <1>10 DEF Store
    <2> QED BY <1>1, <2>1
  <1>11. CASE Request(h) \/ TaskStep(h) \/ Store(h)
    BY <1>3, <1>4, <1>5, <1>6, <1>7, <1>10, <1>11 DEF TaskStep
  <1> QED BY <1>2, <1>8, <1>9, <1>11 DEF Next

LEMMA StopStep ==
  TypeOK /\ BatchInv /\ FlushInv /\ CsdNotReused /\ StopInv /\ [Next]_vars
    => StopInv'
  <1> SUFFICES ASSUME TypeOK, BatchInv, FlushInv, CsdNotReused, StopInv,
                      [Next]_vars, NEW h \in Harts, req'[h].kind = "stop"
               PROVE  /\ req'[h].to # {} /\ pc'[h] \notin {"user", "exit"}
                      /\ \A i \in Harts : Held(h, i)' =>
                           /\ Csd(h, req'[h], i) \in locked'
                           /\ \A g \in Harts : \A n \in DOMAIN Listed(g)' :
                                 Listed(g)'[n].csd = Csd(h, req'[h], i) =>
                                    /\ Listed(g)'[n].wait
                                    /\ Listed(g)'[n].func = "ipi_stop"
    BY DEF StopInv, Csd
  <1>1. req'[h].to # {} /\ pc'[h] \notin {"user", "exit"} BY HeldStep
  <1>2. ASSUME NEW i \in Harts, Held(h, i)'
        PROVE  /\ Csd(h, req'[h], i) \in locked'
               /\ \A g \in Harts : \A n \in DOMAIN Listed(g)' :
                     Listed(g)'[n].csd = Csd(h, req'[h], i) =>
                        /\ Listed(g)'[n].wait /\ Listed(g)'[n].func = "ipi_stop"
    <2>1. req'[h] = req[h] /\ (Held(h, i) \/ ListAppended(h, i))
      BY <1>2, HeldStep
    <2> DEFINE c == Csd(h, req[h], i)
    <2>2. Csd(h, req'[h], i) = c BY <2>1
    <2>3. req[h].kind = "stop" BY <2>1
    <2> DEFINE Right(x) == x.csd = c => x.wait /\ x.func = "ipi_stop"
    <2>4. CASE Held(h, i)
      <3>1. c \in locked BY <2>3, <2>4 DEF StopInv
      <3>2. ASSUME NEW g \in Harts, NEW n \in DOMAIN Listed(g)
            PROVE  Right(Listed(g)[n])
        BY <2>3, <2>4 DEF StopInv
      <3> HIDE DEF c
      <3>3. CASE ListsSame
        BY <2>2, <3>1, <3>2, <3>3 DEF ListsSame
      <3>4. ASSUME NEW k \in Harts, NEW j \in left[k], ListAppended(k, j)
            PROVE  /\ c \in locked'
                   /\ \A g \in Harts : \A n \in DOMAIN Listed(g)' :
                         Right(Listed(g)'[n])
        <4>1. j \in Harts BY DEF TypeOK
        <4>2. Csd(k, req[k], j) # c
          BY <3>1, <3>4, <4>1, FreeNode DEF ListAppended
        <4>3. Call(k, j).csd # c BY <4>2 DEF Call
        <4>4. c \in locked' BY <3>1, <3>4 DEF ListAppended
        <4>5. ASSUME NEW g \in Harts, NEW n \in DOMAIN Listed(g)'
              PROVE  Right(Listed(g)'[n])
          <5>1. \/ n \in DOMAIN Listed(g) /\ Listed(g)'[n] = Listed(g)[n]
                \/ Listed(g)'[n] = Call(k, j)
            BY SMTT(60), <3>4, <4>1, <4>5, AppendedCalls
          <5>2. CASE n \in DOMAIN Listed(g) /\ Listed(g)'[n] = Listed(g)[n]
            BY <3>2, <5>2
          <5>3. CASE Listed(g)'[n] = Call(k, j) BY <4>3, <5>3
          <5> QED BY <5>1, <5>2, <5>3
        <4> QED BY <4>4, <4>5
      <3>5. ASSUME NEW k \in Harts, ListShortened(k)
            PROVE  /\ c \in locked'
                   /\ \A g \in Harts : \A n \in DOMAIN Listed(g)' :
                         Right(Listed(g)'[n])
        <4>1. Listed(k) \in Seq(Calls) /\ Listed(k) # <<>>
          BY <3>5, ListedType DEF ListShortened
        <4>2. 1 \in DOMAIN Listed(k) /\ Head(Listed(k)) = Listed(k)[1] BY <4>1
        <4>3. Head(Listed(k)).csd # c BY <3>2, <3>5, <4>2 DEF ListShortened
        <4>4. c \in locked' BY <3>1, <3>5, <4>3 DEF ListShortened
        <4>5. ASSUME NEW g \in Harts, NEW n \in DOMAIN Listed(g)'
              PROVE  Right(Listed(g)'[n])
          <5>1. PICK m \in DOMAIN Listed(g) : Listed(g)'[n] = Listed(g)[m]
            BY <3>5, <4>5, ShortenedCalls
          <5> QED BY <3>2, <5>1
        <4> QED BY <4>4, <4>5
      <3> QED BY <2>2, <3>3, <3>4, <3>5, ListsStep
    <2>5. CASE ListAppended(h, i)
      <3>1. c \in locked' BY <2>5 DEF ListAppended
      <3>2. Call(h, i).wait /\ Call(h, i).func = "ipi_stop"
        BY <2>3 DEF Call, Waits, Function
      <3>3. ASSUME NEW g \in Harts, NEW n \in DOMAIN Listed(g)
            PROVE  Listed(g)[n].csd # c
        <4>1. Listed(g)[n].csd \in locked BY DEF CsdNotReused
        <4> QED BY <2>5, <4>1, FreeNode DEF ListAppended
      <3> HIDE DEF c
      <3> QED BY <2>2, <2>5, <3>1, <3>2, <3>3, AppendedCalls
    <2> QED BY <2>1, <2>4, <2>5
  <1> QED BY <1>1, <1>2

\* Only csd_lock_wait leaves the wait.
LEMMA WaitStep ==
  ASSUME IInv, [Next]_vars, NEW h \in Harts, pc[h] = "wait", pc'[h] = "exit"
  PROVE  /\ req[h].kind # "stop"
         /\ \A i \in req[h].to : \A n \in DOMAIN Listed(i) :
               Listed(i)[n].csd # Csd(h, req[h], i)
  <1> USE DEF IInv
  <1>1. ASSUME NEW g \in Harts, Request(g) \/ TaskStep(g) \/ Store(g)
        PROVE  g = h /\ Waited(h)
    <2>1. g = h BY <1>1, OthersUnmoved
    <2>2. ~Request(h) BY DEF Request, AskReschedule, AskCall, Ask
    <2>3. ~Store(h) BY DEF Store
    <2> QED
      BY <1>1, <2>1, <2>2, <2>3
      DEF TaskStep, Enqueue, Fence1, SetBit, Fence2, SendIpi, Exit
  <1>2. Waited(h)
    BY <1>1, HandlerKeepsTasks DEF Next, vars
  <1>3. \A i \in req[h].to : Csd(h, req[h], i) \notin locked
    BY <1>2 DEF Waited
  <1>4. req[h].to \subseteq Harts BY DEF TypeOK, Requests
  <1>5. ASSUME req[h].kind = "stop" PROVE FALSE
    <2>1. PICK i \in req[h].to : i \in Harts BY <1>4, <1>5 DEF StopInv
    <2>2. Held(h, i) BY <1>5, <2>1 DEF Held
    <2> QED BY <1>3, <1>5, <2>1, <2>2 DEF StopInv
  <1>6. ASSUME NEW i \in req[h].to, NEW n \in DOMAIN Listed(i)
        PROVE  Listed(i)[n].csd # Csd(h, req[h], i)
    <2>1. Listed(i)[n].csd \in locked BY <1>4 DEF CsdNotReused
    <2> QED BY <1>3, <2>1
  <1> QED BY <1>5, <1>6

-----------------------------------------------------------------------------
LEMMA InvariantStep == IInv /\ [Next]_vars => IInv'
  BY TypeStep, BatchStep, TasksStep, StrandedStep, ForgottenStep, MissedStep,
     FlushStep, CsdStep, StopStep
  DEF IInv

THEOREM Invariance == Spec => []IInv
  BY InitIInv, InvariantStep, PTL DEF Spec

\* Every variable keeps its type; in particular no word ever holds a bit that
\* is not a message (the BUG_ON of ipi_isr).
THEOREM TypeCorrect == Spec => []TypeOK
  BY Invariance, PTL DEF IInv

\* On any number of harts, and however their stores are delayed, a bit of
\* ipi_data in memory always has an interrupt, a handler or a sender behind it.
THEOREM NoStrandedBitCorrect == Spec => []NoStrandedBit
  BY Invariance, PTL DEF IInv

\* On any number of harts a queued cross call always has its bit set, about to
\* be set, or its queue about to be taken.
THEOREM NoForgottenCallCorrect == Spec => []NoForgottenCall
  BY Invariance, PTL DEF IInv

\* On any number of harts a TIF_NEED_RESCHED seen by nobody always has an
\* interrupt coming.
THEOREM NoMissedRescheduleCorrect == Spec => []NoMissedReschedule
  BY Invariance, PTL DEF IInv

\* On any number of harts a csd is listed once and stays locked while it is,
\* so csd_lock never hands out a node that a queue still links to.
THEOREM CsdCorrect == Spec => []CsdNotReused
  BY Invariance, PTL DEF IInv

\* On any number of harts a waiting cross call returns only when no target has
\* its csd listed any more, and smp_send_stop never returns.
THEOREM WaitCorrect == Spec => WaitMeansDone
  <1>1. IInv /\ [Next]_vars =>
          [\A h \in Harts : pc[h] = "wait" /\ pc'[h] = "exit" =>
              /\ req[h].kind # "stop"
              /\ \A i \in req[h].to : \A n \in DOMAIN Listed(i) :
                    Listed(i)[n].csd # Csd(h, req[h], i)]_vars
    BY WaitStep
  <1> QED BY <1>1, Invariance, PTL DEF Spec, WaitMeansDone

-----------------------------------------------------------------------------
\* The cross calls of CrossCall.

\* The call c listed for hart i is one that its caller h waits for: h is past
\* the queueing of it and has not returned.
Awaits(h, i, c) ==
    /\ c.csd = Csd(h, req[h], i) /\ Waits(req[h].kind) /\ i \in req[h].to
    /\ pc[h] \notin {"user", "exit"}
    /\ pc[h] = "enqueue" => i \notin left[h]

AwaitInv ==
    \A i \in Harts : \A n \in DOMAIN Listed(i) :
        Listed(i)[n].wait => Awaits(Listed(i)[n].csd[1], i, Listed(i)[n])

\* Only a caller that waits gets to csd_lock_wait.
WaitsInv == \A h \in Harts : pc[h] = "wait" => Waits(req[h].kind)

LEMMA WaitsStep == TypeOK /\ WaitsInv /\ [Next]_vars => WaitsInv'
  <1> SUFFICES ASSUME TypeOK, WaitsInv, [Next]_vars,
                      NEW h \in Harts, pc'[h] = "wait"
               PROVE  Waits(req'[h].kind)
    BY DEF WaitsInv, Waits
  <1>1. ASSUME pc'[h] = pc[h], req'[h] = req[h] PROVE Waits(req'[h].kind)
    BY <1>1 DEF WaitsInv
  <1>2. ASSUME NEW g \in Harts, g # h, Request(g) \/ TaskStep(g) \/ Store(g)
        PROVE  Waits(req'[h].kind)
    BY <1>1, <1>2, OthersUnmoved
  <1>3. ~Request(h) BY DEF Request, AskReschedule, AskCall, TypeOK
  <1>4. CASE Enqueue(h) \/ SendIpi(h)
    BY <1>4 DEF Enqueue, SendIpi, TypeOK
  <1>5. CASE Fence1(h) \/ SetBit(h) \/ Fence2(h) \/ Waited(h) \/ Exit(h)
    BY <1>5 DEF Fence1, SetBit, Fence2, Waited, Exit, TypeOK
  <1>6. CASE Store(h)
    <2>1. UNCHANGED <<pc, req>> BY <1>6 DEF Store
    <2> QED BY <1>1, <2>1
  <1>7. ASSUME NEW g \in Harts, TakeIpi(g) \/ TakeConsole(g) \/ IsrStep(g)
        PROVE  Waits(req'[h].kind)
    BY <1>1, <1>7, HandlerKeepsTasks
  <1>8. CASE UNCHANGED vars BY <1>1, <1>8 DEF vars
  <1>9. CASE Request(h) \/ TaskStep(h) \/ Store(h)
    BY <1>3, <1>4, <1>5, <1>6, <1>9 DEF TaskStep
  <1> QED BY <1>2, <1>7, <1>8, <1>9 DEF Next

\* A caller leaves a call it waits for only when the csd is unlocked.
LEMMA AwaitsKept ==
  ASSUME IInv, [Next]_vars, NEW h \in Harts, NEW i \in Harts, NEW c \in Calls,
         c.csd \in locked, Awaits(h, i, c)
  PROVE  /\ req'[h] = req[h] /\ pc'[h] \notin {"user", "exit"}
         /\ pc'[h] = "enqueue" => i \notin left'[h]
  <1> USE DEF IInv
  <1> DEFINE Goal == /\ req'[h] = req[h] /\ pc'[h] \notin {"user", "exit"}
                     /\ pc'[h] = "enqueue" => i \notin left'[h]
  <1>1. ASSUME pc'[h] = pc[h], req'[h] = req[h], left'[h] = left[h] PROVE Goal
    BY <1>1 DEF Awaits
  <1>2. ASSUME NEW g \in Harts, g # h, Request(g) \/ TaskStep(g) \/ Store(g)
        PROVE  Goal
    BY <1>1, <1>2, OthersUnmoved
  <1>3. ~Request(h) BY DEF Request, AskReschedule, AskCall, Ask, Awaits
  <1>4. CASE Enqueue(h)
    <2>1. PICK j \in left[h] :
            /\ left' = [left EXCEPT ![h] = @ \ {j}]
            /\ pc' = [pc EXCEPT ![h] =
                  IF left[h] # {j} THEN "enqueue"
                  ELSE IF Interrupts(h, j) THEN "fence1"
                  ELSE IF Waits(req[h].kind) THEN "wait" ELSE "exit"]
      BY <1>4 DEF Enqueue
    <2>2. req' = req /\ pc[h] = "enqueue" BY <1>4 DEF Enqueue
    <2>3. /\ left'[h] = left[h] \ {j}
          /\ pc'[h] \in {"enqueue", "fence1", "wait"}
      BY <2>1 DEF Awaits, TypeOK
    <2> QED BY <2>2, <2>3 DEF Awaits
  <1>5. CASE Fence1(h) \/ SetBit(h) \/ Fence2(h) \/ SendIpi(h)
    <2>1. req' = req BY <1>5 DEF Fence1, SetBit, Fence2, SendIpi
    <2>2. pc'[h] \in {"set", "fence2", "send", "wait"}
      BY <1>5 DEF Fence1, SetBit, Fence2, SendIpi, TypeOK, Awaits
    <2> QED BY <2>1, <2>2 DEF Awaits
  <1>6. ~Waited(h) BY DEF Waited, Awaits
  <1>7. ~Exit(h) BY DEF Exit, Awaits
  <1>8. CASE Store(h)
    <2>1. UNCHANGED <<pc, req, left>> BY <1>8 DEF Store
    <2> QED BY <1>1, <2>1
  <1>9. ASSUME NEW g \in Harts, TakeIpi(g) \/ TakeConsole(g) \/ IsrStep(g)
        PROVE  Goal
    BY <1>1, <1>9, HandlerKeepsTasks
  <1>10. CASE UNCHANGED vars BY <1>1, <1>10 DEF vars
  <1>11. CASE Request(h) \/ TaskStep(h) \/ Store(h)
    BY <1>3, <1>4, <1>5, <1>6, <1>7, <1>8, <1>11 DEF TaskStep
  <1> QED BY <1>2, <1>9, <1>10, <1>11 DEF Next

LEMMA InitAwait == Init => WaitsInv /\ AwaitInv
  <1> SUFFICES ASSUME Init PROVE WaitsInv /\ AwaitInv OBVIOUS
  <1>1. \A i \in Harts : Listed(i) = <<>> BY DEF Init, Listed
  <1> QED BY <1>1 DEF Init, WaitsInv, AwaitInv

LEMMA AwaitStep == IInv /\ AwaitInv /\ [Next]_vars => AwaitInv'
  <1> SUFFICES ASSUME IInv, AwaitInv, [Next]_vars,
                      NEW i \in Harts, NEW n \in DOMAIN Listed(i)',
                      Listed(i)'[n].wait
               PROVE  Awaits(Listed(i)[n].csd[1], i, Listed(i)[n])'
    BY DEF AwaitInv
  <1>0. TypeOK /\ BatchInv /\ FlushInv /\ CsdNotReused BY DEF IInv
  <1>1. ASSUME NEW m \in DOMAIN Listed(i), Listed(i)'[n] = Listed(i)[m]
        PROVE  Awaits(Listed(i)[n].csd[1], i, Listed(i)[n])'
    <2>1. PICK c \in Calls : c = Listed(i)[m] BY <1>0, ListedType, <1>1
    <2>2. PICK h \in Harts : h = c.csd[1] BY DEF Calls, Csds
    <2>3. c.csd \in locked BY <1>0, <2>1 DEF CsdNotReused
    <2>4. Awaits(h, i, c) BY <1>1, <2>1, <2>2 DEF AwaitInv
    <2>5. /\ req'[h] = req[h] /\ pc'[h] \notin {"user", "exit"}
          /\ pc'[h] = "enqueue" => i \notin left'[h]
      BY <2>3, <2>4, AwaitsKept
    <2> QED BY <1>1, <2>1, <2>2, <2>4, <2>5 DEF Awaits, Csd
  <1>2. CASE ListsSame BY <1>1, <1>2 DEF ListsSame
  <1>3. ASSUME NEW h \in Harts, Enqueue(h)
        PROVE  Awaits(Listed(i)[n].csd[1], i, Listed(i)[n])'
    <2>1. PICK j \in left[h] :
            /\ CsdFree(h, req[h], j) /\ locked' = locked \cup {Csd(h, req[h], j)}
            /\ queue' = [queue EXCEPT ![j] = Append(@, Call(h, j))]
            /\ left' = [left EXCEPT ![h] = @ \ {j}]
            /\ pc' = [pc EXCEPT ![h] =
                  IF left[h] # {j} THEN "enqueue"
                  ELSE IF Interrupts(h, j) THEN "fence1"
                  ELSE IF Waits(req[h].kind) THEN "wait" ELSE "exit"]
      BY <1>3 DEF Enqueue
    <2>2. req' = req /\ pc[h] = "enqueue" /\ UNCHANGED <<isr, batch>>
      BY <1>3 DEF Enqueue
    <2>3. j \in Harts /\ j \in req[h].to BY <2>2 DEF IInv, TypeOK, RequestInv
    <2>4. ListAppended(h, j) BY <1>0, <2>1, <2>2, EnqueueAppends
    <2>5. \/ n \in DOMAIN Listed(i) /\ Listed(i)'[n] = Listed(i)[n]
          \/ i = j /\ Listed(i)'[n] = Call(h, j)
      BY <1>0, <2>3, <2>4, AppendedCalls
    <2>6. CASE i = j /\ Listed(i)'[n] = Call(h, j)
      <3>1. /\ Waits(req[h].kind)
            /\ Call(h, j).csd = Csd(h, req[h], j) /\ Csd(h, req[h], j)[1] = h
        BY <2>6 DEF Call, Csd
      <3>2. j \notin left'[h] /\ pc'[h] \in {"enqueue", "fence1", "wait"}
        BY <1>0, <2>1, <3>1 DEF TypeOK
      <3> QED BY <2>2, <2>3, <2>6, <3>1, <3>2 DEF Awaits, Csd
    <2> QED BY <1>1, <2>5, <2>6
  <1>4. ASSUME NEW g \in Harts, ListShortened(g)
        PROVE  Awaits(Listed(i)[n].csd[1], i, Listed(i)[n])'
    <2>1. PICK m \in DOMAIN Listed(i) : Listed(i)'[n] = Listed(i)[m]
      BY <1>0, <1>4, ShortenedCalls
    <2> QED BY <1>1, <2>1
  <1> QED BY <1>0, <1>2, <1>3, <1>4, ListsStep

\* What the two ends of a promised sequence are.
PromisedCalls == [from : Harts, wait : BOOLEAN, func : {"fn", "ipi_stop"}]

LEMMA PromisesType ==
  ASSUME NEW s \in Seq(Calls)
  PROVE  /\ Promises(s) \in Seq(PromisedCalls) /\ Len(Promises(s)) = Len(s)
         /\ \A n \in 1..Len(s) : Promises(s)[n] = Promised(s[n])
  <1>1. \A c \in Calls : Promised(c) \in PromisedCalls
    BY DEF Calls, Csds, Promised, PromisedCalls
  <1> QED BY <1>1 DEF Promises

LEMMA PromisesAppend ==
  ASSUME NEW s \in Seq(Calls), NEW c \in Calls
  PROVE  Promises(Append(s, c)) = Append(Promises(s), Promised(c))
  <1>1. /\ Append(s, c) \in Seq(Calls) /\ Len(Append(s, c)) = Len(s) + 1
        /\ Len(s) \in Nat
    OBVIOUS
  <1>2. Promised(c) \in PromisedCalls
    BY DEF Calls, Csds, Promised, PromisedCalls
  <1> DEFINE a == Promises(Append(s, c))
             b == Append(Promises(s), Promised(c))
  <1>3. a \in Seq(PromisedCalls) /\ Len(a) = Len(s) + 1
    BY <1>1, PromisesType
  <1>4. b \in Seq(PromisedCalls) /\ Len(b) = Len(s) + 1
    BY <1>2, PromisesType
  <1>5. ASSUME NEW n \in 1..Len(a) PROVE a[n] = b[n]
    <2>1. a[n] = Promised(Append(s, c)[n]) BY <1>1, <1>3, PromisesType
    <2>2. CASE n = Len(s) + 1
      BY <1>2, <2>1, <2>2, PromisesType, AppendProperties
    <2>3. CASE n \in 1..Len(s)
      BY <1>2, <2>1, <2>3, PromisesType, AppendProperties
    <2>4. n = Len(s) + 1 \/ n \in 1..Len(s) BY ONLY <1>1, <1>3, <1>5
    <2> QED BY <2>2, <2>3, <2>4
  <1> HIDE DEF a, b
  <1>6. a = b BY <1>3, <1>4, <1>5, SeqEqual
  <1> QED BY <1>6 DEF a, b

LEMMA PromisesTail ==
  ASSUME NEW s \in Seq(Calls), s # <<>>
  PROVE  /\ Promises(s) # <<>> /\ Head(Promises(s)) = Promised(Head(s))
         /\ Promises(Tail(s)) = Tail(Promises(s))
  <1>1. /\ Tail(s) \in Seq(Calls) /\ Len(Tail(s)) = Len(s) - 1 /\ Len(s) > 0
        /\ \A n \in 1..Len(Tail(s)) : Tail(s)[n] = s[n + 1]
    BY HeadTailProperties
  <1>2. /\ Promises(s) \in Seq(PromisedCalls) /\ Len(Promises(s)) = Len(s)
        /\ \A n \in 1..Len(s) : Promises(s)[n] = Promised(s[n])
    BY PromisesType
  <1>3. Promises(s) # <<>> /\ Head(Promises(s)) = Promised(Head(s))
    BY <1>1, <1>2
  <1>4. /\ Tail(Promises(s)) \in Seq(PromisedCalls)
        /\ Len(Tail(Promises(s))) = Len(s) - 1
        /\ \A n \in 1..Len(Tail(Promises(s))) :
              Tail(Promises(s))[n] = Promises(s)[n + 1]
    BY <1>2, <1>3, HeadTailProperties
  <1>5. /\ Promises(Tail(s)) \in Seq(PromisedCalls)
        /\ Len(Promises(Tail(s))) = Len(s) - 1
        /\ \A n \in 1..Len(Tail(s)) : Promises(Tail(s))[n] = Promised(Tail(s)[n])
    BY <1>1, PromisesType
  <1>6. \A n \in 1..Len(Promises(Tail(s))) :
           Promises(Tail(s))[n] = Tail(Promises(s))[n]
    BY <1>1, <1>2, <1>4, <1>5
  <1>7. Promises(Tail(s)) = Tail(Promises(s)) BY <1>4, <1>5, <1>6, SeqEqual
  <1> QED BY <1>3, <1>7

LEMMA NotBegunType ==
  ASSUME TypeOK, BatchInv, NEW i \in Harts
  PROVE  NotBegun(i) \in Seq(Calls)
  <1>1. batch[i] \in Seq(Calls) /\ queue[i] \in Seq(Calls) BY DEF TypeOK
  <1>2. isr[i] = "function" => Tail(batch[i]) \in Seq(Calls)
    BY <1>1 DEF BatchInv
  <1> QED BY <1>1, <1>2 DEF NotBegun

\* Steps of the interrupts that no caller and no called hart can tell.
Unseen == \A i \in Harts : /\ Calling(i)' = Calling(i)
                           /\ NotBegun(i)' = NotBegun(i)
                           /\ Running(i)' = Running(i)

LEMMA UnseenStutters == Unseen => UNCHANGED CrossCalls!vars
  BY DEF Unseen, CrossCalls!vars

\* What the task of another hart and what a handler leaves alone.
LEMMA TasksUnseen ==
  ASSUME UNCHANGED <<queue, isr, batch>>, NEW i \in Harts
  PROVE  NotBegun(i)' = NotBegun(i) /\ Running(i)' = Running(i)
  BY DEF NotBegun, Running

LEMMA CallerUnseen ==
  ASSUME NEW h \in Harts, pc'[h] = pc[h], req'[h] = req[h], left'[h] = left[h]
  PROVE  Calling(h)' = Calling(h)
  BY DEF Calling, InForce

LEMMA StartStep ==
  ASSUME TypeOK, NEW h \in Harts, NEW k \in Kinds, NEW to \in SUBSET Harts,
         AskCall(h, k, to)
  PROVE  CrossCalls!Start(h, to, Waits(k), Function(k))
  <1>1. /\ pc[h] = "user" /\ pc'[h] = "enqueue" /\ left'[h] = to
        /\ req'[h] = [kind |-> k, to |-> to] /\ to # {} /\ h \notin to
        /\ UNCHANGED <<queue, isr, batch>>
    BY DEF AskCall, Ask, TypeOK
  <1>2. Calling(h) = CrossCalls!NoCall
    BY <1>1 DEF Calling, InForce, CrossCalls!NoCall
  <1>3. Calling(h)' = [to |-> to, wait |-> Waits(k), func |-> Function(k)]
    BY <1>1 DEF Calling, InForce
  <1>4. \A g \in Harts \ {h} : Calling(g)' = Calling(g)
    BY CallerUnseen, OthersUnmoved DEF Request
  <1>5. \A i \in Harts : NotBegun(i)' = NotBegun(i) /\ Running(i)' = Running(i)
    BY <1>1, TasksUnseen
  <1> QED BY <1>1, <1>2, <1>3, <1>4, <1>5 DEF CrossCalls!Start

LEMMA AskOneStep ==
  ASSUME IInv, NEW h \in Harts, Enqueue(h)
  PROVE  \E i \in Harts : CrossCalls!AskOne(h, i)
  <1> USE DEF IInv
  <1>1. PICK i \in left[h] :
          /\ queue' = [queue EXCEPT ![i] = Append(@, Call(h, i))]
          /\ left' = [left EXCEPT ![h] = @ \ {i}]
          /\ pc' = [pc EXCEPT ![h] =
                IF left[h] # {i} THEN "enqueue"
                ELSE IF Interrupts(h, i) THEN "fence1"
                ELSE IF Waits(req[h].kind) THEN "wait" ELSE "exit"]
    BY DEF Enqueue
  <1>2. req' = req /\ pc[h] = "enqueue" /\ UNCHANGED <<isr, batch>>
    BY DEF Enqueue
  <1>3. i \in Harts /\ Call(h, i) \in Calls BY CallType DEF TypeOK
  <1> DEFINE w == Waits(req[h].kind)
             f == Function(req[h].kind)
  <1>4. Calling(h) = [to |-> left[h], wait |-> w, func |-> f]
    BY <1>2 DEF Calling, InForce
  <1>5. Calling(h)' = IF left[h] = {i} /\ ~w THEN CrossCalls!NoCall
                      ELSE [to |-> left[h] \ {i}, wait |-> w, func |-> f]
    <2>1. left'[h] = left[h] \ {i} BY <1>1 DEF TypeOK
    <2>2. CASE left[h] # {i}
      <3>1. pc'[h] = "enqueue" BY <1>1, <2>2 DEF TypeOK
      <3> QED BY <1>2, <2>1, <2>2, <3>1 DEF Calling, InForce
    <2>3. CASE left[h] = {i}
      <3>1. /\ pc'[h] \in {"fence1", "wait", "exit"}
            /\ w => pc'[h] # "exit"
        BY <1>1, <2>3 DEF TypeOK
      <3> QED BY <1>2, <2>1, <2>3, <3>1 DEF Calling, InForce, CrossCalls!NoCall
    <2> QED BY <2>2, <2>3
  <1>6. \A g \in Harts \ {h} : Calling(g)' = Calling(g)
    BY CallerUnseen, OthersUnmoved DEF TaskStep
  <1>7. Promised(Call(h, i)) = [from |-> h, wait |-> w, func |-> f]
    BY DEF Promised, Call, Csd
  <1>8. NotBegun(i)' = Append(NotBegun(i), Call(h, i))
    <2>1. batch[i] \in Seq(Calls) /\ queue[i] \in Seq(Calls) BY <1>3 DEF TypeOK
    <2>2. isr[i] = "function" => Tail(batch[i]) \in Seq(Calls)
      <3>1. isr[i] = "function" => batch[i] # <<>> BY <1>3 DEF BatchInv
      <3> QED BY <2>1, <3>1, HeadTailProperties
    <2>3. queue'[i] = Append(queue[i], Call(h, i)) BY <1>1, <1>3 DEF TypeOK
    <2> DEFINE s == IF isr[i] = "function" THEN Tail(batch[i]) ELSE batch[i]
    <2>4. s \in Seq(Calls) BY <2>1, <2>2
    <2>5. NotBegun(i) = s \o queue[i] BY DEF NotBegun
    <2>6. NotBegun(i)' = s \o Append(queue[i], Call(h, i))
      BY <1>2, <2>3 DEF NotBegun
    <2> HIDE DEF s
    <2> QED BY <1>3, <2>1, <2>4, <2>5, <2>6, ConcatAppend
  <1>9. Promises(NotBegun(i))' = Append(Promises(NotBegun(i)), Promised(Call(h, i)))
    <2>1. Promises(NotBegun(i))' = Promises(NotBegun(i)')
      BY DEF Promises, Promised
    <2> QED BY <1>3, <1>8, <2>1, NotBegunType, PromisesAppend
  <1>10. \A j \in Harts \ {i} : NotBegun(j)' = NotBegun(j)
    BY <1>1, <1>2 DEF NotBegun, TypeOK
  <1>11. \A j \in Harts : Running(j)' = Running(j) BY <1>2 DEF Running
  <1>12. \A j \in Harts \ {i} : Promises(NotBegun(j))' = Promises(NotBegun(j))
    BY <1>10 DEF Promises, Promised
  <1> HIDE DEF w, f
  <1> DEFINE c == [g \in Harts |-> Calling(g)]
             s == [j \in Harts |-> Promises(NotBegun(j))]
             a == [from |-> h, wait |-> w, func |-> f]
  <1>13. s' = [s EXCEPT ![i] = Append(s[i], a)]
    BY <1>3, <1>7, <1>9, <1>12
  <1>14. c' = [c EXCEPT ![h] = IF left[h] = {i} /\ ~w THEN CrossCalls!NoCall
                               ELSE [to |-> left[h] \ {i}, wait |-> w, func |-> f]]
    BY <1>5, <1>6
  <1>15. c[h] = [to |-> left[h], wait |-> w, func |-> f] BY <1>4
  <1>16. c[h].to = left[h] /\ c[h].wait = w /\ c[h].func = f BY <1>15
  <1>17. [c[h] EXCEPT !.to = c[h].to \ {i}]
           = [to |-> left[h] \ {i}, wait |-> w, func |-> f]
    BY <1>15
  <1>18. UNCHANGED [j \in Harts |-> Running(j)] BY <1>11
  <1> HIDE DEF c, s
  <1>19. s' = [s EXCEPT ![i] =
            Append(@, [from |-> h, wait |-> c[h].wait, func |-> c[h].func])]
    BY <1>13, <1>16
  <1>20. c' = [c EXCEPT ![h] =
            IF c[h].to = {i} /\ ~c[h].wait THEN CrossCalls!NoCall
            ELSE [c[h] EXCEPT !.to = c[h].to \ {i}]]
    BY <1>14, <1>16, <1>17
  <1>21. i \in c[h].to BY <1>16
  <1>22. CrossCalls!AskOne(h, i)
    BY <1>18, <1>19, <1>20, <1>21 DEF CrossCalls!AskOne, c, s
  <1> QED BY <1>3, <1>22
\* What a hart is in or has yet to begin is listed, if anybody waits for it.
LEMMA PromisesListed ==
  ASSUME TypeOK, BatchInv, NEW i \in Harts
  PROVE  /\ \A n \in DOMAIN Promises(NotBegun(i)) : \E m \in DOMAIN Listed(i) :
              Promises(NotBegun(i))[n] = Promised(Listed(i)[m])
         /\ \A n \in DOMAIN Running(i) : Running(i)[n].wait =>
              \E m \in DOMAIN Listed(i) : Running(i)[n] = Promised(Listed(i)[m])
  <1>1. /\ NotBegun(i) \in Seq(Calls) /\ Listed(i) \in Seq(Calls)
        /\ batch[i] \in Seq(Calls) /\ queue[i] \in Seq(Calls)
    BY NotBegunType, ListedType DEF TypeOK
  <1>2. \A n \in DOMAIN Promises(NotBegun(i)) :
           /\ n \in DOMAIN NotBegun(i)
           /\ Promises(NotBegun(i))[n] = Promised(NotBegun(i)[n])
    BY DEF Promises
  <1>3. CASE isr[i] = "function" /\ Head(batch[i]).wait
    <2>1. batch[i] # <<>> BY <1>3 DEF BatchInv
    <2>2. Listed(i) = batch[i] \o queue[i] BY <1>3 DEF Listed
    <2>3. NotBegun(i) = Tail(batch[i]) \o queue[i] BY <1>3 DEF NotBegun
    <2>4. /\ Listed(i) # <<>> /\ Head(Listed(i)) = Head(batch[i])
          /\ NotBegun(i) = Tail(Listed(i))
      <3>1. /\ batch[i] \o queue[i] # <<>>
            /\ Head(batch[i] \o queue[i]) = Head(batch[i])
            /\ Tail(batch[i]) \o queue[i] = Tail(batch[i] \o queue[i])
        BY <1>1, <2>1, ConcatHeadTail
      <3> QED BY <2>2, <2>3, <3>1
    <2>5. \A n \in DOMAIN NotBegun(i) :
             n + 1 \in DOMAIN Listed(i) /\ NotBegun(i)[n] = Listed(i)[n + 1]
      BY <1>1, <2>4, HeadTailProperties
    <2>6. 1 \in DOMAIN Listed(i) /\ Head(batch[i]) = Listed(i)[1] BY <1>1, <2>4
    <2>7. \A n \in DOMAIN Running(i) : Running(i)[n] = Promised(Listed(i)[1])
      BY <1>3, <2>6 DEF Running
    <2> QED BY <1>2, <2>5, <2>6, <2>7
  <1>4. CASE ~(isr[i] = "function" /\ Head(batch[i]).wait)
    <2>1. NotBegun(i) = Listed(i) BY <1>4 DEF NotBegun, Listed
    <2>2. \A n \in DOMAIN Running(i) : ~Running(i)[n].wait
      <3>1. isr[i] = "function" => ~Promised(Head(batch[i])).wait
        BY <1>4 DEF Promised
      <3> QED BY <3>1 DEF Running
    <2> QED BY <1>2, <2>1, <2>2
  <1> QED BY <1>3, <1>4

LEMMA ReturnStep ==
  ASSUME IInv, WaitsInv, AwaitInv, NEW h \in Harts, Waited(h)
  PROVE  CrossCalls!Return(h)
  <1> USE DEF IInv
  <1>1. /\ pc[h] = "wait" /\ pc'[h] = "exit"
        /\ \A i \in req[h].to : Csd(h, req[h], i) \notin locked
        /\ UNCHANGED <<queue, isr, batch, req, left>>
    BY DEF Waited, TypeOK
  <1>2. Waits(req[h].kind) BY <1>1 DEF WaitsInv
  <1>3. Calling(h) = [to |-> {}, wait |-> TRUE, func |-> Function(req[h].kind)]
    BY <1>1, <1>2 DEF Calling, InForce, Waits
  <1>4. Calling(h)' = CrossCalls!NoCall
    BY <1>1 DEF Calling, InForce, CrossCalls!NoCall
  <1>5. \A g \in Harts \ {h} : Calling(g)' = Calling(g)
    BY CallerUnseen, OthersUnmoved DEF TaskStep
  <1>6. \A i \in Harts : NotBegun(i)' = NotBegun(i) /\ Running(i)' = Running(i)
    BY <1>1, TasksUnseen
  <1>7. ASSUME NEW i \in Harts, NEW n \in DOMAIN Listed(i), Listed(i)[n].wait
        PROVE  Promised(Listed(i)[n]).from # h
    <2>1. Listed(i)[n].csd \in locked BY DEF CsdNotReused
    <2>2. Awaits(Listed(i)[n].csd[1], i, Listed(i)[n]) BY <1>7 DEF AwaitInv
    <2> QED BY <1>1, <2>1, <2>2 DEF Awaits, Promised
  <1>8. ASSUME NEW i \in Harts
        PROVE  /\ \A n \in DOMAIN Promises(NotBegun(i)) :
                     ~CrossCalls!Awaited(h, Promises(NotBegun(i))[n])
               /\ \A n \in DOMAIN Running(i) :
                     ~CrossCalls!Awaited(h, Running(i)[n])
    <2>1. \A m \in DOMAIN Listed(i) : ~CrossCalls!Awaited(h, Promised(Listed(i)[m]))
      BY <1>7 DEF CrossCalls!Awaited, Promised
    <2>2. \A n \in DOMAIN Running(i) :
             CrossCalls!Awaited(h, Running(i)[n]) => Running(i)[n].wait
      BY DEF CrossCalls!Awaited
    <2> QED BY <2>1, <2>2, PromisesListed
  <1>9. [g \in Harts |-> Calling(g)]'
          = [[g \in Harts |-> Calling(g)] EXCEPT ![h] = CrossCalls!NoCall]
    BY <1>4, <1>5
  <1>10. UNCHANGED <<[i \in Harts |-> Promises(NotBegun(i))],
                     [i \in Harts |-> Running(i)]>>
    BY <1>6 DEF Promises, Promised
  <1>11. /\ [g \in Harts |-> Calling(g)][h].wait
         /\ [g \in Harts |-> Calling(g)][h].to = {}
    BY <1>3
  <1> QED BY <1>8, <1>9, <1>10, <1>11 DEF CrossCalls!Return

LEMMA BeginStep ==
  ASSUME TypeOK, BatchInv, NEW h \in Harts, IsrCall(h)
  PROVE  CrossCalls!Begin(h)
  <1>1. /\ isr[h] = "run" /\ isr'[h] = "function" /\ batch[h] # <<>>
        /\ UNCHANGED <<batch, queue, pc, req, left>>
        /\ \A i \in Harts \ {h} : isr'[i] = isr[i]
    BY DEF IsrCall, TypeOK
  <1>2. \A g \in Harts : Calling(g)' = Calling(g) BY <1>1, CallerUnseen
  <1>3. batch[h] \in Seq(Calls) /\ queue[h] \in Seq(Calls) BY DEF TypeOK
  <1>4. /\ batch[h] \o queue[h] # <<>>
        /\ Head(batch[h] \o queue[h]) = Head(batch[h])
        /\ Tail(batch[h]) \o queue[h] = Tail(batch[h] \o queue[h])
    BY <1>1, <1>3, ConcatHeadTail
  <1>5. NotBegun(h) = batch[h] \o queue[h] /\ NotBegun(h)' = Tail(NotBegun(h))
    BY <1>1, <1>4 DEF NotBegun
  <1>6. Running(h) = <<>> /\ Running(h)' = <<Promised(Head(NotBegun(h)))>>
    BY <1>1, <1>4, <1>5 DEF Running, Promised
  <1>7. /\ Promises(NotBegun(h)) # <<>>
        /\ Head(Promises(NotBegun(h))) = Promised(Head(NotBegun(h)))
        /\ Promises(NotBegun(h))' = Tail(Promises(NotBegun(h)))
    <2>1. Promises(NotBegun(h))' = Promises(NotBegun(h)') BY DEF Promises, Promised
    <2>2. NotBegun(h) \in Seq(Calls) /\ NotBegun(h) # <<>>
      BY <1>4, <1>5, NotBegunType
    <2>3. /\ Promises(NotBegun(h)) # <<>>
          /\ Head(Promises(NotBegun(h))) = Promised(Head(NotBegun(h)))
          /\ Promises(Tail(NotBegun(h))) = Tail(Promises(NotBegun(h)))
      BY <2>2, PromisesTail
    <2> QED BY <1>5, <2>1, <2>3
  <1>8. ASSUME NEW i \in Harts, i # h
        PROVE  /\ Promises(NotBegun(i))' = Promises(NotBegun(i))
               /\ Running(i)' = Running(i)
    BY <1>1, <1>8 DEF NotBegun, Running, Promises, Promised
  <1> DEFINE s == [i \in Harts |-> Promises(NotBegun(i))]
             r == [i \in Harts |-> Running(i)]
  <1>9. /\ r[h] = <<>> /\ s[h] # <<>>
        /\ r' = [r EXCEPT ![h] = <<Head(s[h])>>] /\ s' = [s EXCEPT ![h] = Tail(@)]
    BY <1>6, <1>7, <1>8
  <1>10. UNCHANGED [g \in Harts |-> Calling(g)] BY <1>2
  <1> QED BY <1>9, <1>10 DEF CrossCalls!Begin

LEMMA EndStep ==
  ASSUME TypeOK, BatchInv, NEW h \in Harts, IsrCalled(h)
  PROVE  CrossCalls!End(h)
  <1>1. /\ isr[h] = "function" /\ isr'[h] = "run" /\ batch'[h] = Tail(batch[h])
        /\ Head(batch[h]).func # "ipi_stop" /\ UNCHANGED <<queue, pc, req, left>>
        /\ \A i \in Harts \ {h} : isr'[i] = isr[i] /\ batch'[i] = batch[i]
    BY DEF IsrCalled, TypeOK
  <1>2. \A g \in Harts : Calling(g)' = Calling(g) BY <1>1, CallerUnseen
  <1>3. \A i \in Harts : NotBegun(i)' = NotBegun(i) BY <1>1 DEF NotBegun
  <1>4. \A i \in Harts : Promises(NotBegun(i))' = Promises(NotBegun(i))
    BY <1>3 DEF Promises, Promised
  <1>5. /\ Running(h) = <<Promised(Head(batch[h]))>> /\ Running(h)' = <<>>
        /\ Promised(Head(batch[h])).func # "ipi_stop"
    BY <1>1 DEF Running, Promised
  <1>6. \A i \in Harts \ {h} : Running(i)' = Running(i)
    BY <1>1 DEF Running, Promised
  <1> DEFINE r == [i \in Harts |-> Running(i)]
  <1>7. r[h] # <<>> /\ Head(r[h]).func # "ipi_stop" BY <1>5
  <1>9. r' = [r EXCEPT ![h] = <<>>] BY <1>5, <1>6
  <1>8. UNCHANGED <<[g \in Harts |-> Calling(g)],
                    [i \in Harts |-> Promises(NotBegun(i))]>>
    BY <1>2, <1>4
  <1> QED BY <1>7, <1>8, <1>9 DEF CrossCalls!End

\* Everything else a task or a handler does is unseen.
LEMMA OtherSteps ==
  ASSUME IInv, NEW h \in Harts,
         \/ \E i \in Harts : AskReschedule(h, i)
         \/ Fence1(h) \/ SetBit(h) \/ Fence2(h) \/ SendIpi(h) \/ Exit(h) \/ Store(h)
         \/ TakeIpi(h) \/ TakeConsole(h) \/ IsrClear(h) \/ IsrXchg(h)
         \/ IsrFlush(h) \/ IsrFlushed(h) \/ IsrUnmask(h) \/ IsrReturn(h)
  PROVE  Unseen
  <1> USE DEF IInv
  <1>1. ASSUME \/ \E i \in Harts : AskReschedule(h, i)
               \/ Fence1(h) \/ SetBit(h) \/ Fence2(h) \/ SendIpi(h) \/ Exit(h)
               \/ Store(h)
        PROVE  Unseen
    <2>1. UNCHANGED <<queue, isr, batch>>
      BY <1>1 DEF AskReschedule, Fence1, SetBit, Fence2, SendIpi, Exit, Store
    <2>2. \A g \in Harts \ {h} : Calling(g)' = Calling(g)
      BY <1>1, CallerUnseen, OthersUnmoved DEF TaskStep, Request
    <2>3. Calling(h)' = Calling(h)
      <3>1. CASE \E i \in Harts : AskReschedule(h, i)
        <4>1. /\ pc[h] = "user" /\ pc'[h] = "fence1"
              /\ req'[h].kind = "reschedule"
          BY <3>1 DEF AskReschedule, Ask, TypeOK
        <4> QED BY <4>1 DEF Calling, InForce, Waits
      <3>2. CASE Fence1(h) \/ SetBit(h) \/ Fence2(h) \/ SendIpi(h)
        <4>1. /\ pc[h] \in {"fence1", "set", "fence2", "send"} /\ req' = req
              /\ pc'[h] \in {"set", "fence2", "send", "wait", "exit"}
              /\ pc'[h] = "exit" => ~Waits(req[h].kind)
          BY <3>2 DEF Fence1, SetBit, Fence2, SendIpi, TypeOK
        <4> QED BY <4>1 DEF Calling, InForce
      <3>3. CASE Exit(h)
        <4>1. pc[h] = "exit" /\ pc'[h] = "user" BY <3>3 DEF Exit, TypeOK
        <4> QED BY <4>1 DEF Calling, InForce
      <3>4. CASE Store(h) BY <3>4, CallerUnseen DEF Store
      <3> QED BY <1>1, <3>1, <3>2, <3>3, <3>4
    <2> QED BY <2>1, <2>2, <2>3, TasksUnseen DEF Unseen
  <1>2. ASSUME \/ TakeIpi(h) \/ TakeConsole(h) \/ IsrClear(h) \/ IsrXchg(h)
               \/ IsrFlush(h) \/ IsrFlushed(h) \/ IsrUnmask(h) \/ IsrReturn(h)
        PROVE  Unseen
    <2>1. \A g \in Harts : Calling(g)' = Calling(g)
      BY <1>2, CallerUnseen, HandlerKeepsTasks DEF IsrStep
    <2>2. \A i \in Harts : isr[i] # "function" => isr'[i] # "function"
      BY <1>2 DEF TakeIpi, TakeConsole, Arrive, IsrClear, IsrXchg, IsrFlush, IsrFlushed,
                  IsrUnmask, IsrReturn, TypeOK
    <2>3. \A i \in Harts : isr[i] = "function" => isr'[i] = "function"
      BY <1>2 DEF TakeIpi, TakeConsole, Arrive, IsrClear, IsrXchg, IsrFlush, IsrFlushed,
                  IsrUnmask, IsrReturn, TypeOK
    <2>4. ASSUME NEW i \in Harts
          PROVE  \/ batch'[i] = batch[i] /\ queue'[i] = queue[i]
                 \/ i = h /\ IsrFlush(h)
      <3>1. CASE IsrFlush(h) BY <3>1 DEF IsrFlush, TypeOK
      <3>2. CASE ~IsrFlush(h)
        BY <1>2, <3>2
        DEF TakeIpi, TakeConsole, Arrive, IsrClear, IsrXchg, IsrFlushed, IsrUnmask, IsrReturn
      <3> QED BY <3>1, <3>2
    <2>5. ASSUME NEW i \in Harts
          PROVE  NotBegun(i)' = NotBegun(i) /\ Running(i)' = Running(i)
      <3>1. CASE batch'[i] = batch[i] /\ queue'[i] = queue[i]
        BY <2>2, <2>3, <3>1 DEF NotBegun, Running, Promised
      <3>2. CASE i = h /\ IsrFlush(h)
        <4>1. /\ batch'[h] = queue[h] /\ queue'[h] = <<>> /\ batch[h] = <<>>
              /\ isr'[h] = "run" /\ isr[h] = "flush" /\ queue[h] \in Seq(Calls)
          BY <3>2 DEF IsrFlush, FlushInv, TypeOK
        <4>2. NotBegun(h) = <<>> \o queue[h] /\ NotBegun(h)' = queue[h] \o <<>>
          BY <4>1 DEF NotBegun
        <4>3. NotBegun(h)' = NotBegun(h) BY <4>1, <4>2, ConcatEmptySeq
        <4> QED BY <3>2, <4>1, <4>3 DEF Running
      <3> QED BY <2>4, <3>1, <3>2
    <2> QED BY <2>1, <2>5 DEF Unseen
  <1> QED BY <1>1, <1>2

LEMMA RefineStep ==
  IInv /\ WaitsInv /\ AwaitInv /\ [Next]_vars
    => [CrossCalls!Next]_(CrossCalls!vars)
  <1> SUFFICES ASSUME IInv, WaitsInv, AwaitInv, [Next]_vars
               PROVE  [CrossCalls!Next]_(CrossCalls!vars)
    OBVIOUS
  <1>0. TypeOK /\ BatchInv BY DEF IInv
  <1>1. ASSUME NEW h \in Harts, NEW k \in Kinds, NEW to \in SUBSET Harts,
               AskCall(h, k, to)
        PROVE  CrossCalls!Next
    <2>1. Waits(k) \in BOOLEAN /\ Function(k) \in {"fn", "ipi_stop"}
      BY DEF Waits, Function
    <2>2. CrossCalls!Start(h, to, Waits(k), Function(k)) BY <1>0, <1>1, StartStep
    <2> QED BY <2>1, <2>2 DEF CrossCalls!Next
  <1>2. ASSUME NEW h \in Harts, Enqueue(h) PROVE CrossCalls!Next
    BY <1>2, AskOneStep DEF CrossCalls!Next
  <1>3. ASSUME NEW h \in Harts, Waited(h) PROVE CrossCalls!Next
    BY <1>3, ReturnStep DEF CrossCalls!Next
  <1>4. ASSUME NEW h \in Harts, IsrCall(h) PROVE CrossCalls!Next
    BY <1>0, <1>4, BeginStep DEF CrossCalls!Next
  <1>5. ASSUME NEW h \in Harts, IsrCalled(h) PROVE CrossCalls!Next
    BY <1>0, <1>5, EndStep DEF CrossCalls!Next
  <1>6. ASSUME NEW h \in Harts,
               \/ \E i \in Harts : AskReschedule(h, i)
               \/ Fence1(h) \/ SetBit(h) \/ Fence2(h) \/ SendIpi(h) \/ Exit(h)
               \/ Store(h) \/ TakeIpi(h) \/ TakeConsole(h) \/ IsrClear(h)
               \/ IsrXchg(h) \/ IsrFlush(h) \/ IsrFlushed(h) \/ IsrUnmask(h) \/ IsrReturn(h)
        PROVE  UNCHANGED CrossCalls!vars
    BY <1>6, OtherSteps, UnseenStutters
  <1>7. CASE UNCHANGED vars
    <2>1. Unseen BY <1>7, CallerUnseen, TasksUnseen DEF vars, Unseen
    <2> QED BY <2>1, UnseenStutters
  <1> QED
    BY <1>1, <1>2, <1>3, <1>4, <1>5, <1>6, <1>7
    DEF Next, Request, TaskStep, IsrStep

\* On any number of harts the message bits, interrupts, queues and csd locks
\* are the cross calls of CrossCall: each function runs once on each target, in
\* the order asked, a waiting caller returns only then, and a hart that was
\* told to stop runs nothing more.
THEOREM Refinement == Spec => CallsAsPromised
  <1>1. Init => CrossCalls!Init
    <2> SUFFICES ASSUME Init, NEW h \in Harts
                 PROVE  /\ Calling(h) = CrossCalls!NoCall
                        /\ Promises(NotBegun(h)) = <<>> /\ Running(h) = <<>>
      BY DEF CrossCalls!Init
    <2>1. Calling(h) = CrossCalls!NoCall
      BY DEF Init, Calling, InForce, CrossCalls!NoCall
    <2>2. NotBegun(h) = <<>> /\ Running(h) = <<>> BY DEF Init, NotBegun, Running
    <2>3. <<>> \in Seq(Calls) /\ Len(<<>>) = 0 BY EmptySeq
    <2>4. Promises(<<>>) = <<>> BY <2>3, PromisesType, EmptySeq
    <2> QED BY <2>1, <2>2, <2>4
  <1>2. IInv /\ WaitsInv /\ AwaitInv /\ [Next]_vars
          => WaitsInv' /\ AwaitInv'
    BY WaitsStep, AwaitStep DEF IInv
  <1>3. IInv /\ WaitsInv /\ AwaitInv /\ [Next]_vars
          => [CrossCalls!Next]_(CrossCalls!vars)
    BY RefineStep
  <1> QED
    BY <1>1, <1>2, <1>3, Invariance, InitAwait, PTL
    DEF Spec, CallsAsPromised, CrossCalls!Spec
=============================================================================
