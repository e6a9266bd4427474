----------------------------- MODULE CrossCall -----------------------------
(***************************************************************************)
(* What cross calls between harts promise to the rest of the kernel: every *)
(* hart runs the functions asked of it one at a time, each once, in the    *)
(* order they were asked in; a caller that waits returns when its function *)
(* has ended on every target; a hart told to stop never runs another.      *)
(* There are no interrupts, message bits, stores under way or csds here.   *)
(* Ipi.tla implements this module.                                         *)
(***************************************************************************)
EXTENDS Sequences

CONSTANTS Harts, Functions

VARIABLES
    calling,  \* calling[h]: the harts its caller has yet to ask, and for what
    asked,    \* asked[i]: the calls that hart i has yet to begin
    running   \* running[i]: the call that hart i is in, if any

vars == <<calling, asked, running>>

NoCall == [to |-> {}, wait |-> FALSE, func |-> "none"]

Init ==
    /\ calling = [h \in Harts |-> NoCall]
    /\ asked = [i \in Harts |-> <<>>]
    /\ running = [i \in Harts |-> <<>>]

Start(h, to, wait, func) ==
    /\ calling[h] = NoCall /\ to # {} /\ h \notin to
    /\ calling' = [calling EXCEPT ![h] = [to |-> to, wait |-> wait, func |-> func]]
    /\ UNCHANGED <<asked, running>>

\* Asking the last target ends a call that does not wait.
AskOne(h, i) ==
    LET c == calling[h]
    IN /\ i \in c.to
       /\ asked' = [asked EXCEPT ![i] =
             Append(@, [from |-> h, wait |-> c.wait, func |-> c.func])]
       /\ calling' = [calling EXCEPT ![h] =
             IF c.to = {i} /\ ~c.wait THEN NoCall ELSE [c EXCEPT !.to = c.to \ {i}]]
       /\ UNCHANGED running

Begin(i) ==
    /\ running[i] = <<>> /\ asked[i] # <<>>
    /\ running' = [running EXCEPT ![i] = <<Head(asked[i])>>]
    /\ asked' = [asked EXCEPT ![i] = Tail(@)]
    /\ UNCHANGED calling

End(i) ==
    /\ running[i] # <<>> /\ Head(running[i]).func # "ipi_stop"
    /\ running' = [running EXCEPT ![i] = <<>>]
    /\ UNCHANGED <<calling, asked>>

\* Caller h waits for call c.
Awaited(h, c) == c.wait /\ c.from = h

Return(h) ==
    /\ calling[h].wait /\ calling[h].to = {}
    /\ \A i \in Harts :
          /\ \A n \in DOMAIN asked[i] : ~Awaited(h, asked[i][n])
          /\ \A n \in DOMAIN running[i] : ~Awaited(h, running[i][n])
    /\ calling' = [calling EXCEPT ![h] = NoCall]
    /\ UNCHANGED <<asked, running>>

Next == \E h \in Harts :
    \/ \E to \in SUBSET Harts, wait \in BOOLEAN, func \in Functions :
          Start(h, to, wait, func)
    \/ \E i \in Harts : AskOne(h, i)
    \/ Begin(h) \/ End(h) \/ Return(h)

Spec == Init /\ [][Next]_vars
=============================================================================
