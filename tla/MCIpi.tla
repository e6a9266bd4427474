------------------------------- MODULE MCIpi -------------------------------
\* Ipi on three harts: hart 0 makes every kind of request, hart 1 the ones
\* with a single target and the stop, hart 2 only receives.
EXTENDS Ipi, TLC

MCHarts == 0..2
MCMayAsk == <<{"reschedule", "single", "single_wait", "stop"}, {}>> @@ [h \in {0} |-> Kinds]

\* Calls of one hart by another only, nobody stops anybody.
MCMayAskSingle == [h \in 0..2 |-> IF h < 2 THEN {"single"} ELSE {}]
=============================================================================
