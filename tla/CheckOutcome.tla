---------------------------- MODULE CheckOutcome ----------------------------
(***************************************************************************)
(* What the monitoring loop relies on when it awaits a check: whatever the *)
(* check does meanwhile, its verdict is backed by what it met.  PulseLoop  *)
(* assumes this of its one await (CheckAnswers, CheckFails), and           *)
(* HealthCheck implements it.                                              *)
(***************************************************************************)

VARIABLES
    phase, \* "idle", "running", or the verdict nobody has recorded yet
    met    \* what the check met: a server that takes writes, one that does
           \* not, trouble of any other kind

ovars == <<phase, met>>

Encounters == {"writable", "readonly", "trouble"}
Verdicts   == {"passed", "readonly", "failed"}

\* What a check must have met for its verdict.  A database that takes writes
\* all along, without trouble, is never failed.
Backs(encountered, verdict) ==
    \/ verdict = "passed"   /\ "writable" \in encountered
    \/ verdict = "readonly" /\ "readonly" \in encountered
    \/ verdict = "failed"   /\ encountered # {"writable"}

Init == phase = "idle" /\ met = {}

Begin ==
    /\ phase = "idle" /\ phase' = "running"
    /\ met' \in SUBSET Encounters

Meet ==
    /\ phase = "running" /\ UNCHANGED phase
    /\ met \subseteq met' /\ met' \subseteq Encounters

Conclude ==
    /\ phase = "running" /\ phase' \in Verdicts
    /\ Backs(met, phase')
    /\ UNCHANGED met

\* The verdict is recorded.
Record ==
    /\ phase \in Verdicts /\ phase' = "idle"
    /\ met' = {}

\* The process dies, and its successor starts afresh.
Abandon ==
    /\ phase = "running" /\ phase' = "idle"
    /\ met' = {}

Next == Begin \/ Meet \/ Conclude \/ Record \/ Abandon

Safe == Init /\ [][Next]_ovars
\* A verdict is not kept; that the check reaches one is not promised.
Spec == Safe /\ WF_ovars(Record)
=============================================================================
