---------------------------- MODULE HealthSignal ----------------------------
(***************************************************************************)
(* What dbpulse promises of its one bit, the dbpulse_pulse gauge, told     *)
(* without labels, counters or printing.  Rounds follow one another.  A    *)
(* round checks the database, concludes with a verdict and publishes it,   *)
(* or is aborted by a panic before the verdict or after its publication;   *)
(* an aborted round withdraws the signal, or takes the monitor down.       *)
(***************************************************************************)
EXTENDS Naturals

CONSTANT None   \* no verdict yet, and a gauge nobody has touched: neither 0 nor 1

VARIABLES signal, phase, verdict

svars == <<signal, phase, verdict>>

Init == signal = None /\ phase = "idle" /\ verdict = None

Begin ==
    /\ phase = "idle"
    /\ phase' = "checking"
    /\ UNCHANGED <<signal, verdict>>

Conclude ==
    /\ phase = "checking"
    /\ phase' = "concluded"
    /\ verdict' \in {0, 1}
    /\ UNCHANGED signal

Publish ==
    /\ phase = "concluded"
    /\ phase' = "published"
    /\ signal' = verdict
    /\ verdict' = None

Finish ==
    /\ phase = "published"
    /\ phase' = "idle"
    /\ UNCHANGED <<signal, verdict>>

Abort ==
    /\ phase \in {"checking", "published"}
    /\ phase' = "aborted"
    /\ UNCHANGED <<signal, verdict>>

Withdraw ==
    /\ phase = "aborted"
    /\ phase' = "idle"
    /\ signal' = 0
    /\ UNCHANGED verdict

Die ==
    /\ phase = "aborted"
    /\ phase' = "dead"
    /\ UNCHANGED <<signal, verdict>>

Next == Begin \/ Conclude \/ Publish \/ Finish \/ Abort \/ Withdraw \/ Die

Safe == Init /\ [][Next]_svars
\* A check may wait for ever on its database; everything after it must go on.
Spec == Safe /\ WF_svars(Begin) /\ WF_svars(Publish)
             /\ WF_svars(Finish \/ Abort \/ Withdraw \/ Die)
=============================================================================
