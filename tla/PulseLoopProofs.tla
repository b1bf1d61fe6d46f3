--------------------------- MODULE PulseLoopProofs ---------------------------
(***************************************************************************)
(* Theorems about the monitoring loop, for any hosts, releases, sessions,  *)
(* database behaviours and --range.  Each safety property of PulseLoop is  *)
(* a part of an inductive invariant that is relative to TypeInv; the steps *)
(* are treated one action at a time, or in groups that leave the variables *)
(* of the invariant alone.                                                 *)
(***************************************************************************)
EXTENDS PulseLoop, TLAPS

USE DEF Goto, labels, gauges, infoSeries, envVars

\* Which kind of result the loop holds at each point of its recording.
ResultInv ==
    /\ pc \in {"version_drop", "version_set", "readonly", "pulse"} => res \in Answers
    /\ pc \in {"error_pulse", "error_print"} => res \in Errors
    /\ pc \in {"host_drop", "host_set", "count", "detail", "tls"}
          => res \in Answers \cup Errors

\* The types, strong enough to be inductive: a success step has an Answer.
TypeInv == TypeOK /\ ResultInv

\* Adding to a counter keeps the counters numbers.
LEMMA BumpType ==
  ASSUME inc \in [Counters -> Nat], NEW c \in Counters, Bump(c)
  PROVE  inc' \in [Counters -> Nat]
  BY DEF Bump

\* The loop starts well typed.
LEMMA TypeInvInit == Init => TypeInv
  BY ModesAssumption DEF Init, TypeInv, TypeOK, ResultInv, PCs, Counters, NoCounts

\* Every step of the loop and of its environment keeps the types.
LEMMA TypeInvStep == TypeInv /\ [Next]_vars => TypeInv'
<1> SUFFICES ASSUME TypeInv, [Next]_vars PROVE TypeInv'
  OBVIOUS
<1>1. CASE Next
  <2>1. CASE StartIteration
    <3>1. inc' \in [Counters -> Nat]
      BY <2>1 DEF StartIteration, NoCounts
    <3> QED BY <2>1, <3>1 DEF StartIteration, TypeInv, TypeOK, ResultInv, PCs, loopVars, metricVars, envVars
  <2>2. CASE CheckAnswers
    <3>1. PICK v \in {"passed", "readonly"}, r \in Releases, h \in Hosts \cup {None},
               t \in Sessions \cup {None} :
             res' = [ok |-> TRUE, version |-> <<r, v = "readonly">>,
                     host |-> h, tls |-> t]
      BY <2>2 DEF CheckAnswers
    <3>2. <<r, v = "readonly">> \in Versions
      BY DEF Versions
    <3>3. res' \in Answers
      BY <3>1, <3>2 DEF Answers
    <3> QED BY <2>2, <3>3 DEF CheckAnswers, TypeInv, TypeOK, ResultInv, PCs, loopVars, metricVars, envVars
  <2>3. CASE CheckFails
    <3>1. res' \in Errors
      BY <2>3 DEF CheckFails, Errors
    <3> QED BY <2>3, <3>1 DEF CheckFails, TypeInv, TypeOK, ResultInv, PCs, loopVars, metricVars, envVars
  <2>4. CASE CheckPanics
    BY <2>4 DEF CheckPanics, TypeInv, TypeOK, ResultInv, PCs, loopVars, metricVars, envVars
  <2>5. CASE CheckHangs
    BY <2>5 DEF CheckHangs, TypeInv, TypeOK, ResultInv, PCs, loopVars, metricVars, envVars
  <2>6. CASE HangEnds
    BY <2>6 DEF HangEnds, TypeInv, TypeOK, ResultInv, PCs, loopVars, metricVars, envVars
  <2>7. CASE DropOldVersion
    BY <2>7 DEF DropOldVersion, TypeInv, TypeOK, ResultInv, PCs, loopVars, metricVars, envVars, Outdated
  <2>8. CASE SetVersion
    BY <2>8 DEF SetVersion, TypeInv, TypeOK, ResultInv, PCs, loopVars, metricVars, envVars, Answers, Errors, Versions
  <2>9. CASE ErrorPulse
    BY <2>9 DEF ErrorPulse, TypeInv, TypeOK, ResultInv, PCs, loopVars, metricVars, envVars, LowerPulse
  <2>10. CASE ErrorPrint
    BY <2>10 DEF ErrorPrint, TypeInv, TypeOK, ResultInv, PCs, loopVars, metricVars, envVars
  <2>11. CASE DropOldHost
    BY <2>11 DEF DropOldHost, TypeInv, TypeOK, ResultInv, PCs, loopVars, metricVars, envVars, Outdated
  <2>12. CASE SetHost
    BY <2>12 DEF SetHost, TypeInv, TypeOK, ResultInv, PCs, loopVars, metricVars, envVars, Answers, Errors, Versions, HostOf
  <2>13. CASE SetReadonly
    BY <2>13 DEF SetReadonly, TypeInv, TypeOK, ResultInv, PCs, loopVars, metricVars, envVars, Answers, Errors, Versions, ReadonlyOf
  <2>14. CASE SetPulse
    BY <2>14 DEF SetPulse, TypeInv, TypeOK, ResultInv, PCs, loopVars, metricVars, envVars, Answers, Errors, Versions, PulseOf
  <2>15. CASE CountIteration
    <3>1. inc' \in [Counters -> Nat]
      BY <2>15, BumpType DEF CountIteration, TypeInv, TypeOK, Counters
    <3> QED BY <2>15, <3>1 DEF CountIteration, TypeInv, TypeOK, ResultInv, PCs, loopVars, metricVars, envVars
  <2>16. CASE CountDetail
    <3>1. inc' \in [Counters -> Nat]
      BY <2>16, BumpType DEF CountDetail, TypeInv, TypeOK, Counters, DetailOf
    <3> QED BY <2>16, <3>1 DEF CountDetail, TypeInv, TypeOK, ResultInv, PCs, loopVars, metricVars, envVars
  <2>17. CASE ApplyTls
    <3>1. inc' \in [Counters -> Nat]
      BY <2>17, BumpType DEF ApplyTls, TypeInv, TypeOK, Counters
    <3>2. tlsSeries' \subseteq Sessions
      BY <2>17 DEF ApplyTls, TypeInv, TypeOK, ResultInv, Answers, Errors
    <3> QED BY <2>17, <3>1, <3>2 DEF ApplyTls, TypeInv, TypeOK, ResultInv, PCs, loopVars, metricVars, envVars
  <2>18. CASE ObserveRuntime
    <3>1. inc' \in [Counters -> Nat]
      BY <2>18, BumpType DEF ObserveRuntime, TypeInv, TypeOK, Counters
    <3> QED BY <2>18, <3>1 DEF ObserveRuntime, TypeInv, TypeOK, ResultInv, PCs, loopVars, metricVars, envVars
  <2>19. CASE PrintPulse
    BY <2>19 DEF PrintPulse, TypeInv, TypeOK, ResultInv, PCs, loopVars, metricVars, envVars
  <2>20. CASE Unwind
    <3>1. inc' \in [Counters -> Nat]
      BY <2>20, BumpType DEF Unwind, TypeInv, TypeOK, Counters
    <3> QED BY <2>20, <3>1 DEF Unwind, TypeInv, TypeOK, ResultInv, PCs, loopVars, metricVars, envVars
  <2>21. CASE CaughtPrint
    BY <2>21 DEF CaughtPrint, TypeInv, TypeOK, ResultInv, PCs, loopVars, metricVars, envVars
  <2>22. CASE CaughtPulse
    BY <2>22 DEF CaughtPulse, TypeInv, TypeOK, ResultInv, PCs, loopVars, metricVars, envVars, LowerPulse
  <2>23. CASE CaughtCount
    <3>1. inc' \in [Counters -> Nat]
      BY <2>23, BumpType DEF CaughtCount, TypeInv, TypeOK, Counters
    <3> QED BY <2>23, <3>1 DEF CaughtCount, TypeInv, TypeOK, ResultInv, PCs, loopVars, metricVars, envVars
  <2>24. CASE Wake
    BY <2>24 DEF Wake, TypeInv, TypeOK, ResultInv, PCs, loopVars, metricVars, envVars, Asleep
  <2>25. CASE ModeChanges
    <3>1. seen' \subseteq Modes /\ mode' \in Modes
      BY <2>25 DEF ModeChanges, TypeInv, TypeOK, ResultInv, PCs
    <3> QED BY <2>25, <3>1 DEF ModeChanges, TypeInv, TypeOK, ResultInv, PCs, loopVars, metricVars, envVars
  <2>26. CASE StreamBreaks
    <3>1. stdout' \in BOOLEAN /\ stderr' \in BOOLEAN
      BY <2>26, Zenon DEF StreamBreaks, TypeInv, TypeOK
    <3> QED BY <2>26, <3>1 DEF StreamBreaks, TypeInv, TypeOK, ResultInv, PCs, loopVars, metricVars, envVars
  <2> QED BY <1>1, <2>1, <2>2, <2>3, <2>4, <2>5, <2>6, <2>7, <2>8, <2>9, <2>10, <2>11, <2>12, <2>13, <2>14, <2>15, <2>16, <2>17, <2>18, <2>19, <2>20, <2>21, <2>22, <2>23, <2>24, <2>25, <2>26 DEF Next, LoopStep, CheckStep, RecordStep, EndStep
<1>2. CASE UNCHANGED vars
  BY <1>2 DEF vars, loopVars, metricVars, envVars, TypeInv, TypeOK, ResultInv
<1> QED BY <1>1, <1>2

\* Every reachable state is well typed: record_success only ever works on an
\* answer, record_error on an error, and None never becomes a label value.
THEOREM TypeCorrect == Spec => []TypeOK
<1>1. TypeInv => TypeOK
  BY DEF TypeInv
<1> QED BY <1>1, TypeInvInit, TypeInvStep, PTL DEF Spec

-----------------------------------------------------------------------------
\* The steps that neither touch a label nor enter or leave a label update.
ElsewhereStep ==
    \/ StartIteration \/ CheckAnswers \/ CheckFails \/ CheckPanics \/ CheckHangs
    \/ HangEnds \/ ErrorPulse \/ ErrorPrint \/ SetReadonly \/ SetPulse
    \/ CountIteration \/ CountDetail \/ ApplyTls \/ EndStep

\* The labels remembered stay those exposed; only the four label steps matter.
LEMMA SeriesTrackedStep == TypeInv /\ SeriesTracked /\ [Next]_vars => SeriesTracked'
<1> SUFFICES ASSUME TypeInv, SeriesTracked, [Next]_vars PROVE SeriesTracked'
  OBVIOUS
<1>1. CASE DropOldVersion
  BY <1>1 DEF DropOldVersion, SeriesTracked, Outdated
<1>2. CASE SetVersion
  <2>1. res.version # None
    BY <1>2, NoneAssumption DEF SetVersion, TypeInv, ResultInv, Answers
  <2> QED BY <1>2, <2>1 DEF SetVersion, SeriesTracked, Outdated
<1>3. CASE DropOldHost
  BY <1>3 DEF DropOldHost, SeriesTracked, Outdated
<1>4. CASE SetHost
  BY <1>4 DEF SetHost, SeriesTracked, Outdated
<1>5. CASE ElsewhereStep
  <2>1. UNCHANGED <<versionSeries, hostSeries, lastVersion, lastHost>>
    BY <1>5 DEF ElsewhereStep, EndStep, metricVars, StartIteration, CheckAnswers,
       CheckFails, CheckPanics, CheckHangs, HangEnds, ErrorPulse, ErrorPrint,
       SetReadonly, SetPulse, CountIteration, CountDetail, ApplyTls,
       ObserveRuntime, PrintPulse, Unwind, CaughtPrint, CaughtPulse, CaughtCount, Wake
  <2>2. pc \notin {"version_set", "host_set"} /\ pc' \notin {"version_set", "host_set"}
    BY <1>5 DEF ElsewhereStep, EndStep, StartIteration, CheckAnswers,
       CheckFails, CheckPanics, CheckHangs, HangEnds, ErrorPulse, ErrorPrint,
       SetReadonly, SetPulse, CountIteration, CountDetail, ApplyTls, Asleep,
       ObserveRuntime, PrintPulse, Unwind, CaughtPrint, CaughtPulse, CaughtCount, Wake
  <2> QED BY <2>1, <2>2 DEF SeriesTracked
<1>6. CASE ModeChanges \/ StreamBreaks \/ UNCHANGED vars
  BY <1>6 DEF ModeChanges, StreamBreaks, vars, loopVars, metricVars, SeriesTracked
<1> QED BY <1>1, <1>2, <1>3, <1>4, <1>5, <1>6
       DEF Next, LoopStep, CheckStep, RecordStep, ElsewhereStep

\* A scrape never sees two versions or two hosts, whatever the failovers.
THEOREM SeriesAlwaysTracked == Spec => []SeriesTracked
<1>1. Init => SeriesTracked
  BY DEF Init, SeriesTracked
<1> QED BY <1>1, TypeInvInit, TypeInvStep, SeriesTrackedStep, PTL DEF Spec

-----------------------------------------------------------------------------
\* NoTornVerdict, with the flag DB_READONLY has when PULSE is about to be set.
TornInv ==
    /\ NoTornVerdict
    /\ pc = "pulse" => readonly = ReadonlyOf(res)

\* The steps that write neither gauge and are not next to such a write.
GaugelessStep ==
    \/ CheckStep \/ CheckHangs \/ HangEnds \/ DropOldVersion \/ SetVersion
    \/ ErrorPrint \/ DropOldHost \/ CountIteration \/ CountDetail
    \/ ApplyTls \/ ObserveRuntime \/ PrintPulse \/ Unwind \/ CaughtPrint
    \/ CaughtCount \/ Wake

\* Only the steps that write a gauge, or come before one, need the flag.
LEMMA TornInvStep == TypeInv /\ TornInv /\ [Next]_vars => TornInv'
<1> SUFFICES ASSUME TypeInv, TornInv, [Next]_vars PROVE TornInv'
  OBVIOUS
<1>1. CASE ErrorPulse \/ CaughtPulse
  BY <1>1 DEF ErrorPulse, CaughtPulse, LowerPulse, TornInv, NoTornVerdict
<1>2. CASE SetHost
  BY <1>2 DEF SetHost, TornInv, NoTornVerdict, TypeInv, TypeOK
<1>3. CASE SetReadonly
  BY <1>3 DEF SetReadonly, TornInv, NoTornVerdict, ReadonlyOf, IsReadOnly
<1>4. CASE SetPulse
  <2>1. pulse' = PulseOf(res) /\ readonly' = ReadonlyOf(res) /\ pc' = "count"
    BY <1>4 DEF SetPulse, TornInv
  <2> QED BY <2>1 DEF TornInv, NoTornVerdict, PulseOf, ReadonlyOf
<1>5. CASE GaugelessStep
  <2>1. UNCHANGED <<pulse, readonly>> /\ pc # "pulse" /\ pc' # "pulse"
    BY <1>5 DEF GaugelessStep, metricVars, CheckStep, StartIteration, CheckAnswers,
       CheckFails, CheckPanics, CheckHangs, HangEnds, DropOldVersion, SetVersion,
       ErrorPrint, DropOldHost, CountIteration, CountDetail, ApplyTls, Asleep,
       ObserveRuntime, PrintPulse, Unwind, CaughtPrint, CaughtCount, Wake
  <2> QED BY <2>1 DEF TornInv, NoTornVerdict
<1>6. CASE ModeChanges \/ StreamBreaks \/ UNCHANGED vars
  <2>1. UNCHANGED <<pc, res, pulse, readonly>>
    BY <1>6 DEF ModeChanges, StreamBreaks, vars, loopVars, metricVars
  <2> QED BY <2>1 DEF TornInv, NoTornVerdict, ReadonlyOf, IsReadOnly
<1> QED BY <1>1, <1>2, <1>3, <1>4, <1>5, <1>6
       DEF Next, LoopStep, RecordStep, EndStep, GaugelessStep

\* Both gauges are 1 only between the two writes of one record_success.
THEOREM NeverTorn == Spec => []NoTornVerdict
<1>1. Init => TornInv
  BY NoneAssumption DEF Init, TornInv, NoTornVerdict
<1>2. TornInv => NoTornVerdict
  BY DEF TornInv
<1> QED BY <1>1, <1>2, TypeInvInit, TypeInvStep, TornInvStep, PTL DEF Spec

-----------------------------------------------------------------------------
\* A result is being recorded.
Recording == pc \in {"version_drop", "version_set", "error_pulse", "error_print",
                     "host_drop", "host_set", "readonly", "pulse", "count",
                     "detail", "tls"}

\* PULSE already shows the result being recorded.
Shown == \/ pc \in {"error_print", "count", "detail", "tls"}
         \/ pc \in {"host_drop", "host_set"} /\ ~res.ok

\* The evidence behind a verdict: what the check met while it ran.
Evidence(verified) == IF verified THEN "writable" \in seen ELSE seen # {"writable"}

\* VerdictHonest, carried from the evidence to the result to the gauge.
VerdictInv ==
    /\ VerdictHonest
    /\ pc \in {"check", "hung"} => mode \in seen
    /\ Recording => Evidence(IsWriteVerified(res))
    /\ Shown => pulse = IF IsWriteVerified(res) THEN 1 ELSE 0

\* What the check met, told by what it saw.
LEMMA EncountersSeen ==
  /\ "writable" \in Encountered => "writable" \in seen
  /\ "readonly" \in Encountered => "replica" \in seen
  /\ seen = {"writable"} => Encountered = {"writable"}
<1>1. \A m : /\ Encounter(m) = "writable" => m = "writable"
             /\ Encounter(m) = "readonly" => m = "replica"
  BY DEF Encounter
<1>2. Encounter("writable") = "writable"
  BY DEF Encounter
<1> QED BY <1>1, <1>2 DEF Encountered

\* The evidence of the check survives its recording.
LEMMA VerdictInvStep == TypeInv /\ VerdictInv /\ [Next]_vars => VerdictInv'
<1> SUFFICES ASSUME TypeInv, VerdictInv, [Next]_vars PROVE VerdictInv'
  OBVIOUS
<1> USE DEF VerdictInv, VerdictHonest, Recording, Shown, Judged
<1>1. CASE StartIteration
  BY <1>1 DEF StartIteration, envVars
<1>2. CASE CheckAnswers
  <2>1. PICK v \in {"passed", "readonly"}, r \in Releases, h \in Hosts \cup {None},
             t \in Sessions \cup {None} :
           /\ Contract!Backs(Encountered, v)
           /\ res' = [ok |-> TRUE, version |-> <<r, v = "readonly">>,
                      host |-> h, tls |-> t]
    BY <1>2 DEF CheckAnswers
  <2>2. IsWriteVerified(res)' <=> v # "readonly"
    BY <2>1 DEF IsWriteVerified, IsReadOnly
  <2>3. IF v = "passed" THEN "writable" \in seen ELSE "replica" \in seen
    BY <2>1, EncountersSeen DEF Contract!Backs
  <2>4. Evidence(IsWriteVerified(res))'
    BY <1>2, <2>2, <2>3 DEF CheckAnswers, Evidence, envVars
  <2> QED BY <1>2, <2>4 DEF CheckAnswers
<1>3. CASE CheckFails
  <2>1. ~IsWriteVerified(res)'
    BY <1>3 DEF CheckFails, IsWriteVerified
  <2>2. seen # {"writable"}
    BY <1>3, EncountersSeen DEF CheckFails, Contract!Backs
  <2>3. Evidence(IsWriteVerified(res))'
    BY <1>3, <2>1, <2>2 DEF CheckFails, Evidence, envVars
  <2> QED BY <1>3, <2>3 DEF CheckFails
<1>4. CASE CheckPanics \/ CheckHangs \/ HangEnds
  BY <1>4 DEF CheckPanics, CheckHangs, HangEnds, envVars
<1>5. CASE ErrorPulse
  <2>1. res \in Errors /\ ~res.ok
    BY <1>5 DEF ErrorPulse, TypeInv, ResultInv, Errors
  <2> QED BY <1>5, <2>1 DEF ErrorPulse, LowerPulse, Evidence, IsWriteVerified
<1>6. CASE ErrorPrint
  <2>1. res \in Errors /\ ~res.ok
    BY <1>6 DEF ErrorPrint, TypeInv, ResultInv, Errors
  <2> QED BY <1>6, <2>1 DEF ErrorPrint, metricVars, Evidence, IsWriteVerified
<1>7. CASE DropOldVersion
  <2>1. res.ok
    BY <1>7 DEF DropOldVersion, TypeInv, ResultInv, Answers
  <2> QED BY <1>7, <2>1 DEF DropOldVersion, Evidence, IsWriteVerified, IsReadOnly
<1>8. CASE SetVersion
  <2>1. res.ok
    BY <1>8 DEF SetVersion, TypeInv, ResultInv, Answers
  <2> QED BY <1>8, <2>1 DEF SetVersion, Evidence, IsWriteVerified, IsReadOnly
<1>9. CASE DropOldHost \/ SetHost
  BY <1>9 DEF DropOldHost, SetHost, Evidence, IsWriteVerified, IsReadOnly
<1>10. CASE SetReadonly
  BY <1>10 DEF SetReadonly, Evidence, IsWriteVerified, IsReadOnly
<1>11. CASE SetPulse
  <2>1. res.ok
    BY <1>11 DEF SetPulse, TypeInv, ResultInv, Answers
  <2>2. PulseOf(res) = IF IsWriteVerified(res) THEN 1 ELSE 0
    BY <2>1 DEF PulseOf, IsWriteVerified, IsReadOnly
  <2> QED BY <1>11, <2>2 DEF SetPulse, Evidence, IsWriteVerified, IsReadOnly
<1>12. CASE CountIteration \/ CountDetail
  BY <1>12 DEF CountIteration, CountDetail, metricVars, Evidence, IsWriteVerified, IsReadOnly
<1>13. CASE ApplyTls
  BY <1>13 DEF ApplyTls, Evidence
<1>14. CASE ObserveRuntime \/ PrintPulse \/ Unwind \/ CaughtPrint \/ CaughtPulse
            \/ CaughtCount \/ Wake
  BY <1>14 DEF ObserveRuntime, PrintPulse, Unwind, CaughtPrint, CaughtPulse,
     CaughtCount, Wake, Asleep, metricVars
<1>15. CASE ModeChanges
  BY <1>15 DEF ModeChanges, loopVars, metricVars, Evidence, IsWriteVerified, IsReadOnly
<1>16. CASE StreamBreaks \/ UNCHANGED vars
  BY <1>16 DEF StreamBreaks, vars, envVars, loopVars, metricVars, Evidence,
     IsWriteVerified, IsReadOnly
<1> QED BY <1>1, <1>2, <1>3, <1>4, <1>5, <1>6, <1>7, <1>8, <1>9, <1>10, <1>11,
         <1>12, <1>13, <1>14, <1>15, <1>16
       DEF Next, LoopStep, CheckStep, RecordStep, EndStep

\* No false health report and no false alarm, for every database behaviour.
THEOREM VerdictAlwaysHonest == Spec => []VerdictHonest
<1>1. Init => VerdictInv
  BY DEF Init, VerdictInv, VerdictHonest, Recording, Shown, Judged
<1>2. VerdictInv => VerdictHonest
  BY DEF VerdictInv
<1> QED BY <1>1, <1>2, TypeInvInit, TypeInvStep, VerdictInvStep, PTL DEF Spec

-----------------------------------------------------------------------------
\* The loop's labels are those of the result being recorded, once set.
LabelInv ==
    /\ SeriesTracked
    /\ pc \in {"host_drop", "host_set", "readonly", "pulse"} /\ res.ok
          => lastVersion = res.version
    /\ pc \in {"readonly", "pulse"} => lastHost = res.host
    /\ pc = "pulse" => readonly = ReadonlyOf(res)

\* The labels are set from the result before the gauge is.
LEMMA LabelInvStep == TypeInv /\ LabelInv /\ [Next]_vars => LabelInv'
<1> SUFFICES ASSUME TypeInv, LabelInv, [Next]_vars PROVE LabelInv'
  OBVIOUS
<1>0. SeriesTracked'
  BY SeriesTrackedStep DEF LabelInv
<1>1. CASE SetVersion
  BY <1>0, <1>1 DEF SetVersion, LabelInv
<1>2. CASE ErrorPrint
  <2>1. ~res.ok
    BY <1>2 DEF ErrorPrint, TypeInv, ResultInv, Errors
  <2> QED BY <1>0, <1>2, <2>1 DEF ErrorPrint, LabelInv
<1>3. CASE DropOldHost
  BY <1>0, <1>3 DEF DropOldHost, LabelInv
<1>4. CASE SetHost
  BY <1>0, <1>4 DEF SetHost, LabelInv, HostOf
<1>5. CASE SetReadonly
  <2>1. res.ok
    BY <1>5 DEF SetReadonly, TypeInv, ResultInv, Answers
  <2> QED BY <1>0, <1>5, <2>1 DEF SetReadonly, LabelInv, ReadonlyOf, IsReadOnly
<1>6. CASE ModeChanges \/ StreamBreaks \/ UNCHANGED vars
  <2>1. UNCHANGED <<pc, res, lastVersion, lastHost, readonly>>
    BY <1>6 DEF ModeChanges, StreamBreaks, vars, loopVars, metricVars
  <2> QED BY <1>0, <2>1 DEF LabelInv, ReadonlyOf, IsReadOnly
<1>7. CASE CheckStep \/ CheckHangs \/ HangEnds \/ DropOldVersion \/ ErrorPulse
           \/ SetPulse \/ CountIteration \/ CountDetail \/ ApplyTls \/ EndStep
  <2>1. pc' \notin {"host_drop", "host_set", "readonly", "pulse"}
    BY <1>7 DEF CheckStep, EndStep, StartIteration, CheckAnswers, CheckFails,
       CheckPanics, CheckHangs, HangEnds, DropOldVersion, ErrorPulse, SetPulse,
       CountIteration, CountDetail, ApplyTls, ObserveRuntime, PrintPulse, Unwind,
       CaughtPrint, CaughtPulse, CaughtCount, Wake
  <2> QED BY <1>0, <2>1 DEF LabelInv
<1> QED BY <1>1, <1>2, <1>3, <1>4, <1>5, <1>6, <1>7
       DEF Next, LoopStep, RecordStep

\* Only SetPulse can raise the gauge.
LEMMA OnlySetPulseRaises ==
  ASSUME [Next]_vars, pulse # 1, pulse' = 1
  PROVE  SetPulse
<1>1. CASE Next
  BY <1>1 DEF Next, LoopStep, CheckStep, RecordStep, EndStep, metricVars, LowerPulse,
     StartIteration, CheckAnswers, CheckFails, CheckPanics, CheckHangs, HangEnds,
     DropOldVersion, SetVersion, ErrorPulse, ErrorPrint, DropOldHost, SetHost,
     SetReadonly, CountIteration, CountDetail, ApplyTls, ObserveRuntime, PrintPulse,
     Unwind, CaughtPrint, CaughtPulse, CaughtCount, Wake, ModeChanges, StreamBreaks
<1>2. CASE UNCHANGED vars
  BY <1>2 DEF vars, metricVars
<1> QED BY <1>1, <1>2

\* The pulse rises only beside the labels and the flag of its own check.
THEOREM AlwaysRaisedWithCurrentLabels == Spec => RaisedWithCurrentLabels
<1> DEFINE Raised == pulse # 1 /\ pulse' = 1
                     => /\ versionSeries' = {res.version}
                        /\ hostSeries' = {res.host} \ {None}
                        /\ readonly' = 0
<1>1. TypeInv /\ LabelInv /\ [Next]_vars => Raised
  <2> SUFFICES ASSUME TypeInv, LabelInv, [Next]_vars, pulse # 1, pulse' = 1
               PROVE  /\ versionSeries' = {res.version}
                      /\ hostSeries' = {res.host} \ {None}
                      /\ readonly' = 0
    OBVIOUS
  <2>1. SetPulse
    BY OnlySetPulseRaises
  <2>2. res \in Answers /\ res.ok /\ res.version # None
    BY <2>1, NoneAssumption DEF SetPulse, TypeInv, ResultInv, Answers
  <2>3. versionSeries = {res.version} /\ hostSeries = {res.host} \ {None}
    BY <2>1, <2>2 DEF SetPulse, LabelInv, SeriesTracked
  <2>4. readonly = 0
    BY <2>1 DEF SetPulse, LabelInv, PulseOf, ReadonlyOf
  <2> QED BY <2>1, <2>3, <2>4 DEF SetPulse
<1>2. Init => LabelInv
  BY DEF Init, LabelInv, SeriesTracked
<1>3. TypeInv /\ LabelInv /\ [Next]_vars => [Raised]_vars
  BY <1>1
<1> QED BY <1>2, <1>3, TypeInvInit, TypeInvStep, LabelInvStep, PTL
       DEF Spec, RaisedWithCurrentLabels

-----------------------------------------------------------------------------
\* Nothing has been touched: the abstract signal is None and idle.
LEMMA SignalInit == Init => Signal!Init
  BY DEF Init, Signal!Init, Phase, Verdict

\* Every step of the loop is a step of HealthSignal or leaves it alone.
LEMMA SignalStep == TypeInv /\ [Next]_vars => [Signal!Next]_(Signal!svars)
<1> SUFFICES ASSUME TypeInv, [Next]_vars PROVE [Signal!Next]_(Signal!svars)
  OBVIOUS
<1> USE DEF Phase, Verdict
<1>1. CASE StartIteration
  <2>1. Signal!Begin
    BY <1>1 DEF StartIteration, metricVars, Signal!Begin
  <2> QED BY <2>1 DEF Signal!Next
<1>2. CASE CheckAnswers \/ CheckFails
  <2>1. Signal!Conclude
    BY <1>2 DEF CheckAnswers, CheckFails, metricVars, Signal!Conclude
  <2> QED BY <2>1 DEF Signal!Next
<1>3. CASE CheckPanics
  <2>1. Signal!Abort
    BY <1>3 DEF CheckPanics, metricVars, Signal!Abort
  <2> QED BY <2>1 DEF Signal!Next
<1>4. CASE CheckHangs \/ HangEnds \/ ObserveRuntime \/ Wake \/ Unwind \/ CaughtCount
  <2>1. UNCHANGED Signal!svars
    BY <1>4 DEF CheckHangs, HangEnds, ObserveRuntime, Wake, Asleep, Unwind,
       CaughtCount, metricVars, Signal!svars
  <2> QED BY <2>1
<1>5. CASE DropOldVersion \/ SetVersion
  <2>1. res.ok
    BY <1>5 DEF DropOldVersion, SetVersion, TypeInv, ResultInv, Answers
  <2>2. UNCHANGED Signal!svars
    BY <1>5, <2>1 DEF DropOldVersion, SetVersion, Signal!svars, IsWriteVerified, IsReadOnly
  <2> QED BY <2>2
<1>6. CASE ErrorPulse
  <2>1. ~IsWriteVerified(res)
    BY <1>6 DEF ErrorPulse, TypeInv, ResultInv, Errors, IsWriteVerified
  <2>2. Signal!Publish
    BY <1>6, <2>1 DEF ErrorPulse, LowerPulse, Signal!Publish
  <2> QED BY <2>2 DEF Signal!Next
<1>7. CASE ErrorPrint
  <2>1. ~res.ok
    BY <1>7 DEF ErrorPrint, TypeInv, ResultInv, Errors
  <2>2. CASE stderr
    BY <1>7, <2>1, <2>2 DEF ErrorPrint, metricVars, Signal!svars
  <2>3. CASE ~stderr
    <3>1. Signal!Abort
      BY <1>7, <2>3 DEF ErrorPrint, metricVars, Signal!Abort
    <3> QED BY <3>1 DEF Signal!Next
  <2> QED BY <2>2, <2>3
<1>8. CASE DropOldHost \/ SetHost
  BY <1>8 DEF DropOldHost, SetHost, Signal!svars, IsWriteVerified, IsReadOnly
<1>9. CASE SetReadonly
  BY <1>9 DEF SetReadonly, Signal!svars, IsWriteVerified, IsReadOnly
<1>10. CASE SetPulse
  <2>1. PulseOf(res) = IF IsWriteVerified(res) THEN 1 ELSE 0
    BY <1>10 DEF SetPulse, TypeInv, ResultInv, Answers, PulseOf, IsWriteVerified, IsReadOnly
  <2>2. Signal!Publish
    BY <1>10, <2>1 DEF SetPulse, Signal!Publish
  <2> QED BY <2>2 DEF Signal!Next
<1>11. CASE CountIteration \/ CountDetail \/ ApplyTls
  BY <1>11 DEF CountIteration, CountDetail, ApplyTls, metricVars, Signal!svars
<1>12. CASE PrintPulse
  <2>1. CASE stdout
    <3>1. Signal!Finish
      BY <1>12, <2>1 DEF PrintPulse, metricVars, Signal!Finish
    <3> QED BY <3>1 DEF Signal!Next
  <2>2. CASE ~stdout
    <3>1. Signal!Abort
      BY <1>12, <2>2 DEF PrintPulse, metricVars, Signal!Abort
    <3> QED BY <3>1 DEF Signal!Next
  <2> QED BY <2>1, <2>2
<1>13. CASE CaughtPrint
  <2>1. CASE stderr
    BY <1>13, <2>1 DEF CaughtPrint, metricVars, Signal!svars
  <2>2. CASE ~stderr
    <3>1. Signal!Die
      BY <1>13, <2>2 DEF CaughtPrint, metricVars, Signal!Die
    <3> QED BY <3>1 DEF Signal!Next
  <2> QED BY <2>1, <2>2
<1>14. CASE CaughtPulse
  <2>1. Signal!Withdraw
    BY <1>14 DEF CaughtPulse, LowerPulse, Signal!Withdraw
  <2> QED BY <2>1 DEF Signal!Next
<1>15. CASE ModeChanges \/ StreamBreaks \/ UNCHANGED vars
  <2>1. UNCHANGED <<pc, res, pulse>>
    BY <1>15 DEF ModeChanges, StreamBreaks, vars, loopVars, metricVars
  <2> QED BY <2>1 DEF Signal!svars, IsWriteVerified, IsReadOnly
<1> QED BY <1>1, <1>2, <1>3, <1>4, <1>5, <1>6, <1>7, <1>8, <1>9, <1>10, <1>11,
         <1>12, <1>13, <1>14, <1>15
       DEF Next, LoopStep, CheckStep, RecordStep, EndStep

\* The loop implements the safety part of HealthSignal.
THEOREM ImplementsSafeSignal == Spec => Signal!Safe
  BY SignalInit, SignalStep, TypeInvInit, TypeInvStep, PTL DEF Spec, Signal!Safe

-----------------------------------------------------------------------------
\* A result that is being recorded, or published, has a verdict.
LEMMA VerdictTypes == \A r : VerdictOf(r) \in {"passed", "readonly", "failed"}
  BY DEF VerdictOf

\* What a check meets is what CheckOutcome knows.
LEMMA EncounterType == \A m : Encounter(m) \in Contract!Encounters
  BY DEF Encounter, Contract!Encounters

\* Every step of the loop is a step of CheckOutcome or leaves it alone.
LEMMA ContractStep == TypeInv /\ [Next]_vars => [Contract!Next]_(Contract!ovars)
<1> SUFFICES ASSUME TypeInv, [Next]_vars PROVE [Contract!Next]_(Contract!ovars)
  OBVIOUS
<1> USE DEF Phase
<1>1. CASE StartIteration
  <2>1. CheckPhase = "idle" /\ CheckPhase' = "running"
    BY <1>1 DEF StartIteration, CheckPhase
  <2>2. Encountered' \subseteq Contract!Encounters
    BY EncounterType DEF Encountered
  <2>3. Contract!Begin
    BY <2>1, <2>2 DEF Contract!Begin
  <2> QED BY <2>3 DEF Contract!Next
<1>2. CASE CheckAnswers
  <2>1. PICK v \in {"passed", "readonly"}, r \in Releases, h \in Hosts \cup {None},
             t \in Sessions \cup {None} :
           /\ Contract!Backs(Encountered, v)
           /\ res' = [ok |-> TRUE, version |-> <<r, v = "readonly">>,
                      host |-> h, tls |-> t]
    BY <1>2 DEF CheckAnswers
  <2>2. VerdictOf(res)' = v
    BY <2>1 DEF VerdictOf, IsReadOnly
  <2>3. CheckPhase = "running" /\ CheckPhase' = v /\ Encountered' = Encountered
    BY <1>2, <2>2 DEF CheckAnswers, CheckPhase, Encountered, envVars
  <2>4. Contract!Conclude
    BY <2>1, <2>3 DEF Contract!Conclude, Contract!Backs, Contract!Verdicts
  <2> QED BY <2>4 DEF Contract!Next
<1>3. CASE CheckFails
  <2>1. VerdictOf(res)' = "failed"
    BY <1>3 DEF CheckFails, VerdictOf
  <2>2. CheckPhase = "running" /\ CheckPhase' = "failed" /\ Encountered' = Encountered
    BY <1>3, <2>1 DEF CheckFails, CheckPhase, Encountered, envVars
  <2>3. Contract!Conclude
    BY <1>3, <2>2 DEF CheckFails, Contract!Conclude, Contract!Backs, Contract!Verdicts
  <2> QED BY <2>3 DEF Contract!Next
<1>4. CASE CheckPanics
  <2>1. CheckPhase = "running" /\ CheckPhase' = "idle"
    BY <1>4 DEF CheckPanics, CheckPhase
  <2>2. Contract!Abandon
    BY <2>1 DEF Contract!Abandon
  <2> QED BY <2>2 DEF Contract!Next
<1>5. CASE ErrorPulse \/ SetPulse
  <2>1. Phase = "concluded" /\ Phase' = "published"
    BY <1>5 DEF ErrorPulse, SetPulse
  <2>2. CheckPhase \in {"passed", "readonly", "failed"} /\ CheckPhase' = "idle"
    BY <2>1, VerdictTypes DEF CheckPhase
  <2>3. Contract!Record
    BY <2>2 DEF Contract!Record, Contract!Verdicts
  <2> QED BY <2>3 DEF Contract!Next
<1>6. CASE DropOldVersion \/ SetVersion \/ DropOldHost \/ SetHost \/ SetReadonly
  <2>1. /\ Phase' = Phase /\ Phase \in {"concluded", "published"}
        /\ res' = res /\ seen' = seen
    <3>1. CASE DropOldVersion \/ SetVersion
      <4>1. res.ok
        BY <3>1 DEF DropOldVersion, SetVersion, TypeInv, ResultInv, Answers
      <4> QED BY <3>1, <4>1 DEF DropOldVersion, SetVersion, envVars
    <3>2. CASE DropOldHost \/ SetHost \/ SetReadonly
      BY <3>2 DEF DropOldHost, SetHost, SetReadonly, envVars
    <3> QED BY <1>6, <3>1, <3>2
  <2>2. CheckPhase' = CheckPhase /\ Encountered' = Encountered
    BY <2>1 DEF CheckPhase, VerdictOf, IsReadOnly, Encountered
  <2> QED BY <2>2 DEF Contract!ovars
<1>7. CASE CheckHangs \/ HangEnds
  <2>1. CheckPhase = "running" /\ CheckPhase' = "running" /\ Encountered' = Encountered
    BY <1>7 DEF CheckHangs, HangEnds, CheckPhase, Encountered, envVars
  <2> QED BY <2>1 DEF Contract!ovars
<1>8. CASE ModeChanges
  <2>1. Phase' = Phase /\ res' = res /\ CheckPhase' = CheckPhase
    BY <1>8 DEF ModeChanges, loopVars, CheckPhase, VerdictOf, IsReadOnly
  <2>2. CASE pc \in {"check", "hung"}
    <3>1. CheckPhase = "running" /\ seen \subseteq seen'
      BY <1>8, <2>2 DEF ModeChanges, CheckPhase
    <3>2. Encountered \subseteq Encountered'
      BY <3>1 DEF Encountered
    <3>3. Encountered' \subseteq Contract!Encounters
      BY EncounterType DEF Encountered
    <3>4. Contract!Meet
      BY <2>1, <3>1, <3>2, <3>3 DEF Contract!Meet
    <3> QED BY <3>4 DEF Contract!Next
  <2>3. CASE pc \notin {"check", "hung"}
    <3>1. seen' = seen
      BY <1>8, <2>3 DEF ModeChanges
    <3> QED BY <2>1, <3>1 DEF Encountered, Contract!ovars
  <2> QED BY <2>2, <2>3
<1>9. CASE StreamBreaks \/ UNCHANGED vars
  <2>1. pc' = pc /\ res' = res /\ seen' = seen
    BY <1>9 DEF StreamBreaks, vars, loopVars, envVars
  <2> QED BY <2>1 DEF CheckPhase, VerdictOf, IsReadOnly, Encountered, Contract!ovars
<1>10. CASE ErrorPrint \/ CountIteration \/ CountDetail \/ ApplyTls \/ EndStep
  <2>1. CheckPhase = "idle" /\ CheckPhase' = "idle"
    <3>1. CASE ErrorPrint
      <4>1. ~res.ok /\ res' = res
        BY <3>1 DEF ErrorPrint, TypeInv, ResultInv, Errors
      <4> QED BY <3>1, <4>1 DEF ErrorPrint, CheckPhase
    <3>2. CASE CountIteration \/ CountDetail \/ ApplyTls \/ EndStep
      BY <3>2 DEF CountIteration, CountDetail, ApplyTls, EndStep, ObserveRuntime, PrintPulse,
         Unwind, CaughtPrint, CaughtPulse, CaughtCount, Wake, Asleep, CheckPhase
    <3> QED BY <1>10, <3>1, <3>2
  <2> QED BY <2>1 DEF Contract!ovars
<1> QED BY <1>1, <1>2, <1>3, <1>4, <1>5, <1>6, <1>7, <1>8, <1>9, <1>10
       DEF Next, LoopStep, CheckStep, RecordStep

\* The check the loop awaits is one of CheckOutcome: every result it records is
\* the verdict of that check, and each is recorded once.
THEOREM AwaitsSafeContract == Spec => Contract!Safe
<1>1. Init => Contract!Init
  BY DEF Init, Contract!Init, CheckPhase, Phase
<1> QED BY <1>1, ContractStep, TypeInvInit, TypeInvStep, PTL DEF Spec, Contract!Safe

-----------------------------------------------------------------------------
\* Adding to a counter adds one there and nothing elsewhere.
LEMMA BumpValues ==
  ASSUME inc \in [Counters -> Nat], NEW c \in Counters, Bump(c)
  PROVE  inc'[c] = inc[c] + 1 /\ \A d \in Counters \ {c} : inc'[d] = inc[d]
  BY DEF Bump

\* The result being recorded as a number.
Verified == IF IsWriteVerified(res) THEN 1 ELSE 0

\* The counters agree with each other.
Balanced == /\ inc["errors"] = inc["error"]
            /\ inc["stamps"] = inc["success"]
            /\ inc["tlsErrors"] <= inc["error"]

\* What has been counted at each point of an iteration.
CountInv ==
    /\ pc \in {"check", "hung", "version_drop", "version_set", "error_pulse",
               "error_print", "host_drop", "host_set", "readonly", "pulse", "count"}
          => inc = NoCounts
    /\ pc \in {"detail", "tls"}
          => /\ inc["success"] = Verified /\ inc["error"] = 1 - Verified
             /\ inc["runtime"] = 0 /\ inc["panics"] = 0 /\ inc["tlsErrors"] = 0
    /\ pc = "detail" => inc["errors"] = 0 /\ inc["stamps"] = 0
    /\ pc = "tls" => inc["errors"] = 1 - Verified /\ inc["stamps"] = Verified
    /\ pc \in {"observe", "print", "sleep"}
          => /\ Balanced /\ inc["success"] + inc["error"] = 1
             /\ inc["panics"] = 0 /\ pulse = inc["success"]
    /\ pc \in {"unwind", "caught", "caught_pulse", "caught_count"}
          => /\ Balanced /\ inc["success"] + inc["error"] \in {0, 1}
             /\ inc["panics"] = 0
    /\ pc = "observe" => inc["runtime"] = 0
    /\ pc = "unwind" => inc["runtime"] \in {0, 1}
    /\ pc \in {"print", "sleep", "caught", "caught_pulse", "caught_count"}
          => inc["runtime"] = 1
    /\ pc = "caught_count" => pulse = 0
    /\ CountedOnce

\* Each step adds to the one counter due at its point of the iteration.
LEMMA CountInvStep == TypeInv /\ VerdictInv /\ CountInv /\ [Next]_vars => CountInv'
<1> SUFFICES ASSUME TypeInv, VerdictInv, CountInv, [Next]_vars PROVE CountInv'
  OBVIOUS
<1> USE DEF CountInv, CountedOnce, Asleep
<1>0. inc \in [Counters -> Nat]
  BY DEF TypeInv, TypeOK
<1>1. CASE StartIteration
  BY <1>1 DEF StartIteration
<1>2. CASE CheckAnswers \/ CheckFails \/ CheckHangs \/ HangEnds
  BY <1>2 DEF CheckAnswers, CheckFails, CheckHangs, HangEnds
<1>3. CASE CheckPanics
  BY <1>3 DEF CheckPanics, NoCounts, Counters, Balanced
<1>4. CASE DropOldVersion \/ SetVersion \/ ErrorPulse \/ DropOldHost \/ SetHost
           \/ SetReadonly \/ SetPulse
  BY <1>4 DEF DropOldVersion, SetVersion, ErrorPulse, DropOldHost, SetHost,
     SetReadonly, SetPulse
<1>5. CASE ErrorPrint
  BY <1>5 DEF ErrorPrint, NoCounts, Counters, Balanced
<1>6. CASE CountIteration
  <2>1. CASE IsWriteVerified(res)
    <3>1. Bump("success") /\ pc' = "detail" /\ Verified' = 1
      BY <1>6, <2>1 DEF CountIteration, Verified, IsWriteVerified, IsReadOnly
    <3> QED BY <1>0, <1>6, <3>1, BumpValues DEF CountIteration, NoCounts, Counters
  <2>2. CASE ~IsWriteVerified(res)
    <3>1. Bump("error") /\ pc' = "detail" /\ Verified' = 0
      BY <1>6, <2>2 DEF CountIteration, Verified, IsWriteVerified, IsReadOnly
    <3> QED BY <1>0, <1>6, <3>1, BumpValues DEF CountIteration, NoCounts, Counters
  <2> QED BY <2>1, <2>2
<1>7. CASE CountDetail
  <2>1. CASE IsWriteVerified(res)
    <3>1. Bump("stamps") /\ pc = "detail" /\ pc' = "tls" /\ Verified = 1 /\ Verified' = 1
      BY <1>7, <2>1 DEF CountDetail, DetailOf, Verified, IsWriteVerified, IsReadOnly
    <3> QED BY <1>0, <3>1, BumpValues DEF Counters
  <2>2. CASE ~IsWriteVerified(res)
    <3>1. Bump("errors") /\ pc = "detail" /\ pc' = "tls" /\ Verified = 0 /\ Verified' = 0
      BY <1>7, <2>2 DEF CountDetail, DetailOf, Verified, IsWriteVerified, IsReadOnly
    <3> QED BY <1>0, <3>1, BumpValues DEF Counters
  <2> QED BY <2>1, <2>2
<1>8. CASE ApplyTls
  <2>1. pc = "tls" /\ pc' = "observe" /\ pulse' = pulse /\ pulse = Verified
    BY <1>8 DEF ApplyTls, VerdictInv, Shown, Verified
  <2>2. CASE UNCHANGED inc
    BY <2>1, <2>2 DEF Balanced, Verified
  <2>3. CASE Bump("tlsErrors") /\ ~res.ok
    <3>1. Verified = 0
      BY <2>3 DEF Verified, IsWriteVerified
    <3> QED BY <1>0, <2>1, <2>3, <3>1, BumpValues DEF Balanced, Counters
  <2> QED BY <1>8, <2>2, <2>3 DEF ApplyTls
<1>9. CASE ObserveRuntime
  <2>1. Bump("runtime") /\ pc = "observe" /\ pc' = "print" /\ pulse' = pulse
    BY <1>9 DEF ObserveRuntime, metricVars
  <2> QED BY <1>0, <2>1, BumpValues DEF Balanced, Counters
<1>10. CASE PrintPulse
  BY <1>10, <1>0 DEF PrintPulse, metricVars, Balanced, Counters
<1>11. CASE Unwind
  <2>1. pc = "unwind" /\ pc' = "caught"
    BY <1>11 DEF Unwind
  <2>2. CASE TimerRuns
    BY <1>0, <1>11, <2>1, <2>2, BumpValues DEF Unwind, TimerRuns, Balanced, Counters
  <2>3. CASE ~TimerRuns
    BY <1>0, <1>11, <2>1, <2>3 DEF Unwind, TimerRuns, Balanced, Counters
  <2> QED BY <2>2, <2>3
<1>12. CASE CaughtPrint \/ CaughtPulse
  BY <1>12 DEF CaughtPrint, CaughtPulse, LowerPulse, Balanced
<1>13. CASE CaughtCount
  <2>1. Bump("panics") /\ pc = "caught_count" /\ pc' = "panic_sleep" /\ pulse' = pulse
    BY <1>13 DEF CaughtCount, metricVars
  <2> QED BY <1>0, <2>1, BumpValues DEF Balanced, Counters
<1>14. CASE Wake
  BY <1>14 DEF Wake
<1>15. CASE ModeChanges \/ StreamBreaks \/ UNCHANGED vars
  <2>1. UNCHANGED <<pc, res, inc, pulse>>
    BY <1>15 DEF ModeChanges, StreamBreaks, vars, loopVars, metricVars
  <2> QED BY <2>1 DEF Balanced, Verified, IsWriteVerified, IsReadOnly
<1> QED BY <1>1, <1>2, <1>3, <1>4, <1>5, <1>6, <1>7, <1>8, <1>9, <1>10, <1>11,
         <1>12, <1>13, <1>14, <1>15
       DEF Next, LoopStep, CheckStep, RecordStep, EndStep

\* The counters of each iteration balance, also when a panic ends it.
THEOREM AlwaysCountedOnce == Spec => []CountedOnce
<1>1. Init => CountInv /\ VerdictInv
  BY DEF Init, CountInv, CountedOnce, Asleep, VerdictInv, VerdictHonest, Recording,
     Shown, Judged
<1>2. CountInv => CountedOnce
  BY DEF CountInv
<1> QED BY <1>1, <1>2, TypeInvInit, TypeInvStep, VerdictInvStep, CountInvStep, PTL
       DEF Spec
=============================================================================
