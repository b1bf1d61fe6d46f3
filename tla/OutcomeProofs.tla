---------------------------- MODULE OutcomeProofs ----------------------------
(***************************************************************************)
(* Theorems about the verdicts of HealthCheck, for every number of         *)
(* instances, every range, every limit and every set of faults: no         *)
(* instance raises a false alarm, and the checks of each keep the contract *)
(* of CheckOutcome.                                                        *)
(***************************************************************************)
EXTENDS HealthCheckProofs

Trouble(p) == Troubled(p) \/ FALSE \in saw[p]

\* A check that no other overlapped runs alone.
Apart(p) == Running(p) /\ ~crowded[p] => \A q \in Instances \ {p} : ~Running(q)

\* As long as nothing troubles a check, what its next statement relies on is
\* there: the server, the session, the database, the table, its row.
Sound(p) ==
    Running(p) /\ ~Trouble(p) =>
        /\ up /\ ~locked
        /\ pc[p] = "create_db" => ~created
        /\ pc[p] \notin {"connect", "create_db"} => conn[p]
        /\ pc[p] \in {"insert", "verify", "tx_insert", "recheck"} \cup TxSteps => Exists
        /\ pc[p] = "verify" => FindsOwnRow(p)
        /\ pc[p] = "tx_select" => tx[p] = 0

NoAlarm(p)    == pc[p] = "failed" => Trouble(p)
OutcomeInv(p) == Apart(p) /\ Sound(p) /\ NoAlarm(p)
AllSound      == IInv /\ \A p \in Instances : OutcomeInv(p)

\* A step other than the first and the last is one of a running check, and leaves
\* alone what troubled the check, whether the server is up, and its lock.
LEMMA StepKinds ==
    ASSUME Functional, NEW p \in Instances, CheckStep(p)
    PROVE  \/ Begin(p) \/ Finish(p)
           \/ /\ Running(p) /\ pc'[p] # "idle"
              /\ saw'[p] = saw[p] /\ hurt'[p] = hurt[p] /\ crowded' = crowded
              /\ up' = up /\ locked' = locked
<1> USE DEF Functional, server, check, history, Goto, Fail, Running, RequiredSteps, BestEffortSteps, TxSteps
<1>2. CASE Connect(p) BY <1>2 DEF Connect
<1>3. CASE CreateDatabase(p) BY <1>3 DEF CreateDatabase
<1>4. CASE SetUpSession(p) BY <1>4 DEF SetUpSession
<1>5. CASE AskMode(p) BY <1>5 DEF AskMode
<1>6. CASE EnsureTable(p) BY <1>6 DEF EnsureTable
<1>7. CASE Insert(p) BY <1>7 DEF Insert
<1>8. CASE Verify(p) BY <1>8 DEF Verify
<1>9. CASE TxInsert(p) BY <1>9 DEF TxInsert
<1>10. CASE TxUpdate(p) BY <1>10 DEF TxUpdate
<1>11. CASE TxSelect(p) BY <1>11 DEF TxSelect
<1>12. CASE Rollback(p) BY <1>12 DEF Rollback
<1>13. CASE Recheck(p) BY <1>13 DEF Recheck
<1>14. CASE Cleanup(p) BY <1>14 DEF Cleanup
<1>15. CASE CountRows(p) BY <1>15 DEF CountRows
<1>16. CASE DropHourly(p) BY <1>16 DEF DropHourly
<1>17. CASE Close(p) BY <1>17 DEF Close
<1>19. CASE TimesOut(p) BY <1>19 DEF TimesOut, Blocked
<1>20. CASE LostConnection(p) BY <1>20 DEF LostConnection
<1> QED
  BY <1>2, <1>3, <1>4, <1>5, <1>6, <1>7, <1>8, <1>9, <1>10,
     <1>11, <1>12, <1>13, <1>14, <1>15, <1>16, <1>17, <1>19, <1>20
     DEF CheckStep

\* What a sound check can rely on.
LEMMA Relies ==
    ASSUME IInv, NEW p \in Instances, OutcomeInv(p), Running(p), ~Trouble(p)
    PROVE  /\ up /\ ~locked /\ writable
           /\ pc[p] = "create_db" => ~created
           /\ pc[p] \notin {"connect", "create_db"} => conn[p]
           /\ pc[p] \in {"insert", "verify", "tx_insert", "recheck"} \cup TxSteps => Exists
           /\ pc[p] = "verify" => FindsOwnRow(p)
           /\ pc[p] = "tx_select" => tx[p] = 0
<1>1. writable \in saw[p] /\ writable \in BOOLEAN
  BY DEF IInv, InstanceInv, Backed, ServerInv, ServerOK
<1>2. writable BY <1>1, Zenon DEF Trouble
<1>3. /\ up /\ ~locked
      /\ pc[p] = "create_db" => ~created
      /\ pc[p] \notin {"connect", "create_db"} => conn[p]
      /\ pc[p] \in {"insert", "verify", "tx_insert", "recheck"} \cup TxSteps => Exists
      /\ pc[p] = "verify" => FindsOwnRow(p)
      /\ pc[p] = "tx_select" => tx[p] = 0
  BY Zenon DEF OutcomeInv, Sound
<1> QED BY <1>2, <1>3

\* The table stays a table when a row is written to it.
LEMMA Written ==
    ASSUME ServerInv, Exists, NEW i \in Ids, NEW row \in Rows
    PROVE  Upsert(i, row) # None /\ i \in DOMAIN Upsert(i, row) /\ Upsert(i, row)[i] = row
<1> DEFINE D == DOMAIN table \cup {i}
<1>1. D \in SUBSET Ids BY DEF ServerInv, OnlyProbesCommitted
<1>2. \A j \in DOMAIN table : table[j] \in Rows BY DEF ServerInv, ServerOK
<1>3. Upsert(i, row) \in [D -> Rows] BY <1>2 DEF Upsert
<1>4. Upsert(i, row) # None BY <1>1, <1>3, TableAssumption
<1> QED BY <1>4 DEF Upsert

\* Nobody has a transaction open beside a check that nothing troubles.
LEMMA NobodyElse ==
    ASSUME IInv, NEW p \in Instances, OutcomeInv(p), Running(p), ~Trouble(p)
    PROVE  \A q \in Instances \ {p} : ~Running(q) /\ tx[q] = None
<1>1. \A q \in Instances \ {p} : ~Running(q) BY DEF OutcomeInv, Apart, Trouble, Troubled
<1>2. \A q \in Instances : tx[q] # None => Running(q)
  BY DEF IInv, InstanceInv, InstanceOK, Running, RequiredSteps
<1> QED BY <1>1, <1>2

\* A check that nothing troubles is not failed by its next statement, and stays
\* sound.
LEMMA StaysSound ==
    ASSUME IInv, NEW p \in Instances, OutcomeInv(p), CheckStep(p),
           Running(p), ~Trouble(p)
    PROVE  pc'[p] # "failed" /\ (~Trouble(p)' => Sound(p)')
<1> USE DEF Functional, server, check, history, Goto, Fail
<1>f. Functional BY DEF IInv
<1>r. /\ up /\ ~locked /\ writable
      /\ pc[p] = "create_db" => ~created
      /\ pc[p] \notin {"connect", "create_db"} => conn[p]
      /\ pc[p] \in {"insert", "verify", "tx_insert", "recheck"} \cup TxSteps => Exists
      /\ pc[p] = "verify" => FindsOwnRow(p)
      /\ pc[p] = "tx_select" => tx[p] = 0
  BY Relies
<1>1. CASE Begin(p)
  BY <1>1 DEF Begin, Running, RequiredSteps, BestEffortSteps, TxSteps
<1>2. CASE Connect(p)
  <2>1. CASE created
    <3>1. pc'[p] = "session" /\ conn'[p] /\ up' = up /\ locked' = locked
      BY <1>2, <1>f, <1>r, <2>1 DEF Connect
    <3> QED BY <3>1, <1>r DEF Sound, TxSteps
  <2>2. CASE ~created
    <3>1. pc'[p] = "create_db" /\ created' = created /\ up' = up /\ locked' = locked
      BY <1>2, <1>f, <1>r, <2>2 DEF Connect
    <3> QED BY <3>1, <2>2, <1>r DEF Sound, TxSteps
  <2> QED BY <2>1, <2>2
<1>3. CASE CreateDatabase(p)
  <2>1. pc[p] = "create_db" BY <1>3 DEF CreateDatabase
  <2>2. pc'[p] = "session" /\ conn'[p] /\ up' = up /\ locked' = locked
    BY <1>3, <2>1, <1>f, <1>r DEF CreateDatabase
  <2> QED BY <2>2, <1>r DEF Sound, TxSteps
<1>4. CASE SetUpSession(p)
  <2>1. pc'[p] = "mode" /\ conn'[p] /\ up' = up /\ locked' = locked
    BY <1>4, <1>f DEF SetUpSession
  <2> QED BY <2>1, <1>r DEF Sound, TxSteps
<1>5. CASE AskMode(p)
  <2>1. pc'[p] = "ensure" /\ conn'[p] /\ up' = up /\ locked' = locked
    BY <1>5, <1>f, <1>r DEF AskMode
  <2> QED BY <2>1, <1>r DEF Sound, TxSteps
<1>6. CASE EnsureTable(p)
  <2>1. pc'[p] = "insert" /\ conn'[p] /\ up' = up /\ locked' = locked
    BY <1>6, <1>f, <1>r DEF EnsureTable
  <2>2. Exists'
    <3>1. CASE Exists BY <1>6, <3>1 DEF EnsureTable, Exists
    <3>2. CASE ~Exists
      <4>1. table' = [i \in {} |-> None] BY <1>6, <3>2, <1>r DEF EnsureTable
      <4>2. [i \in {} |-> None] \in [{} -> Rows] OBVIOUS
      <4>3. None \notin [{} -> Rows] BY TableAssumption
      <4> QED BY <4>1, <4>2, <4>3 DEF Exists
    <3> QED BY <3>1, <3>2
  <2> QED BY <2>1, <2>2, <1>r DEF Sound, TxSteps
<1>7. CASE Insert(p)
  <2>0. pc[p] = "insert" BY <1>7 DEF Insert
  <2>1. Exists BY <2>0, <1>r
  <2>2. PICK i \in Ids : id' = [id EXCEPT ![p] = i] /\ table' = Upsert(i, WrittenRow(p, i))
    BY <1>7, <2>1, <1>r DEF Insert
  <2>3. pc'[p] = "verify" /\ conn'[p] /\ up' = up /\ locked' = locked /\ id'[p] = i
    BY <1>7, <2>1, <2>2, <1>f, <1>r DEF Insert
  <2>4. WrittenRow(p, i) \in Rows /\ WrittenRow(p, i).t1 = p
    <3>1. i \in DOMAIN table => table[i].t2old \in BOOLEAN
      BY <2>1 DEF IInv, ServerInv, ServerOK, Rows
    <3> QED BY <3>1 DEF WrittenRow, Rows
  <2>5. Exists' /\ FindsOwnRow(p)'
    BY <2>1, <2>2, <2>3, <2>4, Written DEF Exists, FindsOwnRow, IInv
  <2> QED BY <2>3, <2>5, <1>r DEF Sound, TxSteps
<1>8. CASE Verify(p)
  <2>0. pc[p] = "verify" BY <1>8 DEF Verify
  <2>1. /\ pc'[p] = "tx_insert" /\ conn'[p] = conn[p] /\ conn[p] /\ up' = up /\ locked' = locked
        /\ table' = table
    BY <1>8, <2>0, <1>f, <1>r DEF Verify, TxSteps
  <2> QED BY <2>0, <2>1, <1>r DEF Sound, TxSteps, Exists
<1>9. CASE TxInsert(p)
  <2>0. pc[p] = "tx_insert" BY <1>9 DEF TxInsert
  <2>1. /\ pc'[p] = "tx_update" /\ conn'[p] = conn[p] /\ conn[p] /\ up' = up /\ locked' = locked
        /\ table' = table
    BY <1>9, <2>0, <1>f, <1>r DEF TxInsert, TxSteps
  <2> QED BY <2>0, <2>1, <1>r DEF Sound, TxSteps, Exists
<1>10. CASE TxUpdate(p)
  <2>0. pc[p] = "tx_update" BY <1>10 DEF TxUpdate
  <2>1. /\ pc'[p] = "tx_select" /\ conn'[p] = conn[p] /\ conn[p] /\ up' = up /\ locked' = locked
        /\ table' = table /\ tx'[p] = 0
    BY <1>10, <2>0, <1>f, <1>r DEF TxUpdate, TxSteps
  <2> QED BY <2>0, <2>1, <1>r DEF Sound, TxSteps, Exists
<1>11. CASE TxSelect(p)
  <2>0. pc[p] = "tx_select" BY <1>11 DEF TxSelect
  <2>1. /\ pc'[p] = "rollback" /\ conn'[p] = conn[p] /\ conn[p] /\ up' = up /\ locked' = locked
        /\ table' = table
    BY <1>11, <2>0, <1>f, <1>r DEF TxSelect, TxSteps
  <2> QED BY <2>0, <2>1, <1>r DEF Sound, TxSteps, Exists
<1>12. CASE Rollback(p)
  <2>0. pc[p] = "rollback" BY <1>12 DEF Rollback
  <2>1. /\ pc'[p] = "recheck" /\ conn'[p] = conn[p] /\ conn[p] /\ up' = up /\ locked' = locked
        /\ table' = table
    BY <1>12, <2>0, <1>f, <1>r DEF Rollback, TxSteps
  <2> QED BY <2>0, <2>1, <1>r DEF Sound, TxSteps, Exists
<1>13. CASE Recheck(p)
  <2>0. pc[p] = "recheck" BY <1>13 DEF Recheck
  <2>1. Exists BY <2>0, <1>r
  <2>2. rid[p] \in DOMAIN table => table[rid[p]].t1 \in Instances
    BY <2>1, Zenon DEF IInv, ServerInv, OnlyProbesCommitted
  <2>3. 0 \notin Instances BY MarkerAssumption
  <2>4. pc'[p] = "cleanup" /\ conn'[p] /\ up' = up /\ locked' = locked
    BY <1>13, <2>1, <2>2, <2>3, <1>f DEF Recheck
  <2> QED BY <2>4, <1>r DEF Sound, TxSteps
<1>14. CASE Cleanup(p)
  <2>0. pc[p] = "cleanup" BY <1>14 DEF Cleanup
  <2>1. pc'[p] \in {"count"} /\ conn'[p] = conn[p] /\ up' = up /\ locked' = locked
    BY <1>14, <1>f DEF Cleanup
  <2> QED BY <2>0, <2>1, <1>r DEF Sound, TxSteps
<1>15. CASE CountRows(p)
  <2>0. pc[p] = "count" BY <1>15 DEF CountRows
  <2>1. pc'[p] \in {"drop", "close"} /\ conn'[p] = conn[p] /\ up' = up /\ locked' = locked
    BY <1>15, <1>f DEF CountRows
  <2> QED BY <2>0, <2>1, <1>r DEF Sound, TxSteps
<1>16. CASE DropHourly(p)
  <2>0. pc[p] = "drop" BY <1>16 DEF DropHourly
  <2>1. pc'[p] \in {"close"} /\ conn'[p] = conn[p] /\ up' = up /\ locked' = locked
    BY <1>16, <1>f DEF DropHourly
  <2> QED BY <2>0, <2>1, <1>r DEF Sound, TxSteps
<1>17. CASE Close(p)
  <2>1. pc'[p] = "passed" BY <1>17, <1>f DEF Close
  <2> QED BY <2>1 DEF Sound, Running, RequiredSteps, BestEffortSteps, TxSteps
<1>18. CASE Finish(p)
  BY <1>18 DEF Finish, Verdicts, Running, RequiredSteps, BestEffortSteps, TxSteps
<1>19. CASE TimesOut(p)
  <2>1. \A q \in Instances \ {p} : tx[q] = None BY NobodyElse
  <2>2. ~Blocked(p) BY <2>1, <1>r DEF Blocked, RowLocked, TableInUse
  <2> QED BY <1>19, <2>2 DEF TimesOut
<1>20. CASE LostConnection(p)
  BY <1>20, <1>r DEF LostConnection, RequiredSteps, TxSteps
<1> QED
  BY <1>1, <1>2, <1>3, <1>4, <1>5, <1>6, <1>7, <1>8, <1>9, <1>10,
     <1>11, <1>12, <1>13, <1>14, <1>15, <1>16, <1>17, <1>18, <1>19, <1>20
     DEF CheckStep

\* One step of its own check keeps the instance's part of the invariant.
LEMMA OwnStep ==
    ASSUME AllSound, NEW p \in Instances, CheckStep(p), IInv'
    PROVE  OutcomeInv(p)'
<1>0. /\ IInv /\ OutcomeInv(p) /\ Functional /\ OthersKeep(p)
      /\ \A q \in Instances \ {p} : pc'[q] = pc[q]
  BY StepIsOwn DEF AllSound, IInv, OthersKeep
<1>1. \A q \in Instances \ {p} : Running(q)' <=> Running(q) BY <1>0 DEF Running
<1>2. CASE Begin(p)
  <2>1. /\ pc'[p] = "connect" /\ saw'[p] = {writable} /\ hurt'[p] = (~up \/ locked)
        /\ crowded'[p] = Overlapped(p) /\ up' = up /\ locked' = locked
    BY <1>0, <1>2 DEF Begin, Functional, Goto, server
  <2>2. Sound(p)' BY <2>1 DEF Sound, Trouble, Troubled, TxSteps
  <2>3. NoAlarm(p)' BY <2>1 DEF NoAlarm
  <2>4. Apart(p)' BY <1>1, <2>1 DEF Apart, Overlapped
  <2> QED BY <2>2, <2>3, <2>4 DEF OutcomeInv
<1>3. CASE Finish(p)
  <2>1. pc'[p] = "idle" BY <1>0, <1>3 DEF Finish, Forget, Functional
  <2> QED BY <2>1 DEF OutcomeInv, Apart, Sound, NoAlarm, Running, RequiredSteps, BestEffortSteps, TxSteps
<1>4. CASE /\ Running(p) /\ pc'[p] # "idle"
           /\ saw'[p] = saw[p] /\ hurt'[p] = hurt[p] /\ crowded' = crowded
           /\ up' = up /\ locked' = locked
  <2>1. Trouble(p)' <=> Trouble(p) BY <1>4 DEF Trouble, Troubled
  <2>2. Apart(p)' BY <1>0, <1>1, <1>4 DEF OutcomeInv, Apart
  <2>3. CASE Trouble(p) BY <2>1, <2>2, <2>3, Zenon DEF OutcomeInv, Sound, NoAlarm
  <2>4. CASE ~Trouble(p)
    <3>1. pc'[p] # "failed" /\ Sound(p)' BY <1>0, <1>4, <2>1, <2>4, StaysSound
    <3> QED BY <2>2, <3>1, Zenon DEF OutcomeInv, NoAlarm
  <2> QED BY <2>3, <2>4
<1> QED BY <1>0, <1>2, <1>3, <1>4, StepKinds

\* A step of another's check leaves a check alone, except that it may crowd it,
\* and always does when it begins beside it.
LEMMA OthersEffect ==
    ASSUME AllSound, NEW q \in Instances, CheckStep(q), NEW p \in Instances \ {q}
    PROVE  /\ pc'[p] = pc[p] /\ saw'[p] = saw[p] /\ hurt'[p] = hurt[p]
           /\ crowded[p] => crowded'[p]
           /\ ~Running(p) => (crowded'[p] <=> crowded[p])
           /\ Running(p) /\ ~crowded'[p] => Finish(q)
<1>0. IInv /\ Functional /\ OthersKeep(q) /\ OutcomeInv(p) BY StepIsOwn DEF AllSound, IInv
<1>1. pc'[p] = pc[p] /\ saw'[p] = saw[p] /\ hurt'[p] = hurt[p] BY <1>0 DEF OthersKeep
<1>2. crowded[p] \in BOOLEAN /\ crowded'[p] \in {crowded[p], crowded[p] \/ Running(p)}
  BY <1>0 DEF OthersKeep, IInv, InstanceInv, InstanceOK
<1>3. CASE Begin(q)
  <2>1. crowded'[p] = (crowded[p] \/ Running(p)) BY <1>3 DEF Begin
  <2>2. crowded'[p] <=> (crowded[p] \/ Running(p)) BY <2>1, Zenon
  <2> QED BY <1>1, <2>2, Zenon
<1>4. CASE Finish(q)
  <2>1. crowded'[p] = crowded[p] BY <1>0, <1>4 DEF Finish, Forget, Functional
  <2> QED BY <1>1, <1>4, <2>1
<1>5. CASE Running(q) /\ crowded' = crowded
  <2>1. Running(p) /\ ~crowded[p] => FALSE BY <1>0, <1>5 DEF OutcomeInv, Apart
  <2> QED BY <1>1, <1>5, <2>1
<1> QED BY <1>0, <1>3, <1>4, <1>5, StepKinds

\* So it keeps the other instances' parts.
LEMMA OthersStep ==
    ASSUME AllSound, NEW q \in Instances, CheckStep(q), NEW p \in Instances \ {q}
    PROVE  OutcomeInv(p)'
<1>0. IInv /\ Functional /\ OutcomeInv(p) BY DEF AllSound, IInv
<1>1. /\ pc'[p] = pc[p] /\ saw'[p] = saw[p] /\ hurt'[p] = hurt[p]
      /\ crowded[p] => crowded'[p]
      /\ ~Running(p) => (crowded'[p] <=> crowded[p])
      /\ Running(p) /\ ~crowded'[p] => Finish(q)
  BY OthersEffect
<1>2. (Running(p)' <=> Running(p)) /\ (Trouble(p) => Trouble(p)')
  BY <1>1 DEF Running, Trouble, Troubled
<1>3. NoAlarm(p)' BY <1>0, <1>1, <1>2 DEF OutcomeInv, NoAlarm
<1>4. CASE ~Running(p) \/ crowded'[p]
  <2>1. ~Running(p)' \/ Trouble(p)' BY <1>2, <1>4 DEF Trouble, Troubled
  <2>2. Apart(p)' /\ Sound(p)' BY <1>2, <1>4, <2>1, Zenon DEF Apart, Sound
  <2> QED BY <1>3, <2>2 DEF OutcomeInv
<1>5. CASE Running(p) /\ ~crowded'[p] /\ Finish(q)
  <2>1. /\ pc'[q] = "idle" /\ \A r \in Instances \ {q} : pc'[r] = pc[r]
        /\ conn'[p] = conn[p] /\ id'[p] = id[p] /\ tx'[p] = tx[p] /\ UNCHANGED server
    BY <1>0, <1>5 DEF Finish, Forget, Functional
  <2>2. \A r \in Instances : Running(r)' => Running(r)
    BY <2>1 DEF Running, RequiredSteps, BestEffortSteps, TxSteps
  <2>3. Apart(p)' BY <1>0, <1>1, <1>2, <1>5, <2>2 DEF OutcomeInv, Apart
  <2>4. crowded'[p] <=> crowded[p] BY <1>1, <1>5
  <2>5. Trouble(p)' <=> Trouble(p) BY <1>1, <2>4 DEF Trouble, Troubled
  <2>6. CASE Trouble(p) BY <1>3, <2>3, <2>5, <2>6, Zenon DEF OutcomeInv, Sound
  <2>7. CASE ~Trouble(p)
    <3>1. Sound(p)'
      BY <1>0, <1>1, <1>5, <2>1, <2>7, Relies DEF Sound, server, Exists, FindsOwnRow
    <3> QED BY <1>3, <2>3, <3>1 DEF OutcomeInv
  <2> QED BY <2>6, <2>7
<1> QED BY <1>1, <1>4, <1>5

\* A fault that cuts another's session, or its process, met a check of its own.
LEMMA CutElsewhere ==
    ASSUME AllSound, NEW q \in Instances, Break(q) \/ Crash(q), NEW p \in Instances \ {q}
    PROVE  /\ pc'[p] = pc[p] /\ saw'[p] = saw[p] /\ hurt'[p] = hurt[p] /\ crowded'[p] = crowded[p]
           /\ Running(p) => crowded[p]
<1>0. Functional /\ OutcomeInv(p) BY DEF AllSound, IInv
<1>1. Running(q) BY DEF Break, Crash
<1>2. Running(p) => crowded[p] BY <1>0, <1>1 DEF OutcomeInv, Apart
<1>3. CASE Break(q) BY <1>0, <1>2, <1>3 DEF Break, Functional, check
<1>4. CASE Crash(q) BY <1>0, <1>2, <1>4 DEF Crash, Forget, Functional
<1> QED BY <1>3, <1>4

\* A fault ends a check, or leaves it troubled, or meets none.
LEMMA FaultEffect ==
    ASSUME AllSound, Fault, NEW p \in Instances
    PROVE  \/ Crash(p)
           \/ /\ Running(p) /\ pc'[p] = pc[p] /\ saw[p] \subseteq saw'[p]
              /\ saw'[p] \subseteq BOOLEAN /\ (hurt[p] => hurt'[p])
              /\ crowded'[p] = crowded[p] /\ Trouble(p)'
           \/ /\ ~Running(p) /\ pc'[p] = pc[p] /\ saw'[p] = saw[p]
              /\ (hurt[p] <=> hurt'[p]) /\ crowded'[p] = crowded[p]
<1>0. /\ IInv /\ Functional /\ OutcomeInv(p) /\ saw[p] \subseteq BOOLEAN /\ writable \in BOOLEAN
      /\ Running(p) => writable \in saw[p]
  <2>1. IInv /\ Functional /\ OutcomeInv(p) /\ ServerInv /\ InstanceInv(p) BY DEF AllSound, IInv
  <2>2. InstanceOK(p) /\ (Running(p) => writable \in saw[p]) BY <2>1, Zenon DEF InstanceInv, Backed
  <2>3. saw[p] \subseteq BOOLEAN BY <2>2, Zenon DEF InstanceOK
  <2>4. writable \in BOOLEAN BY <2>1, Zenon DEF ServerInv, ServerOK
  <2> QED BY <2>1, <2>2, <2>3, <2>4, Zenon
<1>1. CASE \E q \in Instances \ {p} : Break(q) \/ Crash(q)
  BY <1>0, <1>1, CutElsewhere DEF Trouble, Troubled
<1>2. CASE Break(p)
  <2>1. Running(p) /\ pc'[p] = pc[p] /\ saw'[p] = saw[p] /\ hurt'[p] /\ crowded'[p] = crowded[p]
    BY <1>2, <1>0 DEF Break, Functional, check
  <2> QED BY <2>1, <1>0 DEF Trouble, Troubled
<1>3. CASE ServerStops \/ Lock
  <2>1. /\ pc'[p] = pc[p] /\ saw'[p] = saw[p] /\ hurt'[p] = (hurt[p] \/ Running(p))
        /\ crowded'[p] = crowded[p]
    BY <1>3 DEF ServerStops, Lock, HurtRunning
  <2>2. CASE Running(p) BY <2>1, <2>2, <1>0, Zenon DEF Trouble, Troubled
  <2>3. CASE ~Running(p) BY <2>1, <2>3, <1>0, Zenon
  <2> QED BY <2>2, <2>3
<1>4. CASE Failover
  <2>1. /\ pc' = pc /\ hurt' = hurt /\ crowded' = crowded /\ writable' = ~writable
        /\ saw'[p] = IF Running(p) THEN saw[p] \cup {writable'} ELSE saw[p]
    BY <1>4 DEF Failover
  <2>2. CASE Running(p)
    <3>1. FALSE \in saw'[p]
      <4>1. writable \in saw'[p] /\ writable' \in saw'[p] BY <1>0, <2>1, <2>2
      <4>2. CASE writable
        <5>1. writable' = FALSE BY <2>1, <4>2, <1>0, Zenon
        <5> QED BY <4>1, <5>1
      <4>3. CASE ~writable
        <5>1. writable = FALSE BY <4>3, <1>0, Zenon
        <5> QED BY <4>1, <5>1
      <4> QED BY <4>2, <4>3
    <3>2. saw[p] \subseteq saw'[p] BY <2>1, <2>2
    <3>3. saw'[p] \subseteq BOOLEAN
      <4>1. writable' \in BOOLEAN BY <2>1, Zenon
      <4> QED BY <1>0, <2>1, <2>2, <4>1
    <3> QED BY <2>1, <2>2, <3>1, <3>2, <3>3, Zenon DEF Trouble
  <2>3. CASE ~Running(p) BY <2>1, <2>3, Zenon
  <2> QED BY <2>2, <2>3
<1>5. CASE ServerStarts \/ Unlock \/ Age
  <2>1. pc' = pc /\ saw' = saw /\ hurt' = hurt /\ crowded' = crowded
    BY <1>5 DEF ServerStarts, Unlock, Age, history
  <2>2. CASE ~Running(p) BY <2>1, <2>2, Zenon
  <2>3. CASE Running(p)
    <3>1. ~up \/ locked BY <1>5, <2>3 DEF ServerStarts, Unlock, Age
    <3>2. Trouble(p) BY <1>0, <2>3, <3>1, Relies
    <3>3. Trouble(p)' BY <2>1, <3>2 DEF Trouble, Troubled
    <3> QED BY <1>0, <2>1, <2>3, <3>3, Zenon
  <2> QED BY <2>2, <2>3
<1>6. (\E q \in Instances : Break(q) \/ Crash(q)) =>
        \/ \E q \in Instances \ {p} : Break(q) \/ Crash(q)
        \/ Break(p) \/ Crash(p)
  OBVIOUS
<1> QED BY <1>1, <1>2, <1>3, <1>4, <1>5, <1>6, Zenon DEF Fault

\* No fault starts a check.
LEMMA NoneStarted ==
    ASSUME AllSound, Fault
    PROVE  /\ \A q \in Instances : Running(q)' => Running(q)
           /\ \A p \in Instances : Running(p) => crowded'[p] = crowded[p] \/ Crash(p)
<1>1. ASSUME NEW q \in Instances PROVE Running(q)' => Running(q)
  <2>1. CASE Crash(q)
    <3>1. pc'[q] = "idle" BY <2>1 DEF Crash, Forget, AllSound, IInv, Functional
    <3> QED BY <3>1 DEF Running, RequiredSteps, BestEffortSteps, TxSteps
  <2>2. CASE pc'[q] = pc[q] BY <2>2 DEF Running
  <2> QED BY <2>1, <2>2, FaultEffect
<1> QED BY <1>1, FaultEffect

\* A fault keeps every instance's part of the invariant.
LEMMA FaultKeeps ==
    ASSUME AllSound, Fault, NEW p \in Instances
    PROVE  OutcomeInv(p)'
<1>0. Functional /\ OutcomeInv(p) BY DEF AllSound, IInv
<1>1. CASE Crash(p)
  <2>1. pc'[p] = "idle" BY <1>0, <1>1 DEF Crash, Forget, Functional
  <2> QED BY <2>1 DEF OutcomeInv, Apart, Sound, NoAlarm, Running, RequiredSteps, BestEffortSteps, TxSteps
<1>2. CASE Running(p) /\ crowded'[p] = crowded[p] /\ Trouble(p)'
  <2>1. Apart(p)' BY <1>0, <1>2, NoneStarted DEF OutcomeInv, Apart
  <2> QED BY <1>2, <2>1, Zenon DEF OutcomeInv, Sound, NoAlarm
<1>3. CASE /\ ~Running(p) /\ pc'[p] = pc[p] /\ saw'[p] = saw[p]
           /\ (hurt[p] <=> hurt'[p]) /\ crowded'[p] = crowded[p]
  <2>1. ~Running(p)' BY <1>3 DEF Running
  <2>2. Trouble(p)' <=> Trouble(p) BY <1>3 DEF Trouble, Troubled
  <2>3. NoAlarm(p)' BY <1>0, <1>3, <2>2 DEF NoAlarm, OutcomeInv
  <2> QED BY <2>1, <2>3, Zenon DEF OutcomeInv, Apart, Sound
<1> QED BY <1>1, <1>2, <1>3, FaultEffect

\* The invariant holds throughout.
LEMMA AlwaysSound == Spec => []AllSound
<1>1. Init => AllSound
  <2> SUFFICES ASSUME Init PROVE AllSound OBVIOUS
  <2>1. ASSUME NEW p \in Instances PROVE OutcomeInv(p)
    <3>1. pc[p] = "idle" BY DEF Init
    <3> QED
      BY <3>1 DEF OutcomeInv, Apart, Sound, NoAlarm, Running, RequiredSteps, BestEffortSteps, TxSteps
  <2> QED BY <2>1, InitInv DEF AllSound
<1>2. AllSound /\ [Next]_vars => AllSound'
  <2> SUFFICES ASSUME AllSound, [Next]_vars PROVE AllSound' OBVIOUS
  <2>1. CASE \E q \in Instances : CheckStep(q)
    <3>1. PICK q \in Instances : CheckStep(q) BY <2>1
    <3>2. IInv' BY <3>1, CheckStepInv DEF AllSound
    <3> QED BY <3>1, <3>2, OwnStep, OthersStep DEF AllSound
  <2>2. CASE Fault
    <3>1. IInv' BY <2>2, FaultInv DEF AllSound
    <3> QED BY <2>2, <3>1, FaultKeeps DEF AllSound
  <2>3. CASE UNCHANGED vars
    <3>1. UNCHANGED <<kind, created, table, writable, up, locked, pc, conn, id, tx, rid,
                      topOfHour, saw, hurt, crowded>>
      BY <2>3 DEF vars, server, check, history
    <3>2. IInv'
      <4>1. ServerInv' BY <3>1 DEF AllSound, IInv, ServerInv, ServerOK, OnlyProbesCommitted, Exists
      <4>2. \A q \in Instances : InstanceInv(q)'
        BY <3>1, StillInv DEF AllSound, IInv, InstanceInv, InstanceOK
      <4> QED BY <3>1, <4>1, <4>2 DEF AllSound, IInv, Functional
    <3>3. ASSUME NEW q \in Instances PROVE OutcomeInv(q)'
      BY <3>1 DEF AllSound, OutcomeInv, Apart, Sound, NoAlarm, Running, Trouble, Troubled, Exists, FindsOwnRow
    <3> QED BY <3>2, <3>3 DEF AllSound
  <2> QED BY <2>1, <2>2, <2>3 DEF Next
<1> QED BY <1>1, <1>2, PTL DEF Spec

-----------------------------------------------------------------------------

\* No instance raises a false alarm, however many share the database: a check
\* fails only if a fault met it, the server was read-only at some time of it, or
\* another instance's check ran beside it, whatever the range, the limits and the
\* points where earlier checks were cut.
THEOREM NoFalseAlarm == Spec => []FailsForAReason
<1>1. AllSound => FailsForAReason
  BY DEF AllSound, OutcomeInv, NoAlarm, Trouble, FailsForAReason
<1> QED BY <1>1, AlwaysSound, PTL

\* What README.md:69 claims of instances that share a database, and the run
\* check_conflict refutes, holds of an instance that has one to itself.
THEOREM IndependentAlone ==
    ASSUME NEW p \in Instances, Instances = {p}
    PROVE  Spec => []InstancesIndependent
<1> DEFINE Uncrowded == ~crowded[p]
<1>1. Init => Uncrowded BY DEF Init
<1>2. AllSound /\ Uncrowded /\ [Next]_vars => Uncrowded'
  <2> SUFFICES ASSUME AllSound, Uncrowded, [Next]_vars PROVE Uncrowded' OBVIOUS
  <2>0. Functional BY DEF AllSound, IInv
  <2>1. CASE CheckStep(p)
    <3>1. CASE Begin(p)
      <4>1. crowded'[p] = Overlapped(p) BY <3>1 DEF Begin
      <4> QED BY <4>1 DEF Overlapped
    <3>2. CASE Finish(p) BY <2>0, <3>2 DEF Finish, Forget, Functional
    <3>3. CASE crowded' = crowded BY <3>3
    <3> QED BY <2>0, <2>1, <3>1, <3>2, <3>3, StepKinds
  <2>2. CASE Fault
    <3>1. CASE Crash(p) BY <2>0, <3>1 DEF Crash, Forget, Functional
    <3>2. CASE crowded'[p] = crowded[p] BY <3>2
    <3> QED BY <2>2, <3>1, <3>2, FaultEffect
  <2>3. CASE UNCHANGED vars BY <2>3 DEF vars, history
  <2> QED BY <2>1, <2>2, <2>3 DEF Next
<1>3. AllSound /\ Uncrowded => InstancesIndependent
  BY DEF AllSound, OutcomeInv, NoAlarm, Trouble, Troubled, InstancesIndependent
<1> HIDE DEF Uncrowded
<1> QED BY <1>1, <1>2, <1>3, AlwaysSound, PTL DEF Spec

-----------------------------------------------------------------------------
(* The refinement: phase and met as functions of an instance's variables.  *)

Contract(p) == INSTANCE CheckOutcome WITH phase <- PhaseOf(p), met <- MetOf(p)

\* The verdict a step reaches is backed by what the check met.
LEMMA VerdictIsBacked ==
    ASSUME AllSound', NEW p \in Instances, pc'[p] \in Verdicts
    PROVE  Contract(p)!Backs(MetOf(p)', pc'[p])
<1>1. InstanceInv(p)' /\ NoAlarm(p)' BY DEF AllSound, IInv, OutcomeInv
<1>2. pc'[p] # "idle" BY DEF Verdicts
<1>3. CASE pc'[p] = "passed"
  <2>1. TRUE \in saw'[p] BY <1>1, <1>3 DEF InstanceInv, Backed, AfterMode
  <2>2. "writable" \in MetOf(p)' BY <1>2, <2>1 DEF MetOf
  <2> QED BY <1>3, <2>2 DEF Contract!Backs
<1>4. CASE pc'[p] = "readonly"
  <2>1. FALSE \in saw'[p] BY <1>1, <1>4 DEF InstanceInv, Backed
  <2>2. "readonly" \in MetOf(p)' BY <1>2, <2>1 DEF MetOf
  <2> QED BY <1>4, <2>2 DEF Contract!Backs
<1>5. CASE pc'[p] = "failed"
  <2>1. Troubled(p)' \/ FALSE \in saw'[p] BY <1>1, <1>5 DEF NoAlarm, Trouble
  <2>2. CASE Troubled(p)'
    <3>1. "trouble" \in MetOf(p)' BY <1>2, <2>2 DEF MetOf
    <3>2. MetOf(p)' # {"writable"} BY <3>1
    <3> QED BY <1>5, <3>2 DEF Contract!Backs
  <2>3. CASE FALSE \in saw'[p]
    <3>1. "readonly" \in MetOf(p)' BY <1>2, <2>3 DEF MetOf
    <3>2. MetOf(p)' # {"writable"} BY <3>1
    <3> QED BY <1>5, <3>2 DEF Contract!Backs
  <2> QED BY <2>1, <2>2, <2>3
<1> QED BY <1>3, <1>4, <1>5 DEF Verdicts

\* A step of its check is a step of the contract, or changes nothing of it.
LEMMA OwnStepRefines ==
    ASSUME AllSound, AllSound', NEW p \in Instances, CheckStep(p)
    PROVE  Contract(p)!Next \/ UNCHANGED <<PhaseOf(p), MetOf(p)>>
<1>1. Functional /\ InstanceInv(p)' BY DEF AllSound, IInv
<1>2. CASE Begin(p)
  <2>1. pc[p] = "idle" /\ pc'[p] = "connect" BY <1>1, <1>2 DEF Begin, Goto, Functional
  <2>2. PhaseOf(p) = "idle" /\ PhaseOf(p)' = "running"
    BY <2>1 DEF PhaseOf, Running, RequiredSteps, BestEffortSteps, TxSteps
  <2>3. MetOf(p)' \in SUBSET Contract(p)!Encounters BY DEF MetOf, Contract!Encounters
  <2>4. Contract(p)!Begin BY <2>2, <2>3 DEF Contract!Begin
  <2> QED BY <2>4 DEF Contract!Next
<1>3. CASE Finish(p)
  <2>1. pc[p] \in Verdicts /\ pc'[p] = "idle" BY <1>1, <1>3 DEF Finish, Forget, Functional
  <2>2. PhaseOf(p) \in Verdicts /\ PhaseOf(p)' = "idle" /\ MetOf(p)' = {}
    BY <2>1 DEF PhaseOf, MetOf, Running, Verdicts, RequiredSteps, BestEffortSteps, TxSteps
  <2>3. Contract(p)!Record BY <2>2 DEF Contract!Record, Contract!Verdicts, Verdicts
  <2> QED BY <2>3 DEF Contract!Next
<1>4. CASE /\ Running(p) /\ pc'[p] # "idle"
           /\ saw'[p] = saw[p] /\ hurt'[p] = hurt[p] /\ crowded' = crowded
  <2>1. pc[p] # "idle" BY <1>4 DEF Running, RequiredSteps, BestEffortSteps, TxSteps
  <2>2. MetOf(p)' = MetOf(p) BY <1>4, <2>1 DEF MetOf, Troubled
  <2>3. PhaseOf(p) = "running" BY <1>4 DEF PhaseOf
  <2>4. CASE Running(p)' BY <2>2, <2>3, <2>4 DEF PhaseOf
  <2>5. CASE ~Running(p)'
    <3>1. pc'[p] \in Verdicts /\ PhaseOf(p)' = pc'[p]
      BY <1>1, <1>4, <2>5 DEF InstanceInv, InstanceOK, PhaseOf
    <3>2. Contract(p)!Backs(MetOf(p)', pc'[p]) BY <3>1, VerdictIsBacked
    <3>3. Contract(p)!Conclude
      BY <2>2, <2>3, <3>1, <3>2 DEF Contract!Conclude, Contract!Verdicts, Verdicts
    <3> QED BY <3>3 DEF Contract!Next
  <2> QED BY <2>4, <2>5
<1> QED BY <1>1, <1>2, <1>3, <1>4, StepKinds

\* Another's check is at most one more thing it meets.
LEMMA OthersStepRefines ==
    ASSUME AllSound, NEW q \in Instances, CheckStep(q), NEW p \in Instances \ {q}
    PROVE  Contract(p)!Next \/ UNCHANGED <<PhaseOf(p), MetOf(p)>>
<1>1. /\ pc'[p] = pc[p] /\ saw'[p] = saw[p] /\ hurt'[p] = hurt[p]
      /\ crowded[p] => crowded'[p]
      /\ ~Running(p) => (crowded'[p] <=> crowded[p])
  BY OthersEffect
<1>2. PhaseOf(p)' = PhaseOf(p) BY <1>1 DEF PhaseOf, Running
<1>3. CASE ~Running(p)
  <2>1. MetOf(p)' = MetOf(p) BY <1>1, <1>3 DEF MetOf, Troubled
  <2> QED BY <1>2, <2>1
<1>4. CASE Running(p)
  <2>1. PhaseOf(p) = "running" BY <1>4 DEF PhaseOf
  <2>2. MetOf(p) \subseteq MetOf(p)' BY <1>1 DEF MetOf, Troubled
  <2>3. MetOf(p)' \subseteq Contract(p)!Encounters BY DEF MetOf, Contract!Encounters
  <2>4. Contract(p)!Meet BY <1>2, <2>1, <2>2, <2>3 DEF Contract!Meet
  <2> QED BY <2>4 DEF Contract!Next
<1> QED BY <1>3, <1>4

\* So is a fault, or the end of the check.
LEMMA FaultRefines ==
    ASSUME AllSound, Fault, NEW p \in Instances
    PROVE  Contract(p)!Next \/ UNCHANGED <<PhaseOf(p), MetOf(p)>>
<1>1. Functional BY DEF AllSound, IInv
<1>2. CASE Crash(p)
  <2>1. Running(p) /\ pc'[p] = "idle" BY <1>1, <1>2 DEF Crash, Forget, Functional
  <2>2. PhaseOf(p) = "running" /\ PhaseOf(p)' = "idle" /\ MetOf(p)' = {}
    BY <2>1 DEF PhaseOf, MetOf, Running, RequiredSteps, BestEffortSteps, TxSteps
  <2>3. Contract(p)!Abandon BY <2>2 DEF Contract!Abandon
  <2> QED BY <2>3 DEF Contract!Next
<1>3. CASE /\ Running(p) /\ pc'[p] = pc[p] /\ saw[p] \subseteq saw'[p]
           /\ (hurt[p] => hurt'[p]) /\ crowded'[p] = crowded[p]
  <2>1. PhaseOf(p) = "running" /\ PhaseOf(p)' = "running" BY <1>3 DEF PhaseOf, Running
  <2>2. MetOf(p) \subseteq MetOf(p)' BY <1>3 DEF MetOf, Troubled
  <2>3. MetOf(p)' \subseteq Contract(p)!Encounters BY DEF MetOf, Contract!Encounters
  <2>4. Contract(p)!Meet BY <2>1, <2>2, <2>3 DEF Contract!Meet
  <2> QED BY <2>4 DEF Contract!Next
<1>4. CASE /\ pc'[p] = pc[p] /\ saw'[p] = saw[p]
           /\ (hurt[p] <=> hurt'[p]) /\ crowded'[p] = crowded[p]
  <2>1. PhaseOf(p)' = PhaseOf(p) BY <1>4 DEF PhaseOf, Running
  <2>2. MetOf(p)' = MetOf(p) BY <1>4 DEF MetOf, Troubled
  <2> QED BY <2>1, <2>2
<1> QED BY <1>2, <1>3, <1>4, FaultEffect

\* The checks of every instance keep the contract PulseLoop builds on, however
\* many share the database: one verdict per check, backed by what that check met,
\* with nothing of an earlier one in it.  (That a verdict is recorded at last is
\* left to the run.)
THEOREM ContractKept ==
    ASSUME NEW p \in Instances
    PROVE  Spec => Contract(p)!Safe
<1>1. Init => Contract(p)!Init
  BY DEF Init, Contract!Init, PhaseOf, MetOf, Running, RequiredSteps, BestEffortSteps, TxSteps
<1>2. AllSound /\ AllSound' /\ [Next]_vars => [Contract(p)!Next]_(Contract(p)!ovars)
  <2> SUFFICES ASSUME AllSound, AllSound', [Next]_vars
               PROVE  Contract(p)!Next \/ UNCHANGED <<PhaseOf(p), MetOf(p)>>
    BY DEF Contract!ovars
  <2>1. CASE \E q \in Instances : CheckStep(q)
    <3>1. PICK q \in Instances : CheckStep(q) BY <2>1
    <3> QED BY <3>1, OwnStepRefines, OthersStepRefines
  <2>2. CASE Fault BY <2>2, FaultRefines
  <2>3. CASE UNCHANGED vars
    <3>1. pc' = pc /\ saw' = saw /\ hurt' = hurt /\ crowded' = crowded
      BY <2>3 DEF vars, history
    <3> QED BY <3>1 DEF PhaseOf, MetOf, Running, Troubled
  <2> QED BY <2>1, <2>2, <2>3 DEF Next
<1> QED BY <1>1, <1>2, AlwaysSound, PTL DEF Spec, Contract!Safe

\* In particular those of the instance that the runs look at.
THEOREM WatchedContract ==
    ASSUME Instances # {}
    PROVE  Spec => Outcome!Safe
<1>1. Watched \in Instances BY DEF Watched
<1>2. Spec => Contract(Watched)!Safe BY <1>1, ContractKept
<1>3. Contract(Watched)!Init => Outcome!Init BY DEF Contract!Init, Outcome!Init
<1>4. [Contract(Watched)!Next]_(Contract(Watched)!ovars) => [Outcome!Next]_(Outcome!ovars)
  <2>1. Contract(Watched)!Next => Outcome!Next
    BY DEF Contract!Next, Contract!Begin, Contract!Meet, Contract!Conclude, Contract!Record,
           Contract!Abandon, Contract!Backs, Contract!Encounters, Contract!Verdicts,
           Outcome!Next, Outcome!Begin, Outcome!Meet, Outcome!Conclude, Outcome!Record,
           Outcome!Abandon, Outcome!Backs, Outcome!Encounters, Outcome!Verdicts
  <2> QED BY <2>1 DEF Contract!ovars, Outcome!ovars
<1> QED BY <1>2, <1>3, <1>4, PTL DEF Contract!Safe, Outcome!Safe
=============================================================================
