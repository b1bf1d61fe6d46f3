-------------------------- MODULE HealthCheckProofs --------------------------
(***************************************************************************)
(* Theorems about HealthCheck, for every number of instances, every range, *)
(* every limit and every set of faults.                                    *)
(***************************************************************************)
EXTENDS HealthCheck, TLAPS

\* The variables of the instances are functions on them.
Functional ==
    /\ DOMAIN pc = Instances /\ DOMAIN conn = Instances /\ DOMAIN id = Instances
    /\ DOMAIN tx = Instances /\ DOMAIN rid = Instances /\ DOMAIN topOfHour = Instances
    /\ DOMAIN saw = Instances /\ DOMAIN hurt = Instances /\ DOMAIN crowded = Instances

\* The statements that come after the server was asked whether it takes writes.
AfterMode == (RequiredSteps \ {"session", "mode"}) \cup BestEffortSteps \cup {"passed"}

\* What a check has seen of the server backs its place.
Backed(p) ==
    /\ Running(p) => writable \in saw[p]
    /\ pc[p] \in AfterMode => TRUE \in saw[p]
    /\ pc[p] = "readonly" => FALSE \in saw[p]

InstanceInv(p) == InstanceOK(p) /\ Backed(p)
ServerInv      == ServerOK /\ OnlyProbesCommitted
IInv           == Functional /\ ServerInv /\ \A p \in Instances : InstanceInv(p)

Places == {"idle", "connect", "create_db"} \cup RequiredSteps \cup BestEffortSteps \cup Verdicts

\* A step of p that only moves it.
Moves(p) ==
    /\ conn'[p] = conn[p] /\ id'[p] = id[p] /\ tx'[p] = tx[p] /\ rid'[p] = rid[p]
    /\ topOfHour'[p] = topOfHour[p] /\ saw'[p] = saw[p] /\ hurt'[p] = hurt[p]
    /\ crowded'[p] = crowded[p] /\ writable' = writable

\* What a step of p leaves to the others.
OthersKeep(p) ==
    /\ Functional'
    /\ \A q \in Instances \ {p} :
          /\ pc'[q] = pc[q] /\ conn'[q] = conn[q] /\ id'[q] = id[q] /\ tx'[q] = tx[q]
          /\ rid'[q] = rid[q] /\ topOfHour'[q] = topOfHour[q]
          /\ saw'[q] = saw[q] /\ hurt'[q] = hurt[q]
          /\ crowded'[q] \in {crowded[q], crowded[q] \/ Running(q)}

\* A step of one instance's check leaves the others' checks, and whether the server
\* takes writes, as they are.
LEMMA StepIsOwn ==
    ASSUME Functional, NEW p \in Instances, CheckStep(p)
    PROVE  OthersKeep(p) /\ writable' = writable
<1> USE DEF Functional, OthersKeep, server, check, history, Goto, Fail
<1>1. CASE Begin(p) BY <1>1 DEF Begin
<1>2. CASE Connect(p) BY <1>2 DEF Connect
<1>3. CASE CreateDatabase(p) BY <1>3 DEF CreateDatabase
<1>4. CASE SetUpSession(p) BY <1>4 DEF SetUpSession
<1>5. CASE AskMode(p) BY <1>5 DEF AskMode
<1>6. CASE EnsureTable(p) BY <1>6 DEF EnsureTable
<1>7. CASE Insert(p) BY <1>7 DEF Insert
<1>8. CASE Verify(p) BY <1>8 DEF Verify
<1>9. CASE TxInsert(p) BY <1>9 DEF TxInsert
<1>10. CASE TxUpdate(p) BY <1>10 DEF TxUpdate
<1>11. CASE TxSelect(p) BY <1>11 DEF TxSelect
<1>12. CASE Rollback(p) BY <1>12 DEF Rollback
<1>13. CASE Recheck(p) BY <1>13 DEF Recheck
<1>14. CASE Cleanup(p) BY <1>14 DEF Cleanup
<1>15. CASE CountRows(p) BY <1>15 DEF CountRows
<1>16. CASE DropHourly(p) BY <1>16 DEF DropHourly
<1>17. CASE Close(p) BY <1>17 DEF Close
<1>18. CASE Finish(p) BY <1>18 DEF Finish, Forget
<1>19. CASE TimesOut(p) BY <1>19 DEF TimesOut
<1>20. CASE LostConnection(p) BY <1>20 DEF LostConnection
<1> QED
  BY <1>1, <1>2, <1>3, <1>4, <1>5, <1>6, <1>7, <1>8, <1>9, <1>10,
     <1>11, <1>12, <1>13, <1>14, <1>15, <1>16, <1>17, <1>18, <1>19, <1>20
     DEF CheckStep

\* A step of a check keeps the server's part of the invariant: only the write
\* test changes a row, and it writes its own.
LEMMA StepKeepsServer ==
    ASSUME ServerInv, NEW p \in Instances, id[p] \in Ids, CheckStep(p)
    PROVE  ServerInv'
<1> USE CheckNoneAssumption, RangeAssumption
    DEF ServerInv, ServerOK, OnlyProbesCommitted, Exists, server, check, history, Ids, Rows
<1>1. CASE Begin(p) BY <1>1 DEF Begin
<1>2. CASE Connect(p) BY <1>2 DEF Connect
<1>3. CASE CreateDatabase(p) BY <1>3 DEF CreateDatabase
<1>4. CASE SetUpSession(p) BY <1>4 DEF SetUpSession
<1>5. CASE AskMode(p) BY <1>5 DEF AskMode
<1>6. CASE EnsureTable(p) BY <1>6 DEF EnsureTable
<1>7. CASE Insert(p)
  <2>1. CASE UNCHANGED table BY <1>7, <2>1 DEF Insert
  <2>2. CASE Exists /\ \E i \in Ids : table' = Upsert(i, WrittenRow(p, i))
    <3>1. PICK i \in Ids : table' = Upsert(i, WrittenRow(p, i)) BY <2>2
    <3>2. WrittenRow(p, i) \in Rows /\ WrittenRow(p, i).t1 = p
      BY <2>2, <3>1 DEF WrittenRow
    <3>3. /\ DOMAIN table' = DOMAIN table \cup {i}
          /\ \A j \in DOMAIN table' : table'[j] = IF j = i THEN WrittenRow(p, i) ELSE table[j]
      BY <3>1 DEF Upsert
    <3> QED BY <1>7, <2>2, <3>2, <3>3 DEF Insert
  <2> QED BY <1>7, <2>1, <2>2 DEF Insert
<1>8. CASE Verify(p) BY <1>8 DEF Verify
<1>9. CASE TxInsert(p) BY <1>9 DEF TxInsert
<1>10. CASE TxUpdate(p) BY <1>10 DEF TxUpdate
<1>11. CASE TxSelect(p) BY <1>11 DEF TxSelect
<1>12. CASE Rollback(p) BY <1>12 DEF Rollback
<1>13. CASE Recheck(p) BY <1>13 DEF Recheck
<1>14. CASE Cleanup(p)
  <2>1. CASE UNCHANGED table BY <1>14, <2>1 DEF Cleanup
  <2>2. CASE \E gone \in SUBSET OldRows : table' = [i \in DOMAIN table \ gone |-> table[i]]
    <3>1. PICK gone \in SUBSET OldRows : table' = [i \in DOMAIN table \ gone |-> table[i]]
      BY <2>2
    <3>2. /\ DOMAIN table' \subseteq DOMAIN table
          /\ \A j \in DOMAIN table' : table'[j] = table[j]
      BY <3>1
    <3> QED BY <1>14, <2>2, <3>2 DEF Cleanup
  <2>3. UNCHANGED table \/ \E gone \in SUBSET OldRows : table' = [i \in DOMAIN table \ gone |-> table[i]]
    <3>1. CASE conn[p] /\ writable /\ Exists BY <1>14, <3>1, Zenon DEF Cleanup
    <3>2. CASE ~(conn[p] /\ writable /\ Exists) BY <1>14, <3>2, Zenon DEF Cleanup
    <3> QED BY <3>1, <3>2
  <2> QED BY <1>14, <2>1, <2>2, <2>3 DEF Cleanup
<1>15. CASE CountRows(p) BY <1>15 DEF CountRows
<1>16. CASE DropHourly(p) BY <1>16 DEF DropHourly
<1>17. CASE Close(p) BY <1>17 DEF Close
<1>18. CASE Finish(p) BY <1>18 DEF Finish, Forget
<1>19. CASE TimesOut(p) BY <1>19 DEF TimesOut
<1>20. CASE LostConnection(p) BY <1>20 DEF LostConnection
<1> QED
  BY <1>1, <1>2, <1>3, <1>4, <1>5, <1>6, <1>7, <1>8, <1>9, <1>10,
     <1>11, <1>12, <1>13, <1>14, <1>15, <1>16, <1>17, <1>18, <1>19, <1>20
     DEF CheckStep

\* What a statement leaves alone in any case.
Steady(p) ==
    /\ topOfHour'[p] = topOfHour[p] /\ saw'[p] = saw[p] /\ hurt'[p] = hurt[p]
    /\ crowded'[p] = crowded[p] /\ writable' = writable

\* The types of what it may change.
Typed(p) ==
    /\ conn'[p] \in BOOLEAN /\ id'[p] \in Ids /\ rid'[p] \in RollbackIds \cup {0}
    /\ tx'[p] \in {None, 999, 0}
    /\ tx'[p] # None => pc'[p] \in TxSteps /\ conn'[p]

\* A running check keeps its part of the invariant when what it has seen is left
\* alone, and the place it reaches has its conditions.
LEMMA Reaches ==
    ASSUME NEW p \in Instances, InstanceInv(p), Running(p), Steady(p), Typed(p),
           pc'[p] \in Places,
           pc'[p] \in AfterMode => TRUE \in saw[p],
           pc'[p] = "readonly" => FALSE \in saw[p]
    PROVE  InstanceInv(p)'
<1>1. InstanceOK(p)' BY DEF InstanceInv, InstanceOK, Places, Running, Steady, Typed
<1>2. Backed(p)' BY DEF InstanceInv, Backed, Running, Steady
<1> QED BY <1>1, <1>2 DEF InstanceInv

\* Before the server is asked, a check has seen what it must have.
LEMMA Starts ==
    ASSUME NEW p \in Instances, InstanceInv(p), Steady(p), Typed(p),
           pc[p] \in {"connect", "create_db", "session"},
           pc'[p] \in {"create_db", "session", "mode", "failed"}
    PROVE  InstanceInv(p)'
<1>1. Running(p) BY DEF Running, RequiredSteps
<1>2. pc'[p] \in Places BY DEF Places, RequiredSteps, Verdicts
<1>3. pc'[p] \notin AfterMode /\ pc'[p] # "readonly"
  BY DEF AfterMode, RequiredSteps, BestEffortSteps, TxSteps
<1> QED BY <1>1, <1>2, <1>3, Reaches

\* Once it was asked, the check goes on with what it has seen.
LEMMA GoesOn ==
    ASSUME NEW p \in Instances, InstanceInv(p), Steady(p), Typed(p),
           pc[p] \in AfterMode \ {"passed"},
           pc'[p] \in AfterMode \cup {"failed"}
    PROVE  InstanceInv(p)'
<1>1. Running(p) BY DEF Running, AfterMode
<1>2. TRUE \in saw[p] BY DEF InstanceInv, Backed
<1>3. pc'[p] \in Places /\ pc'[p] # "readonly"
  BY DEF Places, AfterMode, RequiredSteps, BestEffortSteps, Verdicts, TxSteps
<1> QED BY <1>1, <1>2, <1>3, Reaches

\* A step that only moves a check without an open transaction is typed.
LEMMA MovesTyped ==
    ASSUME NEW p \in Instances, InstanceInv(p), Moves(p), tx[p] = None
    PROVE  Steady(p) /\ Typed(p)
BY DEF Moves, Steady, Typed, InstanceInv, InstanceOK

\* A check with no open transaction may move on after the server was asked.
LEMMA MovesOn ==
    ASSUME NEW p \in Instances, InstanceInv(p), Moves(p),
           pc[p] \in AfterMode \ {"passed"}, tx[p] = None,
           pc'[p] \in AfterMode \cup {"failed"}
    PROVE  InstanceInv(p)'
BY MovesTyped, GoesOn

\* No transaction is open outside of the rollback test.
LEMMA NoneOpen ==
    ASSUME NEW p \in Instances, InstanceInv(p), pc[p] \notin TxSteps
    PROVE  tx[p] = None
BY DEF InstanceInv, InstanceOK

\* A check that is recorded, or dies, leaves nothing.
LEMMA Forgotten ==
    ASSUME Functional, NEW p \in Instances, NEW h \in BOOLEAN, Forget(p, h)
    PROVE  InstanceInv(p)' /\ OthersKeep(p)
<1>1. /\ pc'[p] = "idle" /\ conn'[p] = FALSE /\ tx'[p] = None /\ topOfHour'[p] = FALSE
      /\ id'[p] = 0 /\ rid'[p] = 0 /\ saw'[p] = {} /\ hurt'[p] = h
      /\ crowded'[p] = FALSE
  BY DEF Forget, Functional
<1>2. OthersKeep(p) BY DEF Forget, Functional, OthersKeep
<1>3. InstanceOK(p)'
  <2>1. /\ conn'[p] \in BOOLEAN /\ topOfHour'[p] \in BOOLEAN
        /\ hurt'[p] \in BOOLEAN /\ crowded'[p] \in BOOLEAN
    BY <1>1, Zenon
  <2>2. id'[p] \in Ids BY <1>1, RangeAssumption DEF Ids
  <2> QED BY <1>1, <2>1, <2>2 DEF InstanceOK
<1>4. Backed(p)'
  BY <1>1 DEF Backed, Running, AfterMode, RequiredSteps, BestEffortSteps, TxSteps
<1> QED BY <1>2, <1>3, <1>4 DEF InstanceInv

\* A step of a check keeps its own part: its variables stay in their types, its
\* transaction is open only in the rollback test, and what it goes on with is
\* backed by what it has seen.
LEMMA StepKeepsInstance ==
    ASSUME Functional, ServerInv, NEW p \in Instances, InstanceInv(p), CheckStep(p)
    PROVE  InstanceInv(p)'
<1> USE CheckNoneAssumption, RangeAssumption
<1>0. /\ (writable => TRUE \in {writable}) /\ (~writable => FALSE \in {writable})
      /\ writable \in BOOLEAN
  BY Zenon DEF ServerInv, ServerOK
<1>a. /\ conn[p] \in BOOLEAN /\ id[p] \in Ids /\ rid[p] \in RollbackIds \cup {0}
      /\ tx[p] \in {None, 999, 0} /\ (tx[p] # None => pc[p] \in TxSteps /\ conn[p])
  BY DEF InstanceInv, InstanceOK
<1>b. /\ Running(p) => writable \in saw[p]
      /\ pc[p] \in AfterMode => TRUE \in saw[p]
  BY DEF InstanceInv, Backed
<1>1. CASE Begin(p)
  <2>1. /\ pc[p] = "idle" /\ pc'[p] = "connect" /\ topOfHour'[p] \in BOOLEAN
        /\ saw'[p] = {writable} /\ writable' = writable
        /\ hurt'[p] \in BOOLEAN /\ crowded'[p] = Overlapped(p)
        /\ conn'[p] = conn[p] /\ tx'[p] = tx[p] /\ id'[p] = id[p] /\ rid'[p] = rid[p]
    BY <1>1 DEF Begin, Functional, Goto, server
  <2>2. tx[p] = None BY <2>1, NoneOpen DEF TxSteps
  <2>a. crowded'[p] \in BOOLEAN
    <3>1. Overlapped(p) \in BOOLEAN BY Zenon DEF Overlapped
    <3> QED BY <2>1, <3>1, Zenon
  <2>3. InstanceOK(p)'
    BY <2>1, <2>2, <2>a, <1>0, <1>a DEF InstanceOK, Running
  <2>4. Backed(p)' BY <2>1 DEF TxSteps, RequiredSteps, BestEffortSteps, AfterMode, Verdicts, Places, Backed
  <2> QED BY <2>3, <2>4 DEF InstanceInv
<1>2. CASE Connect(p)
  <2>1. /\ pc[p] = "connect" /\ pc'[p] \in {"failed", "session", "create_db"} /\ conn'[p] \in BOOLEAN
        /\ id'[p] = id[p] /\ tx'[p] = tx[p] /\ rid'[p] = rid[p] /\ topOfHour'[p] = topOfHour[p]
        /\ saw'[p] = saw[p] /\ hurt'[p] = hurt[p] /\ crowded'[p] = crowded[p]
        /\ writable' = writable
    BY <1>2 DEF Connect, Functional, Goto, check, history, server
  <2>2. tx[p] = None BY <2>1, NoneOpen DEF TxSteps
  <2>3. Steady(p) /\ Typed(p) BY <2>1, <2>2, <1>a DEF Steady, Typed
  <2> QED BY <2>1, <2>3, Starts
<1>3. CASE CreateDatabase(p)
  <2>1. /\ pc[p] = "create_db" /\ pc'[p] \in {"session", "failed"} /\ conn'[p] \in BOOLEAN
        /\ id'[p] = id[p] /\ tx'[p] = tx[p] /\ rid'[p] = rid[p] /\ topOfHour'[p] = topOfHour[p]
        /\ saw'[p] = saw[p] /\ hurt'[p] = hurt[p] /\ crowded'[p] = crowded[p]
        /\ writable' = writable
    BY <1>3 DEF CreateDatabase, Functional, Goto, check, history, server
  <2>2. tx[p] = None BY <2>1, NoneOpen DEF TxSteps
  <2>3. Steady(p) /\ Typed(p) BY <2>1, <2>2, <1>a DEF Steady, Typed
  <2> QED BY <2>1, <2>3, Starts
<1>4. CASE SetUpSession(p)
  <2>1. Moves(p) /\ pc[p] = "session" /\ pc'[p] = "mode"
    BY <1>4 DEF SetUpSession, Functional, Moves, check, history, server, Goto
  <2>2. tx[p] = None BY <2>1, NoneOpen DEF TxSteps
  <2> QED BY <2>1, <2>2, MovesTyped, Starts
<1>5. CASE AskMode(p)
  <2>1. Moves(p) /\ pc[p] = "mode" /\ pc'[p] = IF writable THEN "ensure" ELSE "readonly"
    BY <1>5 DEF AskMode, Functional, Moves, check, history, server, Goto
  <2>2. tx[p] = None BY <2>1, NoneOpen DEF TxSteps
  <2>3. Running(p) BY <2>1 DEF Running, RequiredSteps
  <2>4. (writable => TRUE \in saw[p]) /\ (~writable => FALSE \in saw[p])
    BY <2>3, <1>0, <1>b, Zenon
  <2>5. pc'[p] \in Places BY <2>1 DEF Places, RequiredSteps, Verdicts
  <2>6. writable => pc'[p] # "readonly" BY <2>1
  <2>7. ~writable => pc'[p] \notin AfterMode
    BY <2>1 DEF AfterMode, RequiredSteps, BestEffortSteps, TxSteps
  <2> QED BY <2>1, <2>2, <2>3, <2>4, <2>5, <2>6, <2>7, MovesTyped, Reaches
<1>6. CASE EnsureTable(p)
  <2>1. Moves(p) /\ pc[p] = "ensure" /\ pc'[p] \in {"insert", "failed"}
    BY <1>6 DEF EnsureTable, Functional, Moves, check, history, server, Goto
  <2> QED BY <2>1, <1>a, MovesOn DEF TxSteps, RequiredSteps, BestEffortSteps, AfterMode, Verdicts, Places
<1>7. CASE Insert(p)
  <2>1. /\ pc[p] = "insert" /\ pc'[p] \in {"verify", "failed"} /\ id'[p] \in Ids \cup {id[p]}
        /\ conn'[p] = conn[p] /\ tx'[p] = tx[p] /\ rid'[p] = rid[p] /\ topOfHour'[p] = topOfHour[p]
        /\ saw'[p] = saw[p] /\ hurt'[p] = hurt[p] /\ crowded'[p] = crowded[p]
        /\ writable' = writable
    BY <1>7 DEF Insert, Functional, Fail, history
  <2>2. tx[p] = None BY <2>1, NoneOpen DEF TxSteps
  <2>3. Steady(p) /\ Typed(p) BY <2>1, <2>2, <1>a, CheckNoneAssumption DEF Steady, Typed, TxSteps
  <2>4. pc[p] \in AfterMode \ {"passed"} /\ pc'[p] \in AfterMode \cup {"failed"}
    BY <2>1 DEF AfterMode, RequiredSteps, BestEffortSteps, TxSteps
  <2> QED BY <2>3, <2>4, GoesOn
<1>8. CASE Verify(p)
  <2>1. Moves(p) /\ pc[p] = "verify" /\ pc'[p] \in {"tx_insert", "failed"}
    BY <1>8 DEF Verify, Functional, Moves, check, history, server, Goto
  <2> QED BY <2>1, <1>a, MovesOn DEF TxSteps, RequiredSteps, BestEffortSteps, AfterMode, Verdicts, Places
<1>9. CASE TxInsert(p)
  <2>1. /\ pc[p] = "tx_insert" /\ conn[p]
        /\ \/ pc'[p] = "tx_update" /\ tx'[p] = 999
           \/ pc'[p] = "failed" /\ tx'[p] = tx[p]
        /\ rid'[p] \in RollbackIds \cup {rid[p]}
        /\ conn'[p] = conn[p] /\ id'[p] = id[p] /\ topOfHour'[p] = topOfHour[p]
        /\ saw'[p] = saw[p] /\ hurt'[p] = hurt[p] /\ crowded'[p] = crowded[p]
        /\ writable' = writable
    BY <1>9 DEF TxInsert, Functional, Fail, history, server
  <2>2. tx[p] = None BY <2>1, NoneOpen DEF TxSteps
  <2>3. Steady(p) /\ Typed(p) BY <2>1, <2>2, <1>a, CheckNoneAssumption DEF Steady, Typed, TxSteps
  <2>4. pc[p] \in AfterMode \ {"passed"} /\ pc'[p] \in AfterMode \cup {"failed"}
    BY <2>1 DEF AfterMode, RequiredSteps, BestEffortSteps, TxSteps
  <2> QED BY <2>3, <2>4, GoesOn
<1>10. CASE TxUpdate(p)
  <2>1. /\ pc[p] = "tx_update" /\ conn[p]
        /\ \/ pc'[p] = "tx_select" /\ tx'[p] = 0
           \/ pc'[p] = "failed" /\ tx'[p] = None
        /\ conn'[p] = conn[p] /\ id'[p] = id[p] /\ rid'[p] = rid[p] /\ topOfHour'[p] = topOfHour[p]
        /\ saw'[p] = saw[p] /\ hurt'[p] = hurt[p] /\ crowded'[p] = crowded[p]
        /\ writable' = writable
    BY <1>10 DEF TxUpdate, Functional, Goto, check, history, server
  <2>2. Steady(p) /\ Typed(p) BY <2>1, <1>a, CheckNoneAssumption DEF Steady, Typed, TxSteps
  <2>3. pc[p] \in AfterMode \ {"passed"} /\ pc'[p] \in AfterMode \cup {"failed"}
    BY <2>1 DEF AfterMode, RequiredSteps, BestEffortSteps, TxSteps
  <2> QED BY <2>2, <2>3, GoesOn
<1>11. CASE TxSelect(p)
  <2>1. /\ pc[p] = "tx_select" /\ conn[p]
        /\ \/ pc'[p] = "rollback" /\ tx'[p] = 0
           \/ pc'[p] = "failed" /\ tx'[p] = None
        /\ conn'[p] = conn[p] /\ id'[p] = id[p] /\ rid'[p] = rid[p] /\ topOfHour'[p] = topOfHour[p]
        /\ saw'[p] = saw[p] /\ hurt'[p] = hurt[p] /\ crowded'[p] = crowded[p]
        /\ writable' = writable
    BY <1>11 DEF TxSelect, Functional, Goto, check, history, server
  <2>2. Steady(p) /\ Typed(p) BY <2>1, <1>a, CheckNoneAssumption DEF Steady, Typed, TxSteps
  <2>3. pc[p] \in AfterMode \ {"passed"} /\ pc'[p] \in AfterMode \cup {"failed"}
    BY <2>1 DEF AfterMode, RequiredSteps, BestEffortSteps, TxSteps
  <2> QED BY <2>2, <2>3, GoesOn
<1>12. CASE Rollback(p)
  <2>1. /\ pc[p] = "rollback" /\ conn[p]
        /\ pc'[p] = "recheck" /\ tx'[p] = None
        /\ conn'[p] = conn[p] /\ id'[p] = id[p] /\ rid'[p] = rid[p] /\ topOfHour'[p] = topOfHour[p]
        /\ saw'[p] = saw[p] /\ hurt'[p] = hurt[p] /\ crowded'[p] = crowded[p]
        /\ writable' = writable
    BY <1>12 DEF Rollback, Functional, Goto, check, history, server
  <2>2. Steady(p) /\ Typed(p) BY <2>1, <1>a, CheckNoneAssumption DEF Steady, Typed, TxSteps
  <2>3. pc[p] \in AfterMode \ {"passed"} /\ pc'[p] \in AfterMode \cup {"failed"}
    BY <2>1 DEF AfterMode, RequiredSteps, BestEffortSteps, TxSteps
  <2> QED BY <2>2, <2>3, GoesOn
<1>13. CASE Recheck(p)
  <2>1. Moves(p) /\ pc[p] = "recheck" /\ pc'[p] \in {"cleanup", "failed"}
    BY <1>13 DEF Recheck, Functional, Moves, check, history, server, Goto
  <2> QED BY <2>1, <1>a, MovesOn DEF TxSteps, RequiredSteps, BestEffortSteps, AfterMode, Verdicts, Places
<1>14. CASE Cleanup(p)
  <2>1. Moves(p) /\ pc[p] = "cleanup" /\ pc'[p] \in {"count"}
    BY <1>14 DEF Cleanup, Functional, Moves, check, history, server, Goto
  <2> QED BY <2>1, <1>a, MovesOn DEF TxSteps, RequiredSteps, BestEffortSteps, AfterMode, Verdicts, Places
<1>15. CASE CountRows(p)
  <2>1. Moves(p) /\ pc[p] = "count" /\ pc'[p] \in {"drop", "close"}
    BY <1>15 DEF CountRows, Functional, Moves, check, history, server, Goto
  <2> QED BY <2>1, <1>a, MovesOn DEF TxSteps, RequiredSteps, BestEffortSteps, AfterMode, Verdicts, Places
<1>16. CASE DropHourly(p)
  <2>1. Moves(p) /\ pc[p] = "drop" /\ pc'[p] \in {"close"}
    BY <1>16 DEF DropHourly, Functional, Moves, check, history, server, Goto
  <2> QED BY <2>1, <1>a, MovesOn DEF TxSteps, RequiredSteps, BestEffortSteps, AfterMode, Verdicts, Places
<1>17. CASE Close(p)
  <2>1. /\ pc[p] = "close" /\ pc'[p] = "passed" /\ conn'[p] \in BOOLEAN
        /\ id'[p] = id[p] /\ tx'[p] = tx[p] /\ rid'[p] = rid[p] /\ topOfHour'[p] = topOfHour[p]
        /\ saw'[p] = saw[p] /\ hurt'[p] = hurt[p] /\ crowded'[p] = crowded[p]
        /\ writable' = writable
    BY <1>17 DEF Close, Functional, Goto, check, history, server
  <2>2. tx[p] = None BY <2>1, NoneOpen DEF TxSteps
  <2>3. Steady(p) /\ Typed(p) BY <2>1, <2>2, <1>a, CheckNoneAssumption DEF Steady, Typed, TxSteps
  <2>4. pc[p] \in AfterMode \ {"passed"} /\ pc'[p] \in AfterMode \cup {"failed"}
    BY <2>1 DEF AfterMode, RequiredSteps, BestEffortSteps, TxSteps
  <2> QED BY <2>3, <2>4, GoesOn
<1>18. CASE Finish(p)
  BY <1>18, Forgotten DEF Finish
<1>19. CASE TimesOut(p)
  <2>1. /\ Moves(p)
        /\ pc[p] \in {"insert", "verify", "tx_insert", "recheck", "cleanup", "count", "drop"}
        /\ pc'[p] \in {"count", "close", "failed"}
    BY <1>19 DEF TimesOut, Blocked, Functional, Moves, check, history, server
  <2>2. tx[p] = None BY <2>1, NoneOpen DEF TxSteps
  <2> QED BY <2>1, <2>2, MovesOn DEF TxSteps, RequiredSteps, BestEffortSteps, AfterMode, Verdicts, Places
<1>20. CASE LostConnection(p)
  <2>1. Moves(p) /\ pc[p] \in RequiredSteps /\ ~conn[p] /\ pc'[p] = "failed"
    BY <1>20 DEF LostConnection, Fail, Functional, Moves, check, history, server, Running
  <2>2. tx[p] = None BY <2>1, <1>a
  <2>3. Running(p) /\ pc'[p] \in Places BY <2>1 DEF Running, Places, Verdicts
  <2>4. pc'[p] \notin AfterMode /\ pc'[p] # "readonly"
    BY <2>1 DEF AfterMode, RequiredSteps, BestEffortSteps, TxSteps
  <2> QED BY <2>1, <2>2, <2>3, <2>4, MovesTyped, Reaches
<1> QED
  BY <1>1, <1>2, <1>3, <1>4, <1>5, <1>6, <1>7, <1>8, <1>9, <1>10,
     <1>11, <1>12, <1>13, <1>14, <1>15, <1>16, <1>17, <1>18, <1>19, <1>20
     DEF CheckStep

\* An instance that nothing happens to keeps its part.
LEMMA StillInv ==
    ASSUME NEW p \in Instances, InstanceInv(p), writable' = writable,
           pc'[p] = pc[p], conn'[p] = conn[p], id'[p] = id[p], tx'[p] = tx[p],
           rid'[p] = rid[p], topOfHour'[p] = topOfHour[p], saw'[p] = saw[p], hurt'[p] = hurt[p],
           crowded'[p] \in BOOLEAN
    PROVE  InstanceInv(p)'
<1>1. InstanceOK(p)' BY DEF InstanceInv, InstanceOK, Running
<1>2. Backed(p)' BY DEF InstanceInv, Backed, Running
<1> QED BY <1>1, <1>2 DEF InstanceInv

\* The others keep theirs.
LEMMA OthersInv ==
    ASSUME NEW p \in Instances, OthersKeep(p), writable' = writable,
           NEW q \in Instances \ {p}, InstanceInv(q)
    PROVE  InstanceInv(q)'
<1>1. crowded[q] \in BOOLEAN BY DEF InstanceInv, InstanceOK
<1>2. (crowded[q] \/ Running(q)) \in BOOLEAN BY Zenon
<1>3. crowded'[q] \in {crowded[q], crowded[q] \/ Running(q)} BY DEF OthersKeep
<1>4. crowded'[q] \in BOOLEAN BY <1>1, <1>2, <1>3
<1> QED BY <1>4, StillInv DEF OthersKeep

\* One instance's step keeps the whole invariant.
LEMMA CheckStepInv ==
    ASSUME IInv, NEW p \in Instances, CheckStep(p)
    PROVE  IInv'
<1>1. OthersKeep(p) /\ writable' = writable BY StepIsOwn DEF IInv
<1>2. ServerInv' BY StepKeepsServer DEF IInv, InstanceInv, InstanceOK
<1>3. InstanceInv(p)' BY StepKeepsInstance DEF IInv
<1>4. \A q \in Instances \ {p} : InstanceInv(q)' BY <1>1, OthersInv DEF IInv
<1> QED BY <1>1, <1>2, <1>3, <1>4 DEF IInv, OthersKeep

\* What cuts sessions keeps the instances' part of the invariant.
LEMMA CutInv ==
    ASSUME NEW p \in Instances, InstanceInv(p),
           \/ conn'[p] = FALSE /\ tx'[p] = None
           \/ conn'[p] = conn[p] /\ tx'[p] = tx[p],
           pc'[p] = pc[p], id'[p] = id[p], rid'[p] = rid[p], topOfHour'[p] = topOfHour[p],
           hurt'[p] \in BOOLEAN, crowded'[p] = crowded[p], saw'[p] \in {saw[p], saw[p] \cup {writable'}},
           writable' \in BOOLEAN, Running(p) => writable' \in saw'[p]
    PROVE  InstanceInv(p)'
<1>1. conn'[p] \in BOOLEAN /\ (tx'[p] # None => tx'[p] = tx[p] /\ conn'[p] = conn[p])
  <2>1. CASE conn'[p] = FALSE /\ tx'[p] = None BY <2>1, Zenon
  <2>2. CASE conn'[p] = conn[p] /\ tx'[p] = tx[p] BY <2>2 DEF InstanceInv, InstanceOK
  <2> QED BY <2>1, <2>2
<1>2. saw[p] \subseteq saw'[p] /\ saw'[p] \subseteq BOOLEAN
  BY DEF InstanceInv, InstanceOK
<1>3. InstanceOK(p)' BY <1>1, <1>2 DEF InstanceInv, InstanceOK, Running
<1>4. Backed(p)' BY <1>2 DEF InstanceInv, Backed, Running
<1> QED BY <1>3, <1>4 DEF InstanceInv

\* A row that ages is a row, of the same writer.
LEMMA RowAged ==
    \A row \in Rows :
        /\ [row EXCEPT !.t2old = TRUE] \in Rows /\ [row EXCEPT !.t2old = TRUE].t1 = row.t1
        /\ [row EXCEPT !.stale = TRUE] \in Rows /\ [row EXCEPT !.stale = TRUE].t1 = row.t1
<1>1. ASSUME NEW row \in Rows, NEW v \in BOOLEAN
      PROVE  /\ [row EXCEPT !.t2old = v] \in Rows /\ [row EXCEPT !.t2old = v].t1 = row.t1
             /\ [row EXCEPT !.stale = v] \in Rows /\ [row EXCEPT !.stale = v].t1 = row.t1
  BY DEF Rows
<1>2. TRUE \in BOOLEAN BY Zenon
<1> QED BY <1>1, <1>2, Zenon

\* A fault keeps the whole invariant.
LEMMA FaultInv ==
    ASSUME IInv, Fault
    PROVE  IInv'
<1> USE DEF IInv, Functional, server, check, history
<1>1. ASSUME NEW p \in Instances, Break(p) PROVE IInv'
  <2>1. ServerInv' /\ writable' = writable BY <1>1 DEF Break, ServerInv, ServerOK, OnlyProbesCommitted, Exists
  <2>2. OthersKeep(p) BY <1>1 DEF Break, OthersKeep
  <2>3. /\ conn'[p] = FALSE /\ tx'[p] = None /\ hurt'[p] = TRUE /\ saw'[p] = saw[p]
        /\ crowded'[p] = crowded[p]
        /\ pc'[p] = pc[p] /\ id'[p] = id[p] /\ rid'[p] = rid[p] /\ topOfHour'[p] = topOfHour[p]
    BY <1>1 DEF Break
  <2>4. hurt'[p] \in BOOLEAN BY <2>3, Zenon
  <2>5. writable' \in BOOLEAN /\ (Running(p) => writable' \in saw'[p])
    BY <2>1, <2>3 DEF ServerInv, ServerOK, InstanceInv, Backed
  <2>6. InstanceInv(p)' BY <2>3, <2>4, <2>5, CutInv
  <2>7. \A q \in Instances \ {p} : InstanceInv(q)' BY <2>1, <2>2, OthersInv
  <2> QED BY <2>1, <2>2, <2>6, <2>7 DEF OthersKeep
<1>2. ASSUME NEW p \in Instances, Crash(p) PROVE IInv'
  <2>1. ServerInv' /\ writable' = writable
    BY <1>2 DEF Crash, Forget, ServerInv, ServerOK, OnlyProbesCommitted, Exists
  <2>2. InstanceInv(p)' /\ OthersKeep(p) BY <1>2, Forgotten DEF Crash
  <2>3. \A q \in Instances \ {p} : InstanceInv(q)' BY <2>1, <2>2, OthersInv
  <2> QED BY <2>1, <2>2, <2>3 DEF OthersKeep
<1>3. CASE ServerStops
  <2>1. ServerInv' BY <1>3 DEF ServerStops, ServerInv, ServerOK, OnlyProbesCommitted, Exists
  <2>2. Functional' BY <1>3 DEF ServerStops, HurtRunning
  <2>3. ASSUME NEW q \in Instances PROVE InstanceInv(q)'
    <3>1. /\ conn'[q] = FALSE /\ tx'[q] = None /\ saw'[q] = saw[q] /\ writable' = writable
          /\ pc'[q] = pc[q] /\ id'[q] = id[q] /\ rid'[q] = rid[q] /\ topOfHour'[q] = topOfHour[q]
          /\ crowded'[q] = crowded[q]
      BY <1>3 DEF ServerStops
    <3>2. hurt'[q] = (hurt[q] \/ Running(q)) BY <1>3 DEF ServerStops, HurtRunning
    <3>3. hurt'[q] \in BOOLEAN BY <3>2, Zenon
    <3>4. writable' \in BOOLEAN /\ (Running(q) => writable' \in saw'[q])
      BY <3>1 DEF ServerInv, ServerOK, InstanceInv, Backed
    <3> QED BY <3>1, <3>3, <3>4, CutInv
  <2> QED BY <2>1, <2>2, <2>3
<1>4. CASE Lock
  <2>1. ServerInv' BY <1>4 DEF Lock, ServerInv, ServerOK, OnlyProbesCommitted, Exists
  <2>2. Functional' BY <1>4 DEF Lock, HurtRunning
  <2>3. ASSUME NEW q \in Instances PROVE InstanceInv(q)'
    <3>1. /\ conn'[q] = conn[q] /\ tx'[q] = tx[q] /\ saw'[q] = saw[q] /\ writable' = writable
          /\ pc'[q] = pc[q] /\ id'[q] = id[q] /\ rid'[q] = rid[q] /\ topOfHour'[q] = topOfHour[q]
          /\ crowded'[q] = crowded[q]
      BY <1>4 DEF Lock
    <3>2. hurt'[q] = (hurt[q] \/ Running(q)) BY <1>4 DEF Lock, HurtRunning
    <3>3. hurt'[q] \in BOOLEAN BY <3>2, Zenon
    <3>4. writable' \in BOOLEAN /\ (Running(q) => writable' \in saw'[q])
      BY <3>1 DEF ServerInv, ServerOK, InstanceInv, Backed
    <3> QED BY <3>1, <3>3, <3>4, CutInv
  <2> QED BY <2>1, <2>2, <2>3
<1>5. CASE Failover
  <2>0. writable' \in BOOLEAN BY <1>5, Zenon DEF Failover
  <2>1. ServerInv' BY <1>5, <2>0 DEF Failover, ServerInv, ServerOK, OnlyProbesCommitted, Exists
  <2>2. Functional' BY <1>5 DEF Failover
  <2>3. ASSUME NEW q \in Instances PROVE InstanceInv(q)'
    <3>1. /\ conn'[q] = conn[q] /\ tx'[q] = tx[q] /\ hurt'[q] = hurt[q]
          /\ saw'[q] = IF Running(q) THEN saw[q] \cup {writable'} ELSE saw[q]
          /\ pc'[q] = pc[q] /\ id'[q] = id[q] /\ rid'[q] = rid[q] /\ topOfHour'[q] = topOfHour[q]
          /\ crowded'[q] = crowded[q]
      BY <1>5 DEF Failover
    <3>2. hurt'[q] \in BOOLEAN BY <3>1 DEF InstanceInv, InstanceOK
    <3>3. /\ saw'[q] \in {saw[q], saw[q] \cup {writable'}}
          /\ Running(q) => writable' \in saw'[q]
      BY <3>1
    <3> QED BY <2>0, <3>1, <3>2, <3>3, CutInv
  <2> QED BY <2>1, <2>2, <2>3
<1>6. CASE ServerStarts \/ Unlock \/ Age
  <2>1. UNCHANGED <<pc, conn, id, tx, rid, topOfHour, history, writable>>
    BY <1>6 DEF ServerStarts, Unlock, Age
  <2>2. ServerInv'
    <3>1. CASE ServerStarts
      BY <3>1 DEF ServerStarts, ServerInv, ServerOK, OnlyProbesCommitted, Exists
    <3>2. CASE Unlock
      BY <3>2 DEF Unlock, ServerInv, ServerOK, OnlyProbesCommitted, Exists
    <3>3. CASE Age
      <4>1. PICK i \in DOMAIN table :
               table' = [table EXCEPT ![i].t2old = TRUE, ![i].stale = TRUE]
        BY <3>3 DEF Age
      <4>2. table[i] \in Rows /\ Exists BY <3>3, <4>1 DEF Age, ServerInv, ServerOK
      <4>3. /\ DOMAIN table' = DOMAIN table
            /\ \A j \in DOMAIN table : j # i => table'[j] = table[j]
            /\ table'[i] = [[table[i] EXCEPT !.t2old = TRUE] EXCEPT !.stale = TRUE]
        BY <4>1
      <4>4. table'[i].t1 = table[i].t1 /\ table'[i] \in Rows
        <5> DEFINE r == [table[i] EXCEPT !.t2old = TRUE]
        <5>1. r \in Rows /\ r.t1 = table[i].t1 BY <4>2, RowAged
        <5> HIDE DEF r
        <5>2. [r EXCEPT !.stale = TRUE] \in Rows /\ [r EXCEPT !.stale = TRUE].t1 = r.t1
          BY <5>1, RowAged
        <5>3. table'[i] = [r EXCEPT !.stale = TRUE] BY <4>3 DEF r
        <5> QED BY <5>1, <5>2, <5>3
      <4> QED BY <3>3, <4>2, <4>3, <4>4 DEF Age, ServerInv, ServerOK, OnlyProbesCommitted, Exists
    <3> QED BY <1>6, <3>1, <3>2, <3>3
  <2>3. ASSUME NEW q \in Instances PROVE InstanceInv(q)'
    BY <2>1, StillInv DEF InstanceInv, InstanceOK
  <2> QED BY <2>1, <2>2, <2>3
<1> QED BY <1>1, <1>2, <1>3, <1>4, <1>5, <1>6 DEF Fault

\* It holds at the start.
LEMMA InitInv ==
    ASSUME Init
    PROVE  IInv
<1>1. Functional BY DEF Init, Functional
<1>2. ServerInv BY Zenon DEF Init, ServerInv, ServerOK, OnlyProbesCommitted, Exists
<1>3. ASSUME NEW p \in Instances PROVE InstanceInv(p)
  <2>1. /\ pc[p] = "idle" /\ conn[p] = FALSE /\ topOfHour[p] = FALSE /\ hurt[p] = FALSE
        /\ id[p] = 0 /\ rid[p] = 0 /\ tx[p] = None /\ saw[p] = {}
        /\ crowded[p] = FALSE
    BY DEF Init
  <2>2. /\ conn[p] \in BOOLEAN /\ topOfHour[p] \in BOOLEAN
        /\ hurt[p] \in BOOLEAN /\ crowded[p] \in BOOLEAN
    BY <2>1, Zenon
  <2>3. id[p] \in Ids BY <2>1, RangeAssumption DEF Ids
  <2>4. InstanceOK(p) BY <2>1, <2>2, <2>3 DEF InstanceOK
  <2>5. Backed(p)
    BY <2>1 DEF Backed, Running, AfterMode, RequiredSteps, BestEffortSteps, TxSteps
  <2> QED BY <2>4, <2>5 DEF InstanceInv
<1> QED BY <1>1, <1>2, <1>3 DEF IInv

\* The invariant holds throughout.
LEMMA Invariant == Spec => []IInv
<1>1. ASSUME IInv, UNCHANGED vars PROVE IInv'
  <2>1. UNCHANGED <<kind, created, table, writable, up, locked, pc, conn, id, tx, rid, topOfHour, saw, hurt, crowded>>
    BY <1>1 DEF vars, server, check, history
  <2>2. ServerInv' BY <1>1, <2>1 DEF IInv, ServerInv, ServerOK, OnlyProbesCommitted, Exists
  <2>3. \A p \in Instances : InstanceInv(p)'
    BY <1>1, <2>1, StillInv DEF IInv, InstanceInv, InstanceOK
  <2> QED BY <1>1, <2>1, <2>2, <2>3 DEF IInv, Functional
<1>2. IInv /\ [Next]_vars => IInv'
  BY <1>1, CheckStepInv, FaultInv DEF Next
<1> QED BY InitInv, <1>2, PTL DEF Spec

-----------------------------------------------------------------------------

\* Every variable has its type, and an open transaction belongs to a live check
\* in the middle of its rollback test, for any number of instances.
THEOREM TypeCorrect == Spec => []TypeOK
<1>1. IInv => TypeOK BY DEF IInv, TypeOK, ServerInv, InstanceInv
<1> QED BY <1>1, Invariant, PTL

\* The rollback test never leaves a trace: only rows of the write test are ever
\* committed, however many instances share the table and whatever cuts them.
THEOREM RollbackLeavesNoTrace == Spec => []OnlyProbesCommitted
<1>1. IInv => OnlyProbesCommitted BY DEF IInv, ServerInv
<1> QED BY <1>1, Invariant, PTL

\* A verdict is backed by the server, though it fails over between any two
\* statements: "passed" by one that was writable, "readonly" by one that was not.
THEOREM VerdictsBacked == Spec => []EvidenceHolds
<1>1. IInv => EvidenceHolds BY DEF IInv, InstanceInv, Backed, EvidenceHolds, AfterMode
<1> QED BY <1>1, Invariant, PTL

=============================================================================
