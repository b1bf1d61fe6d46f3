----------------------------- MODULE RowsProofs -----------------------------
(***************************************************************************)
(* Theorems about the rows of dbpulse_rw in HealthCheck, for every number  *)
(* of instances, every range, every limit and every set of faults: how     *)
(* many there are, and what the cleanup deletes.                           *)
(***************************************************************************)
EXTENDS HealthCheckProofs, FiniteSetTheorems

-----------------------------------------------------------------------------
(* How many.                                                               *)

LEMMA IdsFinite == IsFiniteSet(Ids) /\ Cardinality(Ids) = RowRange
<1>1. RowRange - 1 \in Int /\ ~(0 > RowRange - 1) /\ (RowRange - 1) - 0 + 1 = RowRange
  BY RangeAssumption
<1> QED BY <1>1, FS_Interval DEF Ids

\* Instances that share the table, crashes and failed cleanups never make it grow
\* past --range rows: the rollback rows, named after the clock, are never among
\* them.  So a --range below 100 000 keeps the hourly drop's limit out of reach.
TableBounded ==
    Exists => IsFiniteSet(DOMAIN table) /\ Cardinality(DOMAIN table) <= RowRange

THEOREM TableAlwaysBounded == Spec => []TableBounded
<1>1. OnlyProbesCommitted => TableBounded
  <2> SUFFICES ASSUME OnlyProbesCommitted, Exists
               PROVE  IsFiniteSet(DOMAIN table) /\ Cardinality(DOMAIN table) <= RowRange
    BY DEF TableBounded
  <2>1. DOMAIN table \in SUBSET Ids BY DEF OnlyProbesCommitted
  <2> QED BY <2>1, IdsFinite, FS_Subset
<1> QED BY <1>1, RollbackLeavesNoTrace, PTL

-----------------------------------------------------------------------------
(* What the cleanup deletes.                                               *)

\* On MySQL and MariaDB an old t2 means an old write.
Refreshed == kind # "postgres" /\ Exists =>
                \A i \in DOMAIN table : table[i].t2old => table[i].stale

RowsInv == IInv /\ Refreshed

\* A step of a check leaves the table alone, or drops it, or creates it empty,
\* or writes one row, or deletes some.
LEMMA TableSteps ==
    ASSUME NEW p \in Instances, CheckStep(p)
    PROVE  /\ kind' = kind
           /\ \/ table' = table \/ table' = None
              \/ table' = [i \in {} |-> None]
              \/ Exists /\ \E i \in Ids : table' = Upsert(i, WrittenRow(p, i))
              \/ Exists /\ \E gone \in SUBSET OldRows :
                              table' = [i \in DOMAIN table \ gone |-> table[i]]
<1> USE DEF server
<1>1. CASE Begin(p) BY <1>1 DEF Begin
<1>2. CASE Connect(p) BY <1>2 DEF Connect
<1>3. CASE CreateDatabase(p) BY <1>3 DEF CreateDatabase
<1>4. CASE SetUpSession(p) BY <1>4 DEF SetUpSession
<1>5. CASE AskMode(p) BY <1>5 DEF AskMode
<1>6. CASE EnsureTable(p) BY <1>6 DEF EnsureTable
<1>7. CASE Insert(p) BY <1>7, Zenon DEF Insert
<1>8. CASE Verify(p) BY <1>8 DEF Verify
<1>9. CASE TxInsert(p) BY <1>9 DEF TxInsert
<1>10. CASE TxUpdate(p) BY <1>10 DEF TxUpdate
<1>11. CASE TxSelect(p) BY <1>11 DEF TxSelect
<1>12. CASE Rollback(p) BY <1>12 DEF Rollback
<1>13. CASE Recheck(p) BY <1>13 DEF Recheck
<1>14. CASE Cleanup(p) BY <1>14, Zenon DEF Cleanup
<1>15. CASE CountRows(p) BY <1>15 DEF CountRows
<1>16. CASE DropHourly(p) BY <1>16 DEF DropHourly
<1>17. CASE Close(p) BY <1>17 DEF Close
<1>18. CASE Finish(p) BY <1>18 DEF Finish, Forget
<1>19. CASE TimesOut(p) BY <1>19 DEF TimesOut
<1>20. CASE LostConnection(p) BY <1>20 DEF LostConnection
<1> QED
  BY <1>1, <1>2, <1>3, <1>4, <1>5, <1>6, <1>7, <1>8, <1>9, <1>10,
     <1>11, <1>12, <1>13, <1>14, <1>15, <1>16, <1>17, <1>18, <1>19, <1>20
     DEF CheckStep

\* So a step of a check keeps t2 true to the writes: the row it writes is fresh.
LEMMA StepRefreshes ==
    ASSUME Refreshed, NEW p \in Instances, CheckStep(p)
    PROVE  Refreshed'
<1> SUFFICES ASSUME kind' # "postgres", Exists', NEW j \in DOMAIN table', table'[j].t2old
             PROVE  table'[j].stale
  BY DEF Refreshed
<1>1. kind # "postgres" BY TableSteps
<1>2. CASE table' = table BY <1>1, <1>2 DEF Refreshed, Exists
<1>3. CASE table' = None BY <1>3 DEF Exists
<1>4. CASE table' = [i \in {} |-> None] BY <1>4
<1>5. CASE Exists /\ \E i \in Ids : table' = Upsert(i, WrittenRow(p, i))
  <2>1. PICK i \in Ids : table' = Upsert(i, WrittenRow(p, i)) BY <1>5
  <2>2. /\ j \in DOMAIN table \cup {i}
        /\ table'[j] = IF j = i THEN WrittenRow(p, i) ELSE table[j]
    BY <2>1 DEF Upsert
  <2>3. ~WrittenRow(p, i).t2old
    <3>1. WrittenRow(p, i).t2old = (kind = "postgres" /\ i \in DOMAIN table /\ table[i].t2old)
      BY DEF WrittenRow
    <3> QED BY <1>1, <3>1, Zenon
  <2>4. j # i BY <2>2, <2>3
  <2> QED BY <1>1, <1>5, <2>2, <2>4 DEF Refreshed
<1>6. CASE Exists /\ \E gone \in SUBSET OldRows :
                        table' = [i \in DOMAIN table \ gone |-> table[i]]
  <2>1. j \in DOMAIN table /\ table'[j] = table[j] BY <1>6
  <2> QED BY <1>1, <1>6, <2>1 DEF Refreshed
<1> QED BY <1>2, <1>3, <1>4, <1>5, <1>6, TableSteps

\* A row that ages is stale.
LEMMA AgedIsStale ==
    ASSUME IInv, Exists, NEW i \in DOMAIN table,
           table' = [table EXCEPT ![i].t2old = TRUE, ![i].stale = TRUE]
    PROVE  table'[i].stale
<1> DEFINE r == [table[i] EXCEPT !.t2old = TRUE]
<1>1. table[i] \in Rows BY DEF IInv, ServerInv, ServerOK
<1>2. r \in Rows BY <1>1, RowAged
<1> HIDE DEF r
<1>3. [r EXCEPT !.stale = TRUE].stale = TRUE BY <1>2 DEF Rows
<1>4. table'[i] = [r EXCEPT !.stale = TRUE] BY DEF r
<1>5. table'[i].stale = TRUE BY <1>3, <1>4
<1> QED BY <1>5, Zenon

\* So does a fault.
LEMMA FaultRefreshes ==
    ASSUME RowsInv, Fault
    PROVE  Refreshed'
<1>1. CASE Age
  <2>1. Exists /\ kind' = kind BY <1>1 DEF Age
  <2>2. PICK i \in DOMAIN table : table' = [table EXCEPT ![i].t2old = TRUE, ![i].stale = TRUE]
    BY <1>1 DEF Age
  <2>3. /\ DOMAIN table' = DOMAIN table
        /\ \A j \in DOMAIN table : j # i => table'[j] = table[j]
    BY <2>2
  <2>4. table'[i].stale BY <2>1, <2>2, AgedIsStale DEF RowsInv
  <2> QED BY <2>1, <2>3, <2>4 DEF RowsInv, Refreshed
<1>2. CASE UNCHANGED <<kind, table>> BY <1>2 DEF RowsInv, Refreshed, Exists
<1>3. Fault => Age \/ UNCHANGED <<kind, table>>
  BY DEF Fault, Break, Crash, Forget, ServerStops, ServerStarts, Failover, Lock, Unlock, server
<1> QED BY <1>1, <1>2, <1>3

LEMMA AlwaysRefreshed == Spec => []RowsInv
<1>1. Init => RowsInv BY InitInv DEF RowsInv, Refreshed, Init, Exists
<1>2. RowsInv /\ [Next]_vars => RowsInv'
  <2> SUFFICES ASSUME RowsInv, [Next]_vars PROVE RowsInv' OBVIOUS
  <2>1. CASE Next BY <2>1, CheckStepInv, FaultInv, StepRefreshes, FaultRefreshes DEF RowsInv, Next
  <2>2. CASE UNCHANGED vars
    <3>1. UNCHANGED <<kind, created, table, writable, up, locked, pc, conn, id, tx, rid,
                      topOfHour, saw, hurt, crowded>>
      BY <2>2 DEF vars, server, check, history
    <3>2. ServerInv' BY <3>1 DEF RowsInv, IInv, ServerInv, ServerOK, OnlyProbesCommitted, Exists
    <3>3. \A q \in Instances : InstanceInv(q)'
      BY <3>1, StillInv DEF RowsInv, IInv, InstanceInv, InstanceOK
    <3> QED BY <3>1, <3>2, <3>3 DEF RowsInv, IInv, Functional, Refreshed, Exists
  <2> QED BY <2>1, <2>2
<1> QED BY <1>1, <1>2, PTL DEF Spec

\* The cleanup deletes old rows only.
LEMMA DeletesOld ==
    ASSUME NEW p \in Instances, Cleanup(p), Exists
    PROVE  DOMAIN table \ DOMAIN table' \subseteq OldRows
<1>1. CASE table' = table BY <1>1
<1>2. CASE \E gone \in SUBSET OldRows : table' = [i \in DOMAIN table \ gone |-> table[i]]
  BY <1>2
<1>3. \/ table' = table
      \/ \E gone \in SUBSET OldRows : table' = [i \in DOMAIN table \ gone |-> table[i]]
  BY Zenon DEF Cleanup
<1> QED BY <1>1, <1>2, <1>3

\* On MySQL and MariaDB no cleanup, of any instance and whoever else writes
\* meanwhile, deletes a row written within the hour.
THEOREM RecentAlwaysSpared == Spec => CleanupSparesRecent
<1>1. ASSUME RowsInv, NEW p \in Instances, Cleanup(p), Exists, kind # "postgres",
             NEW i \in DOMAIN table \ DOMAIN table'
      PROVE  table[i].stale
  <2>1. table[i].t2old BY <1>1, DeletesOld DEF OldRows
  <2> QED BY <1>1, <2>1 DEF RowsInv, Refreshed
<1>2. RowsInv => \A p \in Instances : Cleanup(p) /\ Exists /\ kind # "postgres" =>
                    \A i \in DOMAIN table \ DOMAIN table' : table[i].stale
  BY <1>1
<1> QED BY <1>2, AlwaysRefreshed, PTL DEF CleanupSparesRecent

\* A range no larger than the cleanup's LIMIT, as the default is, never leaves
\* a backlog: a cleanup that runs at all leaves no row it selects.
NoBacklog == [][\A p \in Instances :
                  Cleanup(p) /\ conn[p] /\ writable /\ Exists =>
                     \A i \in DOMAIN table' : ~table'[i].t2old]_vars

THEOREM CleanupKeepsUp ==
    ASSUME RowRange <= Batch
    PROVE  Spec => NoBacklog
<1>1. ASSUME IInv, NEW p \in Instances, Cleanup(p), conn[p], writable, Exists,
             NEW i \in DOMAIN table'
      PROVE  ~table'[i].t2old
  <2>1. PICK gone \in SUBSET OldRows :
           /\ Cardinality(gone) = IF Cardinality(OldRows) < Batch
                                  THEN Cardinality(OldRows) ELSE Batch
           /\ table' = [j \in DOMAIN table \ gone |-> table[j]]
    BY <1>1, Zenon DEF Cleanup
  <2>2. OldRows \in SUBSET Ids BY <1>1 DEF IInv, ServerInv, OnlyProbesCommitted, OldRows
  <2>3. /\ IsFiniteSet(OldRows) /\ Cardinality(OldRows) <= RowRange
        /\ Cardinality(OldRows) \in Nat
    BY <2>2, IdsFinite, FS_Subset, FS_CardinalityType
  <2>4. Cardinality(gone) = Cardinality(OldRows)
    BY <2>1, <2>3, RangeAssumption, LimitsAssumption
  <2>5. gone = OldRows BY <2>3, <2>4, FS_Subset
  <2> QED BY <2>1, <2>5 DEF OldRows
<1>2. IInv => \A p \in Instances : Cleanup(p) /\ conn[p] /\ writable /\ Exists =>
                 \A i \in DOMAIN table' : ~table'[i].t2old
  BY <1>1
<1> QED BY <1>2, Invariant, PTL DEF NoBacklog
=============================================================================
