----------------------------- MODULE HealthCheck -----------------------------
(***************************************************************************)
(* One health check, statement by statement (src/queries/postgres.rs and   *)
(* mysql.rs: test_rw), run by several dbpulse instances against one        *)
(* database.  Each statement is an action: other instances, a failover, a  *)
(* restart, a lost connection or a lock taken by somebody else come        *)
(* between any two.  The server (autocommit, row locks of an open          *)
(* transaction, statement and lock timeouts, rollback when a session ends) *)
(* is external and modelled as the statements rely on it.                  *)
(*                                                                         *)
(* Statements whose result is only a metric (blocking queries, lag, row    *)
(* counts, sizes, duration histograms) change nothing here.                *)
(***************************************************************************)
EXTENDS Naturals, FiniteSets

CONSTANTS
    Instances,   \* the dbpulse processes that share the database
    Kinds,       \* servers considered: "postgres", "mysql", "mariadb"
    RowRange,    \* --range
    RollbackIds, \* values the microsecond clock may give the rollback row
    DropBelow,   \* 5: only a row id below it may drop the table
    DropLimit,   \* 100 000: tables with as many rows are kept
    Batch,       \* 10 000: the LIMIT of the cleanup
    Faults,      \* what may go wrong, out of FaultKinds
    None

Ids        == 0 .. RowRange - 1
FaultKinds == {"break", "crash", "restart", "failover", "lock", "age"}

ASSUME KindAssumption   == Kinds \subseteq {"postgres", "mysql", "mariadb"}
ASSUME RangeAssumption  == RowRange \in Nat \ {0}
ASSUME RidAssumption    == RollbackIds \subseteq Nat
ASSUME LimitsAssumption == DropBelow \in Nat /\ DropLimit \in Nat /\ Batch \in Nat \ {0}
ASSUME FaultsAssumption == Faults \subseteq FaultKinds
ASSUME CheckNoneAssumption == None \notin Instances \cup Nat

VARIABLES
    kind,      \* the server
    created,   \* the database exists
    table,     \* None, or the committed rows of dbpulse_rw by id
    writable,  \* the server is a primary and not read-only
    up,        \* the server takes connections
    locked,    \* another session holds a lock on the whole table
    pc,        \* per instance: the next statement of its check
    conn,      \* per instance: its session is alive
    id,        \* per instance: the row it wrote
    tx,        \* per instance: t1 of its row in its open transaction, or None
    rid,       \* per instance: that row
    topOfHour, \* per instance: now.minute() = 0
    saw,       \* history, per instance: values of writable during its check
    hurt,      \* history, per instance: a fault met its check
    crowded    \* history, per instance: another check ran during its own

server  == <<kind, created, table, writable, up, locked>>
check   == <<id, rid, topOfHour>>
history == <<saw, hurt, crowded>>
vars    == <<server, pc, conn, tx, check, history>>

\* A row: t1 and uuid stand for their writer, a marker of the rollback test
\* (999, 0) for itself; t2 is more than an hour old; so is the last write.
Rows == [t1 : Instances \cup {999, 0}, t2old : BOOLEAN, stale : BOOLEAN]

ASSUME MarkerAssumption == 0 \notin Instances /\ 999 \notin Instances
ASSUME TableAssumption  == \A D \in SUBSET Ids : None \notin [D -> Rows]

TxSteps         == {"tx_update", "tx_select", "rollback"}
RequiredSteps   == {"session", "mode", "ensure", "insert", "verify", "tx_insert",
                    "recheck"} \cup TxSteps
BestEffortSteps == {"cleanup", "count", "drop", "close"}
Verdicts        == {"passed", "readonly", "failed"}
Running(p)      == pc[p] \in {"connect", "create_db"} \cup RequiredSteps \cup BestEffortSteps

Exists == table # None
\* The open transaction of another session has written row i, or the table.
RowLocked(p, i) == \E q \in Instances \ {p} : tx[q] # None /\ rid[q] = i
TableInUse(p)   == \E q \in Instances \ {p} : tx[q] # None

\* The rows the cleanup selects.
OldRows == {i \in DOMAIN table : table[i].t2old}

Goto(p, from, to) == pc[p] = from /\ pc' = [pc EXCEPT ![p] = to]
Fail(p)           == pc' = [pc EXCEPT ![p] = "failed"]
Upsert(i, row)    == [j \in DOMAIN table \cup {i} |-> IF j = i THEN row ELSE table[j]]

Init ==
    /\ kind \in Kinds /\ created \in BOOLEAN /\ table = None
    /\ writable = TRUE /\ up = TRUE /\ locked = FALSE
    /\ pc = [p \in Instances |-> "idle"]
    /\ conn = [p \in Instances |-> FALSE]
    /\ id = [p \in Instances |-> 0] /\ rid = [p \in Instances |-> 0]
    /\ tx = [p \in Instances |-> None]
    /\ topOfHour = [p \in Instances |-> FALSE]
    /\ saw = [p \in Instances |-> {}] /\ hurt = [p \in Instances |-> FALSE]
    /\ crowded = [p \in Instances |-> FALSE]

-----------------------------------------------------------------------------
(* Connecting.                                                             *)

Overlapped(p) == \E q \in Instances \ {p} : Running(q)

Begin(p) ==
    /\ Goto(p, "idle", "connect")
    /\ \E h \in BOOLEAN : topOfHour' = [topOfHour EXCEPT ![p] = h]
    /\ saw' = [saw EXCEPT ![p] = {writable}]
    /\ hurt' = [hurt EXCEPT ![p] = ~up \/ locked]
    /\ crowded' = [q \in Instances |->
                     IF q = p THEN Overlapped(p) ELSE crowded[q] \/ Running(q)]
    /\ UNCHANGED <<server, conn, tx, id, rid>>

\* Mutant: a missing database is an error like any other.
ConnectOnly(p) ==
    /\ Goto(p, "connect", IF up /\ created THEN "session" ELSE "failed")
    /\ conn' = [conn EXCEPT ![p] = up /\ created]
    /\ UNCHANGED <<server, tx, check, history>>

Connect(p) ==
    /\ Goto(p, "connect", IF ~up THEN "failed" ELSE IF created THEN "session" ELSE "create_db")
    /\ conn' = [conn EXCEPT ![p] = up /\ created]
    /\ UNCHANGED <<server, tx, check, history>>

\* Only the missing database starts this; "already exists" is not ignored.
CreateDatabase(p) ==
    /\ Goto(p, "create_db", IF up /\ writable /\ ~created THEN "session" ELSE "failed")
    /\ created' = (created \/ (up /\ writable))
    /\ conn' = [conn EXCEPT ![p] = up /\ writable /\ ~created]
    /\ UNCHANGED <<kind, table, writable, up, locked, tx, check, history>>

\* Session timeouts, version, host and uptime.
SetUpSession(p) ==
    /\ conn[p] /\ Goto(p, "session", "mode")
    /\ UNCHANGED <<server, conn, tx, check, history>>

\* Mutant: the test is inverted.
AskInverted(p) ==
    /\ conn[p] /\ Goto(p, "mode", IF writable THEN "readonly" ELSE "ensure")
    /\ UNCHANGED <<server, conn, tx, check, history>>

AskMode(p) ==
    /\ conn[p] /\ Goto(p, "mode", IF writable THEN "ensure" ELSE "readonly")
    /\ UNCHANGED <<server, conn, tx, check, history>>

-----------------------------------------------------------------------------
(* The write test.  A read-only server refuses every write.                *)

EnsureTable(p) ==
    /\ conn[p] /\ Goto(p, "ensure", IF writable THEN "insert" ELSE "failed")
    /\ table' = IF writable /\ ~Exists THEN [i \in {} |-> None] ELSE table
    /\ UNCHANGED <<kind, created, writable, up, locked, conn, tx, check, history>>

\* The upsert.  Only MySQL's column refreshes t2 ON UPDATE.
\* Mutant: nor does MySQL's.
KeepsT2(p, i) ==
    [t1 |-> p, stale |-> FALSE, t2old |-> i \in DOMAIN table /\ table[i].t2old]

WrittenRow(p, i) ==
    [t1 |-> p, stale |-> FALSE,
     t2old |-> kind = "postgres" /\ i \in DOMAIN table /\ table[i].t2old]

Insert(p) ==
    /\ conn[p] /\ pc[p] = "insert"
    /\ IF writable /\ Exists
       THEN /\ ~locked
            /\ \E i \in Ids :
                  /\ ~RowLocked(p, i)
                  /\ id' = [id EXCEPT ![p] = i]
                  /\ table' = Upsert(i, WrittenRow(p, i))
            /\ pc' = [pc EXCEPT ![p] = "verify"]
       ELSE Fail(p) /\ UNCHANGED <<table, id>>
    /\ UNCHANGED <<kind, created, writable, up, locked, conn, tx, rid, topOfHour, history>>

FindsOwnRow(p) == Exists /\ id[p] \in DOMAIN table /\ table[id[p]].t1 = p

Verify(p) ==
    /\ conn[p] /\ (Exists => ~locked)
    /\ Goto(p, "verify", IF FindsOwnRow(p) THEN "tx_insert" ELSE "failed")
    /\ UNCHANGED <<server, conn, tx, check, history>>

-----------------------------------------------------------------------------
(* The rollback test: one transaction on a row named after the clock.      *)

TxInsert(p) ==
    /\ conn[p] /\ pc[p] = "tx_insert"
    /\ IF writable /\ Exists
       THEN /\ ~locked
            /\ \E i \in RollbackIds : ~RowLocked(p, i) /\ rid' = [rid EXCEPT ![p] = i]
            /\ tx' = [tx EXCEPT ![p] = 999]
            /\ pc' = [pc EXCEPT ![p] = "tx_update"]
       ELSE Fail(p) /\ UNCHANGED <<tx, rid>>
    /\ UNCHANGED <<server, conn, id, topOfHour, history>>

TxUpdate(p) ==
    /\ conn[p] /\ Goto(p, "tx_update", IF writable THEN "tx_select" ELSE "failed")
    /\ tx' = [tx EXCEPT ![p] = IF writable THEN 0 ELSE None]
    /\ UNCHANGED <<server, conn, check, history>>

\* Dropping the Transaction on an error rolls it back.
TxSelect(p) ==
    /\ conn[p] /\ Goto(p, "tx_select", IF tx[p] = 0 THEN "rollback" ELSE "failed")
    /\ tx' = [tx EXCEPT ![p] = IF tx[p] = 0 THEN 0 ELSE None]
    /\ UNCHANGED <<server, conn, check, history>>

\* Mutants: the transaction is committed; it is left open.
Commit(p) ==
    /\ conn[p] /\ Goto(p, "rollback", "recheck")
    /\ table' = Upsert(rid[p], [t1 |-> tx[p], t2old |-> FALSE, stale |-> FALSE])
    /\ tx' = [tx EXCEPT ![p] = None]
    /\ UNCHANGED <<kind, created, writable, up, locked, conn, check, history>>
LeaveOpen(p) ==
    /\ conn[p] /\ Goto(p, "rollback", "recheck")
    /\ UNCHANGED <<server, conn, tx, check, history>>

Rollback(p) ==
    /\ conn[p] /\ Goto(p, "rollback", "recheck")
    /\ tx' = [tx EXCEPT ![p] = None]
    /\ UNCHANGED <<server, conn, check, history>>

\* Mutant: the row must be gone, whether or not it was there before.
RecheckGone(p) ==
    /\ conn[p] /\ (Exists => ~locked)
    /\ Goto(p, "recheck", IF Exists /\ rid[p] \notin DOMAIN table THEN "cleanup" ELSE "failed")
    /\ UNCHANGED <<server, conn, tx, check, history>>

Recheck(p) ==
    /\ conn[p] /\ (Exists => ~locked)
    /\ Goto(p, "recheck", IF Exists /\ (rid[p] \in DOMAIN table => table[rid[p]].t1 # 0)
                          THEN "cleanup" ELSE "failed")
    /\ UNCHANGED <<server, conn, tx, check, history>>

-----------------------------------------------------------------------------
(* Housekeeping: nothing in it can fail the check any more.                *)

Cleanup(p) ==
    /\ Goto(p, "cleanup", "count")
    /\ IF conn[p] /\ writable /\ Exists
       THEN /\ ~locked
            /\ \A i \in OldRows : ~RowLocked(p, i)
            /\ \E gone \in SUBSET OldRows :
                  /\ Cardinality(gone) = IF Cardinality(OldRows) < Batch
                                         THEN Cardinality(OldRows) ELSE Batch
                  /\ table' = [i \in DOMAIN table \ gone |-> table[i]]
       ELSE UNCHANGED table
    /\ UNCHANGED <<kind, created, writable, up, locked, conn, tx, check, history>>

\* The rows are counted by one statement, and the table dropped by the next.
CountRows(p) ==
    /\ conn[p] /\ Exists /\ topOfHour[p] /\ id[p] < DropBelow => ~locked
    /\ Goto(p, "count",
            IF /\ conn[p] /\ Exists /\ topOfHour[p] /\ id[p] < DropBelow
               /\ Cardinality(DOMAIN table) < DropLimit
            THEN "drop" ELSE "close")
    /\ UNCHANGED <<server, conn, tx, check, history>>

DropHourly(p) ==
    /\ Goto(p, "drop", "close")
    /\ IF conn[p] /\ writable /\ Exists
       THEN ~locked /\ ~TableInUse(p) /\ table' = None
       ELSE UNCHANGED table
    /\ UNCHANGED <<kind, created, writable, up, locked, conn, tx, check, history>>

\* TLS metadata, if any, and the end of the session.
Close(p) ==
    /\ Goto(p, "close", "passed")
    /\ conn' = [conn EXCEPT ![p] = FALSE]
    /\ UNCHANGED <<server, tx, check, history>>

\* The result is recorded (PulseLoop), and nothing of the check remains.
Forget(p, h) ==
    /\ pc' = [pc EXCEPT ![p] = "idle"] /\ conn' = [conn EXCEPT ![p] = FALSE]
    /\ tx' = [tx EXCEPT ![p] = None] /\ topOfHour' = [topOfHour EXCEPT ![p] = FALSE]
    /\ id' = [id EXCEPT ![p] = 0] /\ rid' = [rid EXCEPT ![p] = 0]
    /\ saw' = [saw EXCEPT ![p] = {}] /\ hurt' = [hurt EXCEPT ![p] = h]
    /\ crowded' = [crowded EXCEPT ![p] = FALSE]
    /\ UNCHANGED server

Finish(p) == pc[p] \in Verdicts /\ Forget(p, FALSE)

-----------------------------------------------------------------------------
(* A statement that waits, and what ends its wait.                         *)

\* Statements that meet a lock on the table, or a locked row.
Blocked(p) ==
    /\ conn[p] /\ Exists
    /\ \/ locked /\ pc[p] \in {"insert", "verify", "tx_insert", "recheck", "cleanup",
                              "count", "drop"}
       \/ pc[p] = "insert"    /\ \E i \in Ids : RowLocked(p, i)
       \/ pc[p] = "tx_insert" /\ \E i \in RollbackIds : RowLocked(p, i)
       \/ pc[p] = "cleanup"   /\ \E i \in OldRows : RowLocked(p, i)
       \/ pc[p] = "drop"      /\ TableInUse(p)

\* PostgreSQL: statement_timeout and lock_timeout; MariaDB: max_statement_time.
\* MySQL: max_execution_time stops a SELECT and innodb_lock_wait_timeout a wait
\* for a row; neither stops a write that waits for the table's metadata lock.
\* Mutant: only a SELECT has a limit, on any server.
ReadsLimited(p) == pc[p] \in {"verify", "recheck", "count"}

Limited(p) == \/ kind # "mysql"
              \/ pc[p] \in {"verify", "recheck", "count"}
              \/ ~locked /\ pc[p] # "drop"

\* The error of a required statement fails the check; the others go on.
TimesOut(p) ==
    /\ Blocked(p) /\ Limited(p)
    /\ pc' = [pc EXCEPT ![p] = CASE pc[p] = "cleanup"           -> "count"
                                 [] pc[p] \in {"count", "drop"} -> "close"
                                 [] OTHER                       -> "failed"]
    /\ UNCHANGED <<server, conn, tx, check, history>>

\* A required statement on a dead session.
LostConnection(p) ==
    /\ pc[p] \in RequiredSteps /\ ~conn[p]
    /\ Fail(p)
    /\ UNCHANGED <<server, conn, tx, check, history>>

-----------------------------------------------------------------------------
(* The environment.                                                        *)

HurtRunning == hurt' = [p \in Instances |-> hurt[p] \/ Running(p)]

\* The session ends, and the server rolls its transaction back.
Break(p) ==
    /\ "break" \in Faults /\ conn[p] /\ Running(p)
    /\ conn' = [conn EXCEPT ![p] = FALSE] /\ tx' = [tx EXCEPT ![p] = None]
    /\ hurt' = [hurt EXCEPT ![p] = TRUE]
    /\ UNCHANGED <<server, pc, check, saw, crowded>>

\* The instance dies in the middle of a check, and is started again.
Crash(p) == "crash" \in Faults /\ Running(p) /\ Forget(p, TRUE)

ServerStops ==
    /\ "restart" \in Faults /\ up
    /\ up' = FALSE /\ locked' = FALSE
    /\ conn' = [p \in Instances |-> FALSE] /\ tx' = [p \in Instances |-> None]
    /\ HurtRunning
    /\ UNCHANGED <<kind, created, table, writable, pc, check, saw, crowded>>

ServerStarts ==
    /\ ~up /\ up' = TRUE
    /\ UNCHANGED <<kind, created, table, writable, locked, pc, conn, tx, check, history>>

\* The server becomes a replica or read-only, or stops being one.
Failover ==
    /\ "failover" \in Faults
    /\ writable' = ~writable
    /\ saw' = [p \in Instances |-> IF Running(p) THEN saw[p] \cup {writable'} ELSE saw[p]]
    /\ UNCHANGED <<kind, created, table, up, locked, pc, conn, tx, check, hurt, crowded>>

\* Another session locks the whole table, and gives it back or never does.
Lock ==
    /\ "lock" \in Faults /\ up /\ Exists /\ ~locked
    /\ \A q \in Instances : tx[q] = None
    /\ locked' = TRUE
    /\ HurtRunning
    /\ UNCHANGED <<kind, created, table, writable, up, pc, conn, tx, check, saw, crowded>>

Unlock ==
    /\ locked /\ locked' = FALSE
    /\ UNCHANGED <<kind, created, table, writable, up, pc, conn, tx, check, history>>

\* An hour goes by for a row; a check takes far less.
Age ==
    /\ "age" \in Faults /\ Exists
    /\ \A p \in Instances : ~Running(p)
    /\ \E i \in DOMAIN table :
          table' = [table EXCEPT ![i].t2old = TRUE, ![i].stale = TRUE]
    /\ UNCHANGED <<kind, created, writable, up, locked, pc, conn, tx, check, history>>

CheckStep(p) ==
    \/ Begin(p) \/ Connect(p) \/ CreateDatabase(p) \/ SetUpSession(p) \/ AskMode(p)
    \/ EnsureTable(p) \/ Insert(p) \/ Verify(p)
    \/ TxInsert(p) \/ TxUpdate(p) \/ TxSelect(p) \/ Rollback(p) \/ Recheck(p)
    \/ Cleanup(p) \/ CountRows(p) \/ DropHourly(p) \/ Close(p) \/ Finish(p)
    \/ TimesOut(p) \/ LostConnection(p)

Fault == \/ \E p \in Instances : Break(p) \/ Crash(p)
         \/ ServerStops \/ ServerStarts \/ Failover \/ Lock \/ Unlock \/ Age

Next == (\E p \in Instances : CheckStep(p)) \/ Fault
Spec == Init /\ [][Next]_vars
\* The loop of each instance runs and a server answers or cuts a session; who
\* holds a lock may keep it, and a server that is down may stay so.
FairSpec == Spec /\ \A p \in Instances : WF_vars(CheckStep(p))

-----------------------------------------------------------------------------
(* Properties.                                                             *)

\* Every variable has its type; an open transaction belongs to a live check in
\* the middle of its rollback test, whatever cut the others short.
ServerOK ==
    /\ kind \in Kinds /\ created \in BOOLEAN /\ writable \in BOOLEAN
    /\ up \in BOOLEAN /\ locked \in BOOLEAN
    /\ Exists => DOMAIN table \subseteq Nat /\ \A i \in DOMAIN table : table[i] \in Rows
InstanceOK(p) ==
    /\ pc[p] = "idle" \/ pc[p] \in Verdicts \/ Running(p)
    /\ conn[p] \in BOOLEAN /\ topOfHour[p] \in BOOLEAN
    /\ hurt[p] \in BOOLEAN /\ crowded[p] \in BOOLEAN
    /\ id[p] \in Ids /\ rid[p] \in RollbackIds \cup {0}
    /\ tx[p] \in {None, 999, 0} /\ saw[p] \subseteq BOOLEAN
    /\ tx[p] # None => pc[p] \in TxSteps /\ conn[p]
TypeOK == ServerOK /\ \A p \in Instances : InstanceOK(p)

\* The rollback test never leaves a trace, even when a check is cut in the
\* middle of it: the committed rows are rows of the write test, so the table
\* never has more than --range rows.
OnlyProbesCommitted ==
    Exists => \A i \in DOMAIN table : i \in Ids /\ table[i].t1 \in Instances

\* What no check can be blamed for: a fault, or the check of another instance.
Troubled(p) == hurt[p] \/ crowded[p]

\* No instance raises a false alarm: a check fails only if a fault met it, the
\* server was read-only at some time of it, or another instance's check ran at
\* some time of it, also on a missing database, a table just dropped, and
\* whatever rows the checks and crashes of any instance left behind (test_rw).
FailsForAReason ==
    \A p \in Instances : pc[p] = "failed" => Troubled(p) \/ FALSE \in saw[p]

\* The verdicts PulseLoop builds on are backed by the server: "passed" by a
\* server that was writable at some time of the check, "readonly" by one that
\* was not, though it fails over between any two statements.
EvidenceHolds ==
    \A p \in Instances : /\ pc[p] = "passed"   => TRUE \in saw[p]
                         /\ pc[p] = "readonly" => FALSE \in saw[p]

\* The check of an instance, as CheckOutcome sees it.
PhaseOf(p) == IF Running(p) THEN "running" ELSE pc[p]
MetOf(p)   == IF pc[p] = "idle" THEN {}
              ELSE {IF w THEN "writable" ELSE "readonly" : w \in saw[p]}
                   \cup (IF Troubled(p) THEN {"trouble"} ELSE {})
Watched    == CHOOSE p \in Instances : TRUE
Outcome    == INSTANCE CheckOutcome WITH phase <- PhaseOf(Watched), met <- MetOf(Watched)

\* An instance's check implements the contract PulseLoop builds on, however many
\* share the database: one verdict per check, backed by what that check met and
\* kept until recorded, nothing of an earlier check left in it, also after a
\* crash.  Instances are alike, so it is stated of any one.
ImplementsOutcome == Outcome!Spec

\* On MySQL and MariaDB the cleanup deletes no row written within the hour
\* (README.md:527, "Records older than 1 hour are deleted").  On PostgreSQL it
\* may: the upsert leaves t2 as it was, so a row first written an hour ago goes
\* however fresh it is.
CleanupSparesRecent ==
    [][\A p \in Instances : Cleanup(p) /\ Exists /\ kind # "postgres" =>
          \A i \in DOMAIN table \ DOMAIN table' : table[i].stale]_vars

\* Each check ends, whatever locks others hold for ever, as far as the server
\* limits every wait: on PostgreSQL and MariaDB.
CheckEnds == \A p \in Instances : Running(p) /\ kind # "mysql" ~> ~Running(p)

\* Checks go on passing once nothing hurts them: no fault, and no point where
\* one interrupted an earlier check, leaves the database in a state the next
\* checks fail on.
Recovers == \/ []<>(\E p \in Instances : Troubled(p) \/ FALSE \in saw[p])
            \/ \A p \in Instances : []<>(pc[p] = "passed")

\* Claimed by README.md:275 ("These timeouts prevent the health probe from
\* hanging on locked tables"), for all three servers.
NeverHangsOnLocks == \A p \in Instances : Running(p) ~> ~Running(p)

\* Claimed by README.md:69 (--range "prevents conflicts in multi-instance
\* setups"): instances that share a database do not make each other's checks
\* fail.  Fails on a database and a table that are there to stay: all use the
\* table dbpulse_rw, and an id drawn by two of them is overwritten between the
\* insert and the verification.
InstancesIndependent ==
    \A p \in Instances : pc[p] = "failed" => hurt[p] \/ FALSE \in saw[p]
=============================================================================
