------------------------------ MODULE PulseLoop ------------------------------
(***************************************************************************)
(* The monitoring loop of dbpulse (src/pulse.rs: run_loop, run_iteration,  *)
(* record_success, record_error) and the part of the Prometheus registry   *)
(* it writes.  /metrics is served by other threads, so every write to a    *)
(* metric family is a step of its own: a state of this module is something *)
(* a scrape can see.                                                       *)
(*                                                                         *)
(* The health check itself is one await here: it answers, fails, panics or *)
(* never comes back, as the database it talks to decides.  HealthCheck     *)
(* opens it up.                                                            *)
(***************************************************************************)
EXTENDS Naturals

CONSTANTS
    Hosts,      \* backend names a check may report (db_host)
    Releases,   \* server versions a check may report
    Sessions,   \* (TLS version, cipher) pairs a connection may negotiate
    Modes,      \* the behaviours of the database considered: "writable" (it
                \* takes the write test), "replica" (it says it is read-only),
                \* "down" (some statement fails), "silent" (no answer at all)
    Ranges,     \* values of --range, the upper limit of the random row id
    TlsEnabled, \* tls.mode.is_enabled()
    None        \* the None of every Option<_>, and "no such series yet"

Versions == Releases \X BOOLEAN  \* <<release, marked read-only>>

ASSUME ModesAssumption == Modes \subseteq {"writable", "replica", "down", "silent"}
ASSUME RangeAssumption == Ranges \subseteq Nat
ASSUME TlsAssumption   == TlsEnabled \in BOOLEAN
ASSUME NoneAssumption  == /\ None \notin Hosts
                          /\ None \notin Versions
                          /\ None \notin Sessions
                          /\ None \notin {0, 1}

VARIABLES
    pc,            \* where the monitoring task is
    res,           \* the Result of the check being recorded
    lastVersion,   \* LoopLabels.last_version_label
    lastHost,      \* LoopLabels.last_host_label
    pulse,         \* PULSE: None until first touched (LazyLock), then 0 or 1
    readonly,      \* DB_READONLY
    versionSeries, \* label values DATABASE_VERSION_INFO exposes
    hostSeries,    \* label values DATABASE_HOST_INFO exposes
    tlsSeries,     \* label values TLS_INFO exposes
    inc,           \* what the running iteration added to each counter
    mode,          \* what the database does when asked
    range,         \* --range
    stdout, stderr,\* whether the standard streams still take a write
    seen           \* history: the modes the running check has met

labels     == <<lastVersion, lastHost>>
loopVars   == <<pc, res, labels, inc>>
gauges     == <<pulse, readonly>>
infoSeries == <<versionSeries, hostSeries, tlsSeries>>
metricVars == <<gauges, infoSeries>>
envVars    == <<mode, range, stdout, stderr, seen>>
vars       == <<loopVars, metricVars, envVars>>

Answers == [ok : {TRUE}, version : Versions, host : Hosts \cup {None},
            tls : Sessions \cup {None}]
Errors  == [ok : {FALSE}, tlsError : BOOLEAN]

Counters  == {"success", "error", "errors", "stamps", "runtime", "panics",
              "tlsErrors"}
NoCounts  == [c \in Counters |-> 0]
Bump(c)   == inc' = [inc EXCEPT ![c] = @ + 1]
Goto(a, b) == pc = a /\ pc' = b

\* The label value to remove before the current one is set.
\* Mutant: the remembered label is never removed.
KeepsOutdated(last, current) == {}
Outdated(last, current) == {last} \ {None, current}

\* An error carries no host: record_error calls the update with None.
HostOf(r) == IF r.ok THEN r.host ELSE None

\* The check appends "... recovery mode" or "... read-only ..." to the release.
\* Mutant: the wording looked for is not the wording appended.
NeverReadOnly(r)   == FALSE
IsReadOnly(r)      == r.ok /\ r.version[2]
IsWriteVerified(r) == r.ok /\ ~IsReadOnly(r)

\* What a successful result makes of the gauges.
\* Mutants: the flag is not reset; the pulse is set only the first time.
ReadonlySticky(r) == IF IsReadOnly(r) THEN 1 ELSE readonly
ReadonlyOf(r)     == IF IsReadOnly(r) THEN 1 ELSE 0
PulseOnce(r)      == IF IsReadOnly(r) THEN 0 ELSE IF pulse = None THEN 1 ELSE pulse
PulseOf(r)        == IF IsReadOnly(r) THEN 0 ELSE 1

\* PULSE.set(0).  Mutant: it is forgotten.
KeepPulse  == pulse' = pulse
LowerPulse == pulse' = 0

\* LAST_SUCCESS for a verified write, DB_ERRORS for everything else.
DetailOf(r) == IF IsWriteVerified(r) THEN "stamps" ELSE "errors"

\* The HistogramTimer of the iteration has not been consumed yet.
\* Mutant: it is observed again when dropped.
TimerNeverStops == TRUE
TimerRuns       == inc["runtime"] = 0

\* In one of the two sleeps.  Mutant: the one after a panic never ends.
AsleepOnlyAfterPrint == pc = "sleep"
Asleep               == pc \in {"sleep", "panic_sleep"}

Init ==
    /\ pc = "start"
    /\ res = None
    /\ lastVersion = None /\ lastHost = None
    /\ pulse = None /\ readonly = None
    /\ versionSeries = {} /\ hostSeries = {} /\ tlsSeries = {}
    /\ inc = NoCounts
    /\ mode \in Modes /\ range \in Ranges
    /\ stdout = TRUE /\ stderr = TRUE
    /\ seen = {}

-----------------------------------------------------------------------------
(* The iteration and its check, as HealthSignal and CheckOutcome see them. *)

Phase ==
    CASE pc \in {"check", "hung"}                           -> "checking"
      [] pc \in {"version_drop", "version_set", "error_pulse",
                 "readonly", "pulse"}                       -> "concluded"
      [] pc \in {"host_drop", "host_set"}                   ->
            IF res.ok THEN "concluded" ELSE "published"
      [] pc \in {"error_print", "count", "detail", "tls",
                 "observe", "print"}                        -> "published"
      [] pc \in {"unwind", "caught", "caught_pulse"}        -> "aborted"
      [] pc = "dead"                                        -> "dead"
      [] OTHER                                              -> "idle"

VerdictOf(r) == IF ~r.ok THEN "failed" ELSE IF IsReadOnly(r) THEN "readonly" ELSE "passed"
CheckPhase   == CASE Phase = "checking"  -> "running"
                  [] Phase = "concluded" -> VerdictOf(res)
                  [] OTHER               -> "idle"

Encounter(m) == CASE m = "writable" -> "writable"
                  [] m = "replica"  -> "readonly"
                  [] OTHER          -> "trouble"
Encountered  == {Encounter(m) : m \in seen}

Contract == INSTANCE CheckOutcome
              WITH phase <- CheckPhase, met <- IF CheckPhase = "idle" THEN {} ELSE Encountered

-----------------------------------------------------------------------------
(* The check, seen from run_iteration.                                     *)

StartIteration ==
    /\ Goto("start", "check")
    /\ inc' = NoCounts
    /\ seen' = {mode}
    /\ UNCHANGED <<res, labels, metricVars, mode, range, stdout, stderr>>

\* A check is many statements long: it is answered by a database it met, which
\* need not be the one there now (CheckOutcome).
CheckAnswers ==
    /\ Goto("check", "version_drop")
    /\ \E v \in {"passed", "readonly"}, r \in Releases,
          h \in Hosts \cup {None}, t \in Sessions \cup {None} :
          /\ Contract!Backs(Encountered, v)
          /\ v = "passed" => range > 0
          /\ t # None => TlsEnabled
          /\ res' = [ok |-> TRUE, version |-> <<r, v = "readonly">>,
                     host |-> h, tls |-> t]
    /\ UNCHANGED <<labels, inc, metricVars, envVars>>

\* Any statement may find the database down, or changed since the one before;
\* on a replica the database itself may be missing.  Silence is no error.
CheckFails ==
    /\ Goto("check", "error_pulse")
    /\ seen # {"silent"} /\ Contract!Backs(Encountered, "failed")
    /\ \E e \in BOOLEAN : res' = [ok |-> FALSE, tlsError |-> e]
    /\ UNCHANGED <<labels, inc, metricVars, envVars>>

\* random_range(0..range) panics on an empty range, and eprintln! once stderr is
\* gone: of the row count or the table size of MySQL, that only a writable
\* database is asked for, or of a failed TLS probe, on a replica as well.
EmptyRange == "writable" \in seen /\ range = 0
SizeFails  == "writable" \in seen /\ ~stderr
ProbeFails == seen \cap {"writable", "replica"} # {} /\ TlsEnabled /\ ~stderr

CheckPanics ==
    /\ Goto("check", "unwind")
    /\ EmptyRange \/ SizeFails \/ ProbeFails
    /\ UNCHANGED <<res, labels, inc, metricVars, envVars>>

\* No await of the check carries a client-side deadline.  A silent peer is one
\* whose kernel or proxy keeps the connection while nobody answers on it (a
\* stopped server): no error ever arrives, and nothing makes the task give up.
CheckHangs ==
    /\ Goto("check", "hung")
    /\ mode = "silent"
    /\ UNCHANGED <<res, labels, inc, metricVars, envVars>>

HangEnds ==
    /\ Goto("hung", "check")
    /\ mode # "silent"
    /\ UNCHANGED <<res, labels, inc, metricVars, envVars>>

-----------------------------------------------------------------------------
(* record_success and record_error, one action per metric family write.    *)

DropOldVersion ==
    /\ Goto("version_drop", "version_set")
    /\ versionSeries' = versionSeries \ Outdated(lastVersion, res.version)
    /\ UNCHANGED <<res, labels, inc, gauges, hostSeries, tlsSeries, envVars>>

SetVersion ==
    /\ Goto("version_set", "host_drop")
    /\ versionSeries' = versionSeries \cup {res.version}
    /\ lastVersion' = res.version
    /\ UNCHANGED <<res, lastHost, inc, gauges, hostSeries, tlsSeries, envVars>>

ErrorPulse ==
    /\ Goto("error_pulse", "error_print")
    /\ LowerPulse
    /\ UNCHANGED <<res, labels, inc, readonly, infoSeries, envVars>>

\* eprintln! panics when the stream is gone.
ErrorPrint ==
    /\ Goto("error_print", IF stderr THEN "host_drop" ELSE "unwind")
    /\ UNCHANGED <<res, labels, inc, metricVars, envVars>>

DropOldHost ==
    /\ Goto("host_drop", "host_set")
    /\ hostSeries' = hostSeries \ Outdated(lastHost, HostOf(res))
    /\ UNCHANGED <<res, labels, inc, gauges, versionSeries, tlsSeries, envVars>>

\* Mutant: None becomes a label value.
SetAnyHost ==
    /\ Goto("host_set", IF res.ok THEN "readonly" ELSE "count")
    /\ hostSeries' = hostSeries \cup {HostOf(res)}
    /\ lastHost' = HostOf(res)
    /\ UNCHANGED <<res, lastVersion, inc, gauges, versionSeries, tlsSeries, envVars>>

SetHost ==
    /\ Goto("host_set", IF res.ok THEN "readonly" ELSE "count")
    /\ hostSeries' = hostSeries \cup ({HostOf(res)} \ {None})
    /\ lastHost' = HostOf(res)
    /\ UNCHANGED <<res, lastVersion, inc, gauges, versionSeries, tlsSeries, envVars>>

SetReadonly ==
    /\ Goto("readonly", "pulse")
    /\ readonly' = ReadonlyOf(res)
    /\ UNCHANGED <<res, labels, inc, pulse, infoSeries, envVars>>

SetPulse ==
    /\ Goto("pulse", "count")
    /\ pulse' = PulseOf(res)
    /\ UNCHANGED <<res, labels, inc, readonly, infoSeries, envVars>>

CountIteration ==
    /\ Goto("count", "detail")
    /\ Bump(IF IsWriteVerified(res) THEN "success" ELSE "error")
    /\ UNCHANGED <<res, labels, metricVars, envVars>>

CountDetail ==
    /\ Goto("detail", "tls")
    /\ Bump(DetailOf(res))
    /\ UNCHANGED <<res, labels, metricVars, envVars>>

ApplyTls ==
    /\ Goto("tls", "observe")
    /\ IF res.ok
       THEN /\ tlsSeries' = tlsSeries \cup ({res.tls} \ {None})
            /\ UNCHANGED inc
       ELSE /\ IF TlsEnabled /\ res.tlsError THEN Bump("tlsErrors")
                                             ELSE UNCHANGED inc
            /\ UNCHANGED tlsSeries
    /\ UNCHANGED <<res, labels, gauges, versionSeries, hostSeries, envVars>>

-----------------------------------------------------------------------------
(* The end of an iteration, and catch_unwind in run_loop.                  *)

ObserveRuntime ==
    /\ Goto("observe", "print")
    /\ Bump("runtime")
    /\ UNCHANGED <<res, labels, metricVars, envVars>>

PrintPulse ==
    /\ Goto("print", IF stdout THEN "sleep" ELSE "unwind")
    /\ UNCHANGED <<res, labels, inc, metricVars, envVars>>

\* Unwinding drops the HistogramTimer, which observes itself unless
\* observe_duration already consumed it.
Unwind ==
    /\ Goto("unwind", "caught")
    /\ IF TimerRuns THEN Bump("runtime") ELSE UNCHANGED inc
    /\ UNCHANGED <<res, labels, metricVars, envVars>>

\* The handler prints before it touches the metrics, outside catch_unwind.
CaughtPrint ==
    /\ Goto("caught", IF stderr THEN "caught_pulse" ELSE "dead")
    /\ UNCHANGED <<res, labels, inc, metricVars, envVars>>

CaughtPulse ==
    /\ Goto("caught_pulse", "caught_count")
    /\ LowerPulse
    /\ UNCHANGED <<res, labels, inc, readonly, infoSeries, envVars>>

CaughtCount ==
    /\ Goto("caught_count", "panic_sleep")
    /\ Bump("panics")
    /\ UNCHANGED <<res, labels, metricVars, envVars>>

Wake ==
    /\ Asleep
    /\ pc' = "start"
    /\ UNCHANGED <<res, labels, inc, metricVars, envVars>>

-----------------------------------------------------------------------------
(* The environment.                                                        *)

ModeChanges ==
    /\ mode' \in Modes \ {mode}
    /\ seen' = IF pc \in {"check", "hung"} THEN seen \cup {mode'} ELSE seen
    /\ UNCHANGED <<loopVars, metricVars, range, stdout, stderr>>

StreamBreaks ==
    /\ \/ stdout /\ stdout' = FALSE /\ UNCHANGED stderr
       \/ stderr /\ stderr' = FALSE /\ UNCHANGED stdout
    /\ UNCHANGED <<loopVars, metricVars, mode, range, seen>>

CheckStep  == StartIteration \/ CheckAnswers \/ CheckFails \/ CheckPanics
RecordStep == DropOldVersion \/ SetVersion \/ ErrorPulse \/ ErrorPrint
              \/ DropOldHost \/ SetHost \/ SetReadonly \/ SetPulse
              \/ CountIteration \/ CountDetail \/ ApplyTls
EndStep    == ObserveRuntime \/ PrintPulse \/ Unwind \/ CaughtPrint
              \/ CaughtPulse \/ CaughtCount \/ Wake

LoopStep == CheckStep \/ RecordStep \/ EndStep

Next == LoopStep \/ CheckHangs \/ HangEnds \/ ModeChanges \/ StreamBreaks

Spec     == Init /\ [][Next]_vars
\* The runtime polls a ready task again and the timer fires; a database that
\* is not silent answers or refuses.  Nothing is promised about the peer of a
\* hung connection, the database's mode or the streams.
FairSpec == Spec /\ WF_vars(LoopStep)

-----------------------------------------------------------------------------
(* Properties.                                                             *)

Judged    == pc \in {"observe", "print", "sleep"}
Dead      == pc = "dead"

PCs == {"start", "check", "hung", "version_drop", "version_set", "error_pulse",
        "error_print", "host_drop", "host_set", "readonly", "pulse", "count",
        "detail", "tls", "observe", "print", "sleep", "unwind", "caught",
        "caught_pulse", "caught_count", "panic_sleep", "dead"}

\* Every variable has its type; in particular a success-only step only ever
\* sees a successful result, and no label series is made for a missing value.
TypeOK ==
    /\ pc \in PCs
    /\ res \in Answers \cup Errors \cup {None}
    /\ lastVersion \in Versions \cup {None}
    /\ lastHost \in Hosts \cup {None}
    /\ pulse \in {None, 0, 1}
    /\ readonly \in {None, 0, 1}
    /\ versionSeries \subseteq Versions
    /\ hostSeries \subseteq Hosts
    /\ tlsSeries \subseteq Sessions
    /\ inc \in [Counters -> Nat]
    /\ mode \in Modes /\ range \in Ranges
    /\ stdout \in BOOLEAN
    /\ stderr \in BOOLEAN
    /\ seen \subseteq Modes

\* The series the two info metrics expose are exactly the labels the loop
\* remembers, so the next update can remove them: whatever the order of
\* failovers, upgrades, errors and panics, a scrape never sees two versions or
\* two hosts, and the only gap is between removing a label and setting its
\* successor (update_database_version_metric, update_database_host_metric).
SeriesTracked ==
    /\ versionSeries = ({lastVersion} \ {None}) \
          (IF pc = "version_set" THEN Outdated(lastVersion, res.version) ELSE {})
    /\ hostSeries = ({lastHost} \ {None}) \
          (IF pc = "host_set" THEN Outdated(lastHost, HostOf(res)) ELSE {})

\* DB_READONLY is written before PULSE, so a scrape between the two may read a
\* raised pulse of a database already marked read-only; there is no other
\* state, however the checks fail in between, where both are 1.
NoTornVerdict == pulse = 1 /\ readonly = 1 => pc = "pulse"

\* Once an iteration has recorded its check, a pulse of 1 means the database
\* took a write while that check ran, and a pulse of 0 means it was down or a
\* replica at some time of it: neither a false health report nor a false alarm,
\* though the database changes at any time.
VerdictHonest ==
    Judged => /\ pulse \in {0, 1}
              /\ pulse = 1 => "writable" \in seen
              /\ pulse = 0 => seen # {"writable"}

\* What a finished iteration added to the counters balances, at whatever point
\* a panic cut it short: one runtime observation, at most one status, an entry
\* of DB_ERRORS for each "error", a stamp of LAST_SUCCESS for each "success";
\* the gauge agrees with the counters, and a recovered panic always lowers it.
CountedOnce ==
    Asleep => /\ inc["runtime"] = 1
             /\ inc["errors"] = inc["error"]
             /\ inc["stamps"] = inc["success"]
             /\ inc["tlsErrors"] <= inc["error"]
             /\ inc["success"] + inc["error"] \in (IF pc = "sleep" THEN {1} ELSE {0, 1})
             /\ inc["panics"] = (IF pc = "sleep" THEN 0 ELSE 1)
             /\ pulse = (IF pc = "sleep" THEN inc["success"] ELSE 0)

\* The pulse rises only when the version and host a scrape would show beside
\* it are those of the very check that raises it.
RaisedWithCurrentLabels ==
    [][pulse # 1 /\ pulse' = 1 => /\ versionSeries' = {res.version}
                                 /\ hostSeries' = {res.host} \ {None}
                                 /\ readonly' = 0]_vars

\* A database that stays down or a replica is eventually shown as such, and for
\* good, unless the monitoring task dies: a check that panics before its verdict,
\* with --range 0 or in the TLS probe of a replica, hides no outage, since the
\* handler lowers the pulse or, without stderr, dies too.
OutageReported ==
    <>[](mode \in {"down", "replica"}) => <>[](pulse = 0) \/ <>Dead

\* A database that stays writable is eventually shown as healthy, and for
\* good, with a usable --range and as long as the standard streams take what
\* the loop prints.
RecoveryReported ==
    <>[](mode = "writable" /\ range > 0 /\ stdout /\ stderr)
        => <>[](pulse = 1) \/ <>Dead

\* The loop comes back to check the database for ever, also after a panic.
LoopKeepsRunning == []<>(pc = "check") \/ <>Dead

\* The abstract health signal of HealthSignal, as the loop produces it.
Verdict == IF Phase # "concluded" THEN None
           ELSE IF IsWriteVerified(res) THEN 1 ELSE 0

Signal == INSTANCE HealthSignal WITH signal <- pulse, phase <- Phase, verdict <- Verdict

\* The loop implements HealthSignal: each check ends in one published verdict
\* or in an abort that withdraws the signal, and the signal moves at no other
\* time; a verdict reached is always published.
ImplementsSignal == Signal!Spec

\* The one check the loop awaits is a check of CheckOutcome, which HealthCheck
\* implements: a result is taken for the verdict the check reached, never for
\* that of an earlier iteration or of what the database became meanwhile, and
\* each verdict reached is recorded, once, at whatever point a panic strikes.
AwaitsContract == Contract!Spec

\* Claimed by tests/pulse_robustness_test.rs:30-42 ("False positive health
\* reports (pulse=1 when DB is actually down)", "Metrics always reflect accurate
\* state"): an outage of any kind ends in a pulse that is no longer 1.  Fails
\* when the database goes silent: run_iteration awaits the check for ever.
AnyOutageReported ==
    <>[](mode # "writable") => <>[](pulse # 1) \/ <>Dead
=============================================================================
