# dbpulse: specification, model checking and proofs

dbpulse connects to a PostgreSQL, MySQL or MariaDB server every few seconds,
tests that it takes a write, and serves the outcome on `/metrics`. Others page
people on its one bit, `dbpulse_pulse`. This directory holds TLA+ modules
translated from the source, TLC configurations that check them on small
instances, and theorems that TLAPS proves for every value of the constants.

Paths below are relative to the repository.

## 1. The system

| Component | State | Operations | Talks to |
| --- | --- | --- | --- |
| Service, `src/pulse.rs` `start` | listener, monitor's `JoinHandle`, shutdown channel, server future | bind, spawn, serve, `select!`, return | tokio, axum, the monitor |
| Monitoring loop, `src/pulse.rs` `run_loop`, `run_iteration`, `record_*` | `LoopLabels`, the metric families of `src/metrics.rs` | one iteration: check, record, print, sleep; `catch_unwind` | the check; scrapes read its metrics at any time |
| Check, `src/queries/postgres.rs`, `mysql.rs` | one session; the table `dbpulse_rw`; the database | connect, create database, session limits, read-only test, create table, upsert and verify, rollback test, cleanup, hourly drop | the server; other dbpulse instances through the table |
| Certificate cache, `src/tls/cache.rs` | a map from key to metadata and time | `get`, `set`, `cleanup`, `get_cert_metadata_cached` | the probe |
| Certificate probe, `src/tls/probe.rs` | one TCP and TLS connection | SSLRequest or STARTTLS, handshake, parse the certificate | the server |
| Configuration, `src/cli`, `src/tls/config.rs` | none after start | DSN, TLS parameters, interval, range | the service |

`src/tls/verifier.rs` is not used by the program. Dashboards, packaging and
scripts are not part of it.

**What is hard.** Scrapes run on other threads than the loop, so each metric
write is visible on its own. The check is some fifteen statements long, and a
failover, a restart, a lock, a crash or another instance comes between any two
of them. Results are recorded in two functions that must agree with each other,
and a panic may cut either. No await of the check has a deadline of the client's
own. `select!`, the channel and the `JoinHandle` all announce the death of the
monitor, in an order the code does not fix. The certificate shown has been kept
for up to an hour, was read on a connection of its own, and belongs to a server
that may have been replaced since; its age is measured on one clock and the
pause between checks on another. `PROJECT.json` lists these hazards with the
line where each one bites.

**What makes each component correct.**

- *Loop*: the pulse is 1 only with evidence, 0 only with a reason; an outage
  and a recovery are eventually shown; labels never go stale; counters balance;
  panics do not stop it.
- *Service*: only the address asked for is bound; nothing stops a healthy
  process; the death of the monitor stops it and is an error; scrapes are
  answered while what the loop prints gets through.
- *Check*: it fails only for a reason, which another instance's check may be; a
  verdict is backed by the server; the rollback test leaves no trace; the table
  stays small; checks end, and recover.
- *Cache*: a certificate that was replaced, or has expired, is served as it was
  for less than a TTL more; a failed probe is neither kept nor costs what was kept; a renewal is eventually shown.
- *Probe*: it and the server never wait for each other; a failure costs the
  check nothing but the certificate, and is counted once; a failed status query
  costs it all of its TLS metadata.
- *Configuration*: TLS that was asked for is not given up.

## 2. Modules

| Module | Models | Lines of code |
| --- | --- | --- |
| `HealthSignal` | what `dbpulse_pulse` promises: rounds of check, verdict, publication, or an abort that withdraws the signal | abstract |
| `PulseLoop` | the loop, one action per metric family write | `src/pulse.rs:132-405` |
| `PulseLoopProofs` | theorems about `PulseLoop` | |
| `Service` | the process | `src/pulse.rs:36-131` |
| `ServiceProofs` | theorems about `Service` | |
| `HealthCheck` | the check, one action per statement or group of statements with one effect, for any number of instances | `src/queries/postgres.rs`, `mysql.rs` |
| `HealthCheckProofs` | theorems about any number of instances | |
| `OutcomeProofs` | that every instance's check fails only for a reason, and keeps `CheckOutcome` | |
| `RowsProofs` | theorems about the table: how large it gets, what the cleanup deletes | |
| `CheckOutcome` | what the loop relies on when it awaits a check | abstract |
| `TlsConfig` | DSN parameters to the TLS settings of the session and of the probe | `src/cli/dispatch/mod.rs`, `src/tls/config.rs` |
| `CertCache` | the cache of certificate metadata, for the one key a process uses | `src/tls/cache.rs` |
| `TlsProbe` | the certificate probe, one action per await, and its errors | `src/tls/probe.rs` |
| `CertWatch` | checks in time: the TLS metadata of each, the cache, the probe, the gauge, the pause | `src/pulse.rs`, `extract_tls_metadata` of both drivers |
| `CertWatchProofs` | theorems about `CertWatch` | |
| `MC*` | symmetry sets, DSNs and clocks for TLC | |

How they compose: `Service` sees the monitor from outside (polled, printing,
waiting, spinning, dead); `PulseLoop` says when each of these happens and sees the check
as one await; `HealthCheck` opens that await. `CheckOutcome` is the contract
between the two: a check concludes with a verdict that what it met backs
(`Backs`), keeps it until it is recorded, and starts afresh. "passed" needs a
moment when the server was writable, "readonly" one when it was not, and
"failed" anything but a server that was writable all along. `PulseLoop` is
written with it: `CheckAnswers` and `CheckFails` are guarded by the contract's
`Backs`, and `AwaitsContract` says that the check it awaits is one of
`CheckOutcome`, from its first await to the last write of its result.
`HealthCheck` implements the same contract for every instance, with another
instance's check that overlaps counted as trouble (`ImplementsOutcome` of one of
several in the runs, `ContractKept` of each, for its safety part). What does
not hold is that instances are independent: `check_conflict` is the
counterexample.
`CertWatch` looks at the same checks from another side: it extends `TlsProbe`
(which extends `TlsConfig`), instantiates `CertCache` with its own variables,
keeps time, and takes the session with its write test as one step, since nothing
in them touches a certificate.

**PulseLoop.** `pc` is the place of the task in `run_iteration`,
`record_success`, `record_error`, or the handler after `catch_unwind`. `res` is
the `Result` being recorded. Gauges are `None` until first touched, because the
registry's statics are lazy. The info metrics are the sets of label values they
expose; counters are what the current iteration added to each (`inc`), so no
bound on them is needed. A version is a pair of a release and a mark, since the
check appends "recovery mode" or "read-only" to the text and
`is_database_read_only` looks for it. `mode` is the database: writable, replica,
down, or silent. `seen`, a history variable, holds the modes the running check
met. Writing to a stream nobody reads panics, inside `catch_unwind`
(`PrintPulse`, `ErrorPrint`, `CheckPanics`) or outside it (`CaughtPrint`). A
check panics before it has a verdict for three reasons: an empty range
(`EmptyRange`), a size query of MySQL that fails (`SizeFails`), both of a writable
database only, and a TLS probe that fails, on a replica as well (`ProbeFails`);
the last two print to stderr and need it gone.

**Service.** `main` is the place in `start`. `monitor` is polled, printing the
line of an iteration, waiting, spinning (the unsupported driver), unwound
(future and channel sender dropped) or joined. A poll keeps its worker, and
dropping the runtime waits for it. `println!` blocks while the reader of stdout
makes no room (`drained`), and fails once that reader is gone (`stdout`). The
reader of stderr is taken to make room.

**HealthCheck.** `table` is `None` or the committed rows; a row keeps its
writer, whether `t2` is over an hour old and whether the row really is. `tx` is
the uncommitted value of an instance's rollback row. Cutting a session rolls its
transaction back. `Kinds` selects the servers; `kind` decides whether the upsert
refreshes `t2` (MySQL's `ON UPDATE`) and which waits the session limits end:
all of them on PostgreSQL (`statement_timeout`, `lock_timeout`) and MariaDB
(`max_statement_time`), on MySQL only SELECTs (`max_execution_time`) and waits
for rows (`innodb_lock_wait_timeout`). The server, its locks and its faults are
external. `saw`, `hurt` and `crowded` are history: how the server was while a
check ran, whether a fault met it, and whether another instance's check ran at
some time of it. `Troubled` is either of the last two. `phase` and `met` of
`CheckOutcome` are functions of `pc` and these.

**CertWatch.** `pc` is the place in a check: session, `pg_stat_ssl` or
`SHOW STATUS` (`status`), cache (`lookup`), probe, recording, and the pause. The
two drivers take `status` and `lookup` in opposite orders, and both swallow an
error of the status query with everything gathered so far (`StatusFails`),
whether the session was cut or only the query failed, by a limit of the session
or a row that does not decode; `refused` remembers it. `meta` is `TlsMetadata` as far
as certificates go. `dsn` is a record of driver, host and parameters;
`ExtractTlsConfig` makes the settings of it that `SessionPossible` and the probe
use. A tick is a unit of `Instant`, the clock of cache entries. The pause is
computed from the wall clock, which may have stepped by `step` during the check.
`renewed`, `lapsed` and `probed` are history: ticks since the certificate was
replaced, since it expired, and since a probe succeeded.

**TlsProbe.** `at` is the next await of `probe_certificate_expiry`; `wants` is
what the server at the other end is waiting for, so a probe that writes the
wrong thing, or waits for what never comes, shows. The server may be another one
before any step. An error is the set of words its message holds, because the
callers choose the label of the counter by looking for words in it (`Label`).
The server, its certificate, its replacement and the client's files are
external.

**CertCache.** `entry` is `None` or the metadata with the age of its timestamp;
an age beyond the TTL is not counted any more, since `get` only compares. The
key is not modelled: one process has one DSN, and so one key.

Operators named as mutants in a comment are used only to show that a property
can fail: each replaces the definition after it.

## 3. Runs

| Run | Shows |
| --- | --- |
| `loop_safety` | `TypeOK`, `SeriesTracked`, `NoTornVerdict`, `VerdictHonest`, `CountedOnce`, `RaisedWithCurrentLabels`, for every database behaviour, with and without panics |
| `loop_live` | `OutageReported`, `RecoveryReported`, `LoopKeepsRunning`, that the loop implements `HealthSignal`, liveness included, and that its check is one of `CheckOutcome` (`AwaitsContract`) |
| `loop_silent` | *violation*: `AnyOutageReported` |
| `service_life` | `BindingRespected`, `StopsForAReason`, `MonitorDeathExits`, `ScrapesAnswered` |
| `service_death` | *violation*: `DeathReported` |
| `service_unsupported` | *violation*: `UnsupportedEnds` |
| `check_alone` | `OnlyProbesCommitted`, `FailsForAReason`, `EvidenceHolds`, `CleanupSparesRecent`, `Recovers`, and that the check implements `CheckOutcome`: one instance, three servers, every fault |
| `check_shared` | `OnlyProbesCommitted`, `EvidenceHolds`, `FailsForAReason`, `CheckEnds`, and that an instance's checks implement `CheckOutcome`: two instances |
| `check_mysql_lock` | *violation*: `NeverHangsOnLocks` |
| `check_conflict` | *violation*: `InstancesIndependent` |
| `tls_watch` | `StaleAtMostTTL`, `LapseAtMostTTL`, `CacheExact`, `NeverMixed`, `InStep`, `FailureContained`, `NoDowngrade`, `Paced`, `RenewalShown`: four DSNs, five servers, renewals, lost client files, no cache or one |
| `tls_expired` | *violation*: `ExpiredShownNegative` |

**What the violations say.**

- `loop_silent`: a server that stops answering without an error (a stopped
  process behind an open connection) leaves `dbpulse_pulse` as it was, for ever:
  the check has no deadline of its own. The robustness tests wrap an iteration
  of theirs in a timeout; `run_loop` does not.
- `service_death`: when a panic kills the monitor, the channel's sender goes
  first; the server's graceful shutdown may win `select!`, and the process exits
  with success and no message.
- `service_unsupported`: `run_iteration` returns for an unsupported driver
  without an await, and `run_loop` spins; the shutdown of the runtime waits for
  it. `dispatch` accepts any driver.
- `check_mysql_lock`: no session limit covers a write that waits for a table
  lock on MySQL.
- `check_conflict`: instances share the table `dbpulse_rw` whatever their
  `--range`. The run starts with the database there and drops no table
  (`CreatedSpec`, `DropBelow` 0), so its trace is the upsert of one instance
  between the INSERT and the SELECT of the other. Where those are not so,
  instances also drop each other's table, or both create the database:
  `FailsForAReason` in `check_shared` allows a failure for any overlap.
- `tls_expired`: `src/metrics.rs` calls the days to expiry "negative if
  expired", but `num_days` truncates toward zero, so a certificate is shown with
  0 days from a day before it expires to a day after. The two alerts of the
  repository's README ask for days above 0 and below 0: neither fires then.

**Met on the way, without a run**: `TLS_INFO` never loses a series; a check that
panics is in neither status of `dbpulse_iterations_total`; PostgreSQL's cleanup
goes by the first insert of a row, since the upsert leaves `t2` alone
(`CleanupSparesRecent` is stated for the other two); the cache key holds the
driver's default port and not the DSN's; the labels "parse" and "timeout" of
`dbpulse_tls_cert_probe_errors_total` are never produced (a certificate nobody
can parse is counted as "handshake", a server without TLS as "connection"); in
a verifying mode an expired certificate is never shown, as the session is
refused first; a full stdout may keep every scrape waiting, on any number of
workers, because `println!` may block the one worker that waits for the sockets
(`ScrapesAnswered` has a premise for that, and fails without it, on two workers
too); a failed probe is tried again at every check, since failures are
not kept; a check whose status query fails shows no TLS metadata, though its probe
may have succeeded; an unknown `sslmode` is TLS disabled, even where a valid `ssl-mode`
stands beside it (`NoDowngrade` is stated for modes there are).

**Bounds.** The loop compares labels for equality only and remembers one of
each, so two hosts, two releases and two sessions (with symmetry) show every
relation between an old label, a new one and `None`; `--range` is 0 or 1, the
panicking and the usable case. Liveness takes one label of each, as no fairness
or guard depends on them. Two scrapers and one or two workers show a scrape
beside a stuck connection, and the monitor keeping the only worker or not; the
fairness is the same for both (below). One
instance with `--range` 2 shows the row written, another row, and a rollback id
(0 or 7) that collides or does not; `DropBelow`, `DropLimit` and `Batch` are 5,
100 000 and 10 000 in the code and 1, 2, 1 here, so each limit is met from both
sides. Two instances share one id, which makes every check a conflict; a third
one would add no new pair of statements. `CertWatch`: TTLs of 0 and 2 ticks
beside an interval of 1 give no cache, and entries that outlive a check or end
in one; a step of the clock by 1 either way is a whole interval. A probe may
take longer than TTL and interval together, as ticks come between any of its
steps. Two certificates are an old and a new one; the five servers each end the
dialogue at a place of their own. A certificate expires one tick or more after
it is issued (`MaxLeft` 0, `MinLeft` -1), as in that run only its being
expired matters; `tls_expired` has two ticks to a day, and follows a certificate
from a day before it expires to more than a day after.
Ages and `elapsed` stop where nothing compares them any further (the TTL,
`MaxElapsed`). No other counter needs a bound.

**Fairness.** The loop: weak fairness of its own steps, since tokio polls ready
tasks and timers fire; nothing for the peer of a hung connection, the database
or the streams. The service: weak fairness for the main thread and for polls in
progress; strong fairness for a write to a reader that makes room again and
again, and for ready tasks (scrapes, the signal task, connections to close) at
those times when no poll of the monitor is in progress (`~Busy`). While one is,
other workers may run them but nothing is asked: a worker that was woken by a
socket and has one task to run wakes no other, so while that task blocks nobody
may be waiting for sockets, and what the task has made ready may sit in its own
worker's queue. Nothing for a client that keeps its connection, a reader that
makes no room, or a database that keeps the monitor waiting.
The check: weak fairness of each instance's next statement, since a server
answers or a session is cut (a silent one is `PulseLoop`'s case); nothing for
locks to be given back or servers to come back. `CertWatch`: weak fairness of
the loop's steps, and time passes: strong fairness of ticks, since there is no
tick between a handshake's end and the stamp of its entry and ticks are
disabled there again and again; nothing of servers, certificates or files, which
`RenewalShown` names as premises, with status queries that stop failing.

`CheckEnds` is checked on PostgreSQL only (`check_shared`), where the session
limits cover every wait; `check_mysql_lock` shows MySQL, where they do not.

`CHECK_DEADLOCK FALSE` appears for `Service` only: an exited process stops.

## 4. Proofs

Proved by TLAPS for all hosts, releases, sessions, database behaviours and
ranges, and for all workers and scrapers:

- `PulseLoopProofs`: `TypeCorrect`, `SeriesAlwaysTracked`, `NeverTorn`,
  `VerdictAlwaysHonest`, `AlwaysRaisedWithCurrentLabels`, `AlwaysCountedOnce`
  (every safety property `loop_safety` checks), `ImplementsSafeSignal` and
  `AwaitsSafeContract`: each step maps to a step of `HealthSignal`, and to one of
  `CheckOutcome`, or a stutter.
- `ServiceProofs`: `TypeCorrect`, `BindingAlwaysRespected`,
  `AlwaysStopsForAReason`.
- `HealthCheckProofs`, for any number of instances, ids and servers:
  `TypeCorrect`, `RollbackLeavesNoTrace` (`OnlyProbesCommitted`) and
  `VerdictsBacked` (`EvidenceHolds`).
- `OutcomeProofs`, for any number of instances: `NoFalseAlarm`
  (`FailsForAReason`); `IndependentAlone`, that one with the database to itself
  fails for a fault or a read-only server only; `ContractKept`, that each step is
  one of `CheckOutcome` or a stutter, as every single instance sees it, and
  `WatchedContract`, the same of the instance `ImplementsOutcome` is about.
- `RowsProofs`, for any number of instances: `TableAlwaysBounded`, at most
  `--range` rows (`README.md`: "Table size remains small");
  `RecentAlwaysSpared` (`CleanupSparesRecent`); `CleanupKeepsUp`, that a range no
  larger than the LIMIT of the cleanup (10 000; the range is 100 by default) never leaves a
  backlog.
- `CertWatchProofs`, for every TTL, interval, step of the clock, DSN and set of
  servers: `TypeCorrect`, `NeverStaler`, `LapseSeenInTime`, `CacheAlwaysExact`,
  `CertificatesNeverMixed`, `AlwaysInStep`, `FailureAlwaysContained`,
  `AlwaysPaced`, `NeverDowngraded` (every safety property `tls_watch` checks),
  and `PositiveAlwaysValid`: with a TTL of at most a day (an hour by default) the
  cache never serves days above zero for a certificate that has expired.

The assumptions are the named ones of the modules: what each constant is, and
that `None` is none of the values it stands beside (`TableAssumption`, for one:
no table is `None`). `MarkerAssumption` says that the two
values of the rollback test are no instance's.

**The argument for the loop.** `TypeOK` is not inductive: `record_success` reads
fields an error does not have. `TypeInv` adds which kind of result each place
holds (`ResultInv`), and every other invariant is proved relative to it. Each of
the others adds what the code relies on between the places: `TornInv` that the
read-only flag is the current result's when the pulse is about to be set;
`VerdictInv` that the evidence of the check still stands while its result is
recorded, and that the gauge shows the result from the write on; `LabelInv` that
the labels are the result's once set; `CountInv` what has been counted at each
place, with each counter added once. `SeriesTracked` is inductive relative to
the types. For the refinement of `HealthSignal`, `Phase` and `Verdict` are
functions of `pc` and `res`, so no history is needed. For `CheckOutcome`, what
the check met is what `seen` holds: the guards of the await say that a verdict is
backed by it when it is reached; `ContractStep` adds that neither result nor
`seen` changes until the write that publishes it, or a panic, gives it up, and
that no other step reaches one.

**For the service**, `LifeInv` follows how far `start` got, and says that with a
supported driver the signal task can only have ended because the monitor was
dropped: no message is ever sent.

**For the check**, `InstanceInv(p)` says of every instance what its session and
transaction hold at each place (`InstanceOK`), and that whatever verdict it is
about to reach is backed already by what it has met (`Backed`). `ServerInv` says
that nothing but probes' values is in the table. Each action of one instance is
shown to leave the others' parts alone. `FailsForAReason` needs more, and what it
needs another instance can break: the table dropped under a check, or its row
overwritten. So `OutcomeInv(p)` speaks of an instance that has met no trouble,
and has three parts. `Apart`: while it runs, no other instance does (a check
that overlaps marks both, the one that begins and the one it finds). `Sound`: the
table is there whenever the check relies on it, and the row it wrote is the one
in it. `NoAlarm`: a failure without trouble has not happened. A step of another
instance either finds this one idle, or overlaps it, or is the end of a check
that has no more statements (`OthersStep`); that is why nothing has to be assumed
of the number of instances. Verdicts and what backs them never change once
reached (`VerdictIsBacked`), which is the refinement of `CheckOutcome`, step by
step, for the instance that moves (`OwnStepRefines`), for the others
(`OthersStepRefines`) and for faults.

**For the table**, `OnlyProbesCommitted` bounds its rows by the ids of the range,
and finite sets do the rest. `Refreshed`, that on MySQL and MariaDB a row whose
`t2` is old has not been written within the hour, is inductive on its own: the
upsert renews both. On PostgreSQL it fails at the upsert.

**For the certificates**, `ResultInv` and `PlaceInv` say which result, metadata
and label each place holds; `FailureContained` follows, as only `StatusFails`
loses metadata of a check that probed. `AgeInv` is the part that needs an idea: the
history variables are compared with the entry's age and not with its being
served. An entry with another certificate than the server's is at least as old
as the replacement, and a certificate replaced between its handshake and the
stamp of its entry was replaced in that same tick, because no await lies between
the two. In the same way an entry that says "not expired" is at least as old as
the expiry; and one with days above zero was stamped with a day left, and has
lost a unit for each tick of its age at most (`DayInv`; a TTL above a day breaks
`PositiveMeansValid`, as the days kept are not counted down). `NoDowngrade` is inductive, given what `ModeFound` says of the two
spellings.

**Model-checked only**: all liveness (`LoopKeepsRunning`, `Recovers`,
`CheckEnds`, `RenewalShown` and the others; of `ImplementsSignal` and
`ImplementsOutcome` the safety part is proved, not the abstract fairness), since
the prover does not reason about fairness or ENABLED. Of `AwaitsContract`, too,
the proof leaves out the fairness of `Record`.

## 5. Not modelled

Durations, sizes, lag, uptime and blocking-query gauges: they are set from one
query and read by nothing. The text of labels and messages, and how sqlx errors
are classified into them. TLS negotiation inside sqlx; the probe's handshake is
one step, and a certificate's staleness is counted from its end. The whole
interval slept after a panic: a panic ends a check early, and the pause is then
longer than `Paced` says by no more than it took. Ids above 2^31, which
PostgreSQL refuses (`--range` is not limited). The parsing of options and DSNs,
the registration and encoding of metrics, `src/tls/verifier.rs`, which nothing
calls, and `CertCache::cleanup`, which only tests call. Dashboards, packaging
and scripts. Deadlocks between InnoDB gap locks: row locks only.
A cut session is rolled back at once; a server that takes a while to notice
would hold the row of a dead check a little longer. `t1` and `uuid` are one
value, the writer: uuids are unique. A server that was made read-only keeps its
sessions, as MySQL's does.

## 6. Plan

Done: `HealthSignal`, `PulseLoop`, `Service`, `HealthCheck` and `CheckOutcome`;
`TlsConfig`, `TlsProbe`, `CertCache` and `CertWatch`; `PulseLoop` and
`HealthCheck` composed through `CheckOutcome`; a theorem for each safety
property the runs check. What is left, in this order:

1. The panic branch of the loop in time: a panic's whole-interval sleep beside
   `remaining_sleep_duration`, in `CertWatch`.
2. `classify_error_type` of sqlx errors, against the errors `HealthCheck` meets.
3. Ids at their width: `--range` above 2^31 on PostgreSQL and on MySQL.
