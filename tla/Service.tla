------------------------------- MODULE Service -------------------------------
(***************************************************************************)
(* The life of the process (src/pulse.rs: start): bind, spawn the monitor, *)
(* serve /metrics, and stop when either side ends.  The monitoring task is *)
(* seen from outside: being polled, printing the line of an iteration,     *)
(* waiting at an await, spinning without an await, or killed by a panic    *)
(* outside catch_unwind; PulseLoop says when that happens.  The tokio      *)
(* scheduler (a fixed number of workers, a poll that nobody interrupts, a  *)
(* runtime whose drop waits for the polls in progress) and axum's graceful *)
(* shutdown are external: they are modelled as start uses them.            *)
(***************************************************************************)
EXTENDS Naturals

CONSTANTS
    Listens,    \* ways to listen considered: "explicit", "auto"
    Drivers,    \* DSN drivers considered: "supported", "unsupported"
    Workers,    \* numbers of worker threads considered
    Clients,    \* scrapers that may connect
    None

Addresses == {"explicit", "v6", "v4"}

ASSUME ListensAssumption == Listens \subseteq {"explicit", "auto"}
ASSUME DriversAssumption == Drivers \subseteq {"supported", "unsupported"}
ASSUME WorkersAssumption == Workers \subseteq Nat \ {0}
ASSUME ServiceNoneAssumption == None \notin Addresses \cup {"ok", "error", "panic"}

VARIABLES
    listen, driver, \* the command line
    bindable,       \* addresses the host lets the process bind
    workers,        \* the worker threads of the runtime, one per core
    main,           \* where start is: bind, bind_v4, announce, spawn, select,
                    \* dropping (the runtime, after start), exited
    listener,       \* the bound address
    result,         \* how start ended: ok, error or panic
    monitor,        \* the task: none, polled, printing, waiting, spinning,
                    \* unwound, joined
    sent,           \* a shutdown message is in the channel
    signal,         \* axum's signal task: none, waiting, done
    server,         \* none, serving, draining
    conn,           \* per client: closed, asking, slow (request incomplete), idle
    stdout, stderr, \* whether the standard streams still take a write
    drained         \* the reader of stdout makes room; without it a write blocks

cli   == <<listen, driver, bindable, workers>>
start == <<main, listener, result>>
task  == <<monitor, sent>>
serve == <<signal, server>>
io    == <<stdout, stderr, drained>>
vars  == <<cli, start, task, serve, conn, io>>

Init ==
    /\ listen \in Listens /\ driver \in Drivers /\ bindable \in SUBSET Addresses
    /\ workers \in Workers
    /\ main = "bind" /\ listener = None /\ result = None
    /\ monitor = "none" /\ sent = FALSE
    /\ signal = "none" /\ server = "none"
    /\ conn = [c \in Clients |-> "closed"]
    /\ stdout = TRUE /\ stderr = TRUE /\ drained = TRUE

\* A task is polled on a worker, and keeps it until its poll returns.
Busy       == monitor \in {"polled", "printing", "spinning", "unwound"}
WorkerFree == (IF Busy THEN 1 ELSE 0) < workers
Alive      == monitor \in {"polled", "printing", "waiting", "spinning"}

\* println! blocks its thread until there is room; a closed stream fails at once.
PrintEnds == drained \/ ~stdout

\* Leave start: the listener and the server's future go, tasks stay.
Return(r) == main' = "dropping" /\ result' = r

-----------------------------------------------------------------------------
(* start, on the main thread.                                              *)

\* Mutant: the IPv4 address is tried for an explicit address too.
BindAnyway ==
    /\ main = "bind"
    /\ LET a == IF listen = "explicit" THEN "explicit" ELSE "v6" IN
          IF a \in bindable THEN main' = "announce" /\ listener' = a
                            ELSE main' = "bind_v4" /\ UNCHANGED listener
    /\ UNCHANGED <<result, cli, task, serve, conn, io>>

Bind ==
    /\ main = "bind"
    /\ LET a == IF listen = "explicit" THEN "explicit" ELSE "v6" IN
          \/ a \in bindable /\ main' = "announce" /\ listener' = a /\ UNCHANGED result
          \/ /\ a \notin bindable /\ UNCHANGED listener
             /\ IF listen = "explicit" THEN Return("error")
                                       ELSE main' = "bind_v4" /\ UNCHANGED result
    /\ UNCHANGED <<cli, task, serve, conn, io>>

BindV4 ==
    /\ main = "bind_v4"
    /\ \/ /\ "v4" \in bindable
          /\ main' = "announce" /\ listener' = "v4" /\ UNCHANGED result
       \/ "v4" \notin bindable /\ Return("error") /\ UNCHANGED listener
    /\ UNCHANGED <<cli, task, serve, conn, io>>

Announce ==
    /\ main = "announce" /\ PrintEnds
    /\ IF stdout THEN main' = "spawn" /\ UNCHANGED result ELSE Return("panic")
    /\ UNCHANGED <<listener, cli, task, serve, conn, io>>

SpawnMonitor ==
    /\ main = "spawn"
    /\ main' = "select" /\ monitor' = "polled"
    /\ UNCHANGED <<listener, result, sent, cli, serve, conn, io>>

\* select! polls the server for the first time: it spawns the signal task.
\* Mutant: the server is served without a shutdown signal.
ServeForever ==
    /\ main = "select" /\ server = "none"
    /\ server' = "serving"
    /\ UNCHANGED <<signal, cli, start, task, conn, io>>

Serve ==
    /\ main = "select" /\ server = "none"
    /\ server' = "serving" /\ signal' = "waiting"
    /\ UNCHANGED <<cli, start, task, conn, io>>

Drain ==
    /\ main = "select" /\ server = "serving" /\ signal = "done"
    /\ server' = "draining"
    /\ UNCHANGED <<signal, cli, start, task, conn, io>>

\* select! takes the server's branch.
ServerReturns ==
    /\ main = "select" /\ server = "draining"
    /\ \A c \in Clients : conn[c] = "closed"
    /\ Return("ok")
    /\ UNCHANGED <<listener, cli, task, serve, conn, io>>

\* select! takes the monitor's branch, and prints before it bails.
\* Mutant: only once the connections are closed.
MonitorReturnsLate ==
    /\ main = "select" /\ monitor = "joined"
    /\ \A c \in Clients : conn[c] = "closed"
    /\ Return(IF stderr THEN "error" ELSE "panic")
    /\ UNCHANGED <<listener, cli, task, serve, conn, io>>

MonitorReturns ==
    /\ main = "select" /\ monitor = "joined"
    /\ Return(IF stderr THEN "error" ELSE "panic")
    /\ UNCHANGED <<listener, cli, task, serve, conn, io>>

\* Dropping the runtime waits for every poll in progress.
Exit ==
    /\ main = "dropping" /\ ~Busy
    /\ main' = "exited"
    /\ conn' = [c \in Clients |-> "closed"]
    /\ UNCHANGED <<listener, result, cli, task, serve, io>>

-----------------------------------------------------------------------------
(* The monitoring task.                                                    *)

\* An unsupported driver is reported on the channel and the iteration returns
\* without an await; run_loop takes the next one in the same poll, for ever.
\* Mutant: nor does a supported one await anything.
MonitorNeverYields ==
    /\ monitor = "polled"
    /\ monitor' = "spinning" /\ sent' = (sent \/ driver = "unsupported")
    /\ UNCHANGED <<cli, start, serve, conn, io>>

MonitorYields ==
    /\ monitor = "polled"
    /\ \/ driver = "supported" /\ monitor' = "waiting" /\ UNCHANGED sent
       \/ driver = "unsupported" /\ stderr /\ monitor' = "spinning" /\ sent' = TRUE
    /\ UNCHANGED <<cli, start, serve, conn, io>>

\* The line of an iteration, within a poll; then the task sleeps, or starts the
\* next check, and a panic in it is caught and followed by a sleep.
MonitorPrints ==
    /\ monitor = "polled" /\ driver = "supported"
    /\ monitor' = "printing"
    /\ UNCHANGED <<sent, cli, start, serve, conn, io>>

MonitorPrinted ==
    /\ monitor = "printing" /\ PrintEnds
    /\ stdout \/ stderr
    /\ monitor' = "waiting"
    /\ UNCHANGED <<sent, cli, start, serve, conn, io>>

MonitorPolled ==
    /\ monitor = "waiting" /\ main = "select" /\ WorkerFree
    /\ monitor' = "polled"
    /\ UNCHANGED <<sent, cli, start, serve, conn, io>>

\* eprintln! panics outside catch_unwind, after a panic inside.  The future, and
\* the sender in it, are dropped first; the JoinHandle hears of it later.
MonitorPanics ==
    /\ ~stderr
    /\ \/ monitor \in {"polled", "spinning"}
       \/ monitor = "printing" /\ ~stdout
    /\ monitor' = "unwound"
    /\ UNCHANGED <<sent, cli, start, serve, conn, io>>

MonitorJoined ==
    /\ monitor = "unwound"
    /\ monitor' = "joined"
    /\ UNCHANGED <<sent, cli, start, serve, conn, io>>

-----------------------------------------------------------------------------
(* The other tasks, and the environment.                                   *)

\* rx.recv() answers a message, or that no sender is left.
\* Mutant: any wake-up counts as the signal.
SignalFiresAtOnce ==
    /\ signal = "waiting" /\ main = "select" /\ WorkerFree
    /\ signal' = "done"
    /\ UNCHANGED <<server, cli, start, task, conn, io>>

SignalFires ==
    /\ signal = "waiting" /\ main = "select" /\ WorkerFree
    /\ sent \/ ~Alive
    /\ signal' = "done"
    /\ UNCHANGED <<server, cli, start, task, conn, io>>

Connect(c) ==
    /\ main = "select" /\ server = "serving" /\ conn[c] = "closed"
    /\ conn' = [conn EXCEPT ![c] = "asking"] \/ conn' = [conn EXCEPT ![c] = "slow"]
    /\ UNCHANGED <<cli, start, task, serve, io>>

\* metrics_handler, on a worker.
Scrape(c) ==
    /\ conn[c] = "asking" /\ main = "select" /\ WorkerFree
    /\ conn' = [conn EXCEPT ![c] = "idle"]
    /\ UNCHANGED <<cli, start, task, serve, io>>

\* An idle connection is reused or closed by the client, and closed by the
\* server when it drains.
Reuse(c) ==
    /\ conn[c] = "idle" /\ server # "draining" /\ main = "select"
    /\ conn' = [conn EXCEPT ![c] = "asking"]
    /\ UNCHANGED <<cli, start, task, serve, io>>

Hangup(c) ==
    /\ conn[c] \in {"idle", "slow"}
    /\ conn' = [conn EXCEPT ![c] = "closed"]
    /\ UNCHANGED <<cli, start, task, serve, io>>

CloseIdle(c) ==
    /\ conn[c] = "idle" /\ server = "draining" /\ WorkerFree
    /\ conn' = [conn EXCEPT ![c] = "closed"]
    /\ UNCHANGED <<cli, start, task, serve, io>>

StreamBreaks ==
    /\ \/ stdout /\ stdout' = FALSE /\ UNCHANGED stderr
       \/ stderr /\ stderr' = FALSE /\ UNCHANGED stdout
    /\ UNCHANGED <<drained, cli, start, task, serve, conn>>

\* The reader of stdout falls behind, or catches up.
ReaderStep ==
    /\ drained' = ~drained
    /\ UNCHANGED <<stdout, stderr, cli, start, task, serve, conn>>

MainStep == Bind \/ BindV4 \/ Announce \/ SpawnMonitor \/ Serve \/ Drain
            \/ ServerReturns \/ MonitorReturns \/ Exit
TaskStep == MonitorYields \/ MonitorPrints \/ MonitorPrinted \/ MonitorPolled
            \/ MonitorPanics \/ MonitorJoined \/ SignalFires
ConnStep == \E c \in Clients : Connect(c) \/ Scrape(c) \/ Reuse(c) \/ Hangup(c)
                               \/ CloseIdle(c)

Next == MainStep \/ TaskStep \/ ConnStep \/ StreamBreaks \/ ReaderStep
Spec == Init /\ [][Next]_vars

\* The main thread and the workers run what is ready, and a write gets through
\* to a reader that makes room again and again.  While the monitor keeps a worker
\* the others may take what is ready, but nothing says they do: its worker may
\* be the one that waits for the sockets, and hold the signal task in its queue,
\* and tokio wakes no other for either.  A database may keep the monitor waiting,
\* a client its connection and the reader its pipe full, so nothing is asked of
\* those.
FairSpec ==
    /\ Spec
    /\ WF_vars(MainStep)
    /\ WF_vars(MonitorYields \/ MonitorPanics \/ MonitorJoined)
    /\ SF_vars(MonitorPrinted)
    /\ SF_vars(~Busy /\ SignalFires)
    /\ \A c \in Clients : SF_vars(~Busy /\ Scrape(c)) /\ SF_vars(~Busy /\ CloseIdle(c))

-----------------------------------------------------------------------------
(* Properties.                                                             *)

\* Every variable has its type, and a server has its shutdown signal.
TypeOK ==
    /\ listen \in Listens /\ driver \in Drivers /\ bindable \subseteq Addresses
    /\ workers \in Workers
    /\ main \in {"bind", "bind_v4", "announce", "spawn", "select", "dropping", "exited"}
    /\ listener \in Addresses \cup {None}
    /\ result \in {None, "ok", "error", "panic"}
    /\ monitor \in {"none", "polled", "printing", "waiting", "spinning", "unwound", "joined"}
    /\ sent \in BOOLEAN
    /\ signal \in {"none", "waiting", "done"}
    /\ server \in {"none", "serving", "draining"}
    /\ server = "none" <=> signal = "none"
    /\ conn \in [Clients -> {"closed", "asking", "slow", "idle"}]
    /\ stdout \in BOOLEAN /\ stderr \in BOOLEAN /\ drained \in BOOLEAN

\* An address given with --listen is the only one ever used; without one IPv4
\* is used only where IPv6 cannot be; and nothing runs before an address is
\* bound (the match on listen in start).
BindingRespected ==
    /\ listener # None => listener \in bindable
    /\ listener = "v4" => listen = "auto" /\ "v6" \notin bindable
    /\ listener = None => monitor = "none" /\ result \in {None, "error"}

\* With a supported driver the process leaves start for one of three reasons:
\* nothing could be bound, the first line could not be printed, or the monitor
\* died.  In particular the shutdown channel never stops the server, nor turns
\* a scraper away, while the monitor lives.
StopsForAReason ==
    driver = "supported" /\ (main \in {"dropping", "exited"} \/ signal = "done") =>
        \/ listener = None /\ result = "error" /\ monitor = "none"
        \/ ~stdout /\ result = "panic" /\ monitor = "none"
        \/ ~stderr /\ ~Alive

\* The death of the monitoring task ends the process, whichever branch select!
\* takes and however long a client keeps its connection.
MonitorDeathExits == monitor = "unwound" ~> main = "exited"

\* With a supported driver a complete request is answered, unless the process
\* ends, also while the monitor waits for a database that never answers, on one
\* worker or more; but only if what the loop prints gets through again and again,
\* to a reader that makes room or to one that is gone: println! of run_iteration
\* blocks the worker that may have the sockets to watch.
ScrapesAnswered ==
    []<>PrintEnds => \A c \in Clients :
        driver = "supported" /\ conn[c] = "asking" ~> conn[c] # "asking"

\* Claimed by tests/pulse_robustness_test.rs:39-41 ("Persistent failures cause
\* explicit application termination (fail-fast)", "No silent failures occur"):
\* a dead monitor is an error of the process.  Fails: the task's future, and
\* the channel's sender in it, are dropped before the JoinHandle hears of it,
\* and select! may take the server's branch, which is Ok(()).
DeathReported == main = "exited" /\ monitor = "joined" => result # "ok"

\* Claimed by tests/pulse_robustness_test.rs:22 ("Shutdown signal propagation"
\* on an unsupported driver) and :39: the process ends.  Fails: the monitoring
\* task never yields, and the runtime waits for it.
UnsupportedEnds == driver = "unsupported" /\ main = "select" ~> main = "exited"
=============================================================================
