------------------------------ MODULE CertWatch ------------------------------
(***************************************************************************)
(* How a certificate gets from the server to dbpulse_tls_cert_expiry_days: *)
(* the checks of the monitoring loop in time (src/pulse.rs), the metadata  *)
(* each one gathers (extract_tls_metadata of src/queries/postgres.rs and   *)
(* mysql.rs), the cache (CertCache) and the probe (TlsProbe).              *)
(*                                                                         *)
(* A tick is a unit of Instant's clock.  The session and the write test    *)
(* are one step, which may fail: HealthCheck has their statements, and     *)
(* PulseLoop how results are recorded.                                     *)
(***************************************************************************)
EXTENDS TlsProbe

CONSTANTS
    Ttls,      \* values of DBPULSE_TLS_CERT_CACHE_TTL
    Every,     \* --interval
    MaxStep    \* how far the wall clock may step during one check

ASSUME TtlAssumption   == Ttls \subseteq Nat
ASSUME EveryAssumption == Every \in Nat
ASSUME StepAssumption  == MaxStep \in Nat

ClockSteps == -MaxStep .. MaxStep

VARIABLES
    pc,      \* the loop's next step
    ttl,     \* the TTL of the cache
    entry,   \* the entry of the cache
    linked,  \* the check's session is alive
    meta,    \* TlsMetadata being gathered; None once it is lost
    refused, \* the status query of this check has failed
    counted, \* the label this check added to TLS_CERT_PROBE_ERRORS, or None
    gauge,   \* TLS_CERT_EXPIRY_DAYS, None before it is first set
    elapsed, \* ticks since the check began, up to MaxElapsed
    step,    \* the step of the wall clock during it, known when it ends
    sleep,   \* ticks the loop still sleeps
    renewed, \* history: ticks since the certificate was last replaced, up to ttl
    lapsed,  \* history: ticks since it expired, up to ttl; 0 before
    probed   \* history: ticks since a probe last succeeded, up to ttl

Cache == INSTANCE CertCache

checkVars == <<linked, meta, refused, counted>>
paceVars  == <<elapsed, step, sleep>>
history   == <<renewed, lapsed, probed>>
vars == <<dsn, probeVars, serverVars, pc, ttl, entry, checkVars, gauge, paceVars, history>>

MaxElapsed == Every + MaxStep

\* The certificate's part of TlsMetadata.
Metadata == [subject : Serials \cup {None}, days : Observations \cup {None}]
ASSUME MetadataAssumption == None \notin Metadata
ASSUME EntryAssumption    == None \notin [metadata : Observations, age : Nat]
Nothing       == [subject |-> None, days |-> None]
OfCert(cert)  == [subject |-> cert.serial, days |-> cert]

Init ==
    /\ ProbeInit
    /\ pc = "check" /\ ttl \in Ttls /\ entry = None
    /\ linked = FALSE /\ meta = None /\ refused = FALSE
    /\ counted = None /\ gauge = None
    /\ elapsed = 0 /\ step = 0 /\ sleep = 0
    /\ renewed = ttl /\ lapsed = 0 /\ probed = ttl

Goto(from, to) == pc = from /\ pc' = to

-----------------------------------------------------------------------------
(* One check.                                                              *)

\* What sqlx asks of the server for the options it is given.
SessionPossible ==
    LET o == SessionOptions(tls) IN
    /\ peer \in {"good", "opaque", "plain"}
    /\ o.encrypt  => TakesTls
    /\ o.verify   => peer = "good" /\ left >= 0
    /\ o.encrypt /\ o.identity => files

\* The session and the write test, or the read-only answer.
Check ==
    \/ /\ Goto("check", IF ~IsEnabled(tls) THEN "record"
                        ELSE IF dsn.driver = "postgres" THEN "status" ELSE "lookup")
       /\ SessionPossible
       /\ linked' = TRUE
       /\ meta' = IF IsEnabled(tls) THEN Nothing ELSE None
       /\ UNCHANGED <<dsn, probeVars, serverVars, ttl, entry, refused, counted, gauge, paceVars, history>>
    \/ /\ Goto("check", "record")
       /\ UNCHANGED <<dsn, probeVars, serverVars, ttl, entry, checkVars, gauge, paceVars, history>>

\* MySQL's own date fills a gap only.  Mutant: it is taken whenever it is there.
StatusDateWins(m, date) == IF date # None THEN [m EXCEPT !.days = date] ELSE m
MergeStatusDate(m, date) ==
    IF m.days = None THEN [m EXCEPT !.days = date] ELSE m

\* pg_stat_ssl, before the certificate; SHOW STATUS, after it.
StatusAnswers ==
    /\ Goto("status", IF dsn.driver = "postgres" THEN "lookup" ELSE "record")
    /\ linked
    /\ IF dsn.driver = "postgres"
       THEN UNCHANGED meta
       ELSE \E date \in {None, Observed} : meta' = MergeStatusDate(meta, date)
    /\ UNCHANGED refused

\* A session that was cut, a statement limit, or a row that does not decode: the
\* error ends the extraction, and is swallowed with everything gathered so far.
StatusFails ==
    /\ Goto("status", "record")
    /\ meta' = None /\ refused' = TRUE

Status ==
    /\ StatusAnswers \/ StatusFails
    /\ UNCHANGED <<dsn, probeVars, serverVars, ttl, entry, linked, counted, gauge, paceVars, history>>

AfterCert == IF dsn.driver = "postgres" THEN "record" ELSE "status"

\* get_cert_metadata_cached: a socket has no host, hence nothing to probe.
LookUp ==
    /\ pc = "lookup"
    /\ \/ /\ Cache!Get # None
          /\ pc' = AfterCert /\ meta' = OfCert(Cache!Get) /\ UNCHANGED at
       \/ /\ Cache!Get = None /\ dsn.host = None
          /\ pc' = AfterCert /\ UNCHANGED <<meta, at>>
       \/ /\ Cache!Get = None /\ dsn.host # None
          /\ pc' = "probe" /\ at' = "connect" /\ UNCHANGED meta
    /\ UNCHANGED <<dsn, wants, found, serverVars, ttl, entry, linked, refused, counted, gauge,
                   paceVars, history>>

Probe ==
    /\ pc = "probe" /\ ProbeStep
    /\ UNCHANGED <<pc, ttl, entry, checkVars, gauge, paceVars, history>>

\* Mutants: a failed probe fails the whole extraction; its result is cached.
Propagates ==
    /\ pc = "probe" /\ at = "done"
    /\ IF found.ok
       THEN /\ Cache!Set(found.cert) /\ meta' = OfCert(found.cert) /\ probed' = 0
            /\ pc' = AfterCert
       ELSE /\ meta' = None /\ pc' = "record"
            /\ UNCHANGED <<ttl, entry, probed>>
    /\ UNCHANGED <<dsn, probeVars, serverVars, linked, refused, counted, gauge, paceVars, renewed, lapsed>>
CachesAnything ==
    /\ Goto("probe", AfterCert) /\ at = "done"
    /\ Cache!Set(found) /\ probed' = 0
    /\ UNCHANGED <<dsn, probeVars, serverVars, checkVars, gauge, paceVars, renewed, lapsed>>

\* The probe's Result: what is found is cached, a failure is only counted.
UseResult ==
    /\ Goto("probe", AfterCert) /\ at = "done"
    /\ IF found.ok
       THEN /\ Cache!Set(found.cert) /\ meta' = OfCert(found.cert) /\ probed' = 0
            /\ UNCHANGED counted
       ELSE /\ counted' = Label(found.words)
            /\ UNCHANGED <<ttl, entry, meta, probed>>
    /\ UNCHANGED <<dsn, probeVars, serverVars, linked, refused, gauge, paceVars, renewed, lapsed>>

-----------------------------------------------------------------------------
(* Its end, and the pause before the next one.                             *)

\* remaining_sleep_duration.  Mutant: the pause is a whole interval.
WholeInterval(runtime) == Every
Remaining(runtime) == IF Every - runtime > 0 THEN Every - runtime ELSE 0

\* apply_tls_metrics sets the gauge only to days it has; the runtime is the
\* difference of two readings of the wall clock.
Record ==
    /\ Goto("record", "asleep")
    /\ gauge' = IF meta # None /\ meta.days # None THEN meta.days ELSE gauge
    /\ \E s \in ClockSteps : step' = s /\ sleep' = Remaining(elapsed + s)
    /\ at' = "off" /\ found' = None /\ wants' = "closed"
    /\ linked' = FALSE /\ meta' = None /\ refused' = FALSE /\ counted' = None
    /\ UNCHANGED <<dsn, serverVars, ttl, entry, elapsed, history>>

Wake ==
    /\ Goto("asleep", "check") /\ sleep = 0
    /\ elapsed' = 0 /\ step' = 0
    /\ UNCHANGED <<dsn, probeVars, serverVars, ttl, entry, checkVars, gauge, sleep, history>>

LoopStep == Check \/ Status \/ LookUp \/ Probe \/ UseResult \/ Record \/ Wake

-----------------------------------------------------------------------------
(* Time and the server.                                                    *)

\* No await lies between the end of a handshake and the stamp of its entry.
Tick ==
    /\ ~(pc = "probe" /\ at = "done")
    /\ Cache!Age
    /\ renewed' = Cache!Older(renewed) /\ probed' = Cache!Older(probed)
    /\ elapsed' = IF elapsed < MaxElapsed THEN elapsed + 1 ELSE elapsed
    /\ sleep' = IF sleep > 0 THEN sleep - 1 ELSE 0
    /\ left' \in {left, left - 1} \cap (MinLeft .. MaxLeft)
    /\ lapsed' = IF left' < 0 THEN Cache!Older(lapsed) ELSE 0
    /\ UNCHANGED <<dsn, probeVars, peer, serial, files, pc, checkVars, gauge, step>>

ServerStep ==
    \/ /\ PeerChanges /\ linked' = FALSE
       /\ UNCHANGED <<pc, ttl, entry, meta, refused, counted, gauge, paceVars, history>>
    \/ /\ Renew /\ renewed' = 0 /\ lapsed' = 0
       /\ UNCHANGED <<pc, ttl, entry, checkVars, gauge, paceVars, probed>>
    \/ /\ FilesChange
       /\ UNCHANGED <<pc, ttl, entry, checkVars, gauge, paceVars, history>>

Next == LoopStep \/ Tick \/ ServerStep

Spec     == Init /\ [][Next]_vars
\* Time passes, and the runtime polls the loop; nothing is promised of servers.
FairSpec == Spec /\ WF_vars(LoopStep) /\ SF_vars(Tick)

-----------------------------------------------------------------------------
(* Properties.                                                             *)

\* Every variable has its type; in particular a cache entry holds what a
\* successful probe found, and never a failure.
TypeOK ==
    /\ dsn \in Dsns /\ peer \in Peers /\ serial \in Serials
    /\ left \in MinLeft .. MaxLeft /\ files \in BOOLEAN
    /\ at \in {"off", "connect", "request", "reply", "greeting", "starttls", "build",
               "handshake", "done"}
    /\ wants \in {"closed", "request", "login", "hello"}
    /\ found \in Outcomes \cup {None}
    /\ pc \in {"check", "status", "lookup", "probe", "record", "asleep"}
    /\ ttl \in Ttls
    /\ entry \in [metadata : Observations, age : 0 .. ttl] \cup {None}
    /\ linked \in BOOLEAN /\ refused \in BOOLEAN
    /\ meta \in Metadata \cup {None}
    /\ counted \in {"connection", "handshake", "unknown", None}
    /\ gauge \in Observations \cup {None}
    /\ elapsed \in 0 .. MaxElapsed /\ step \in ClockSteps /\ sleep \in Nat
    /\ renewed \in 0 .. ttl /\ lapsed \in 0 .. ttl /\ probed \in 0 .. ttl

\* A certificate other than the server's is served from the cache only while
\* less than a TTL has passed since it was replaced, whatever probes failed or
\* servers changed in between (CertCache::get and set).
StaleAtMostTTL ==
    Cache!Get # None /\ Cache!Get.serial # serial => renewed < ttl

\* Once the server's certificate has expired, the cache says otherwise for less
\* than a TTL: days counted before are shown no longer than that, whatever
\* probes failed since (CertCache::get, and set only after a probe).
LapseAtMostTTL ==
    left < 0 /\ Cache!Get # None /\ ~Cache!Get.expired => lapsed < ttl

\* The cache answers exactly if a probe succeeded less than a TTL ago: a failed
\* probe neither fills the cache, nor renews or discards what it holds.
CacheExact == Cache!Get # None <=> probed < ttl

\* A subject is shown beside the expiry of the same certificate, though MySQL
\* reports a date of its own, of whatever certificate it has by then.
NeverMixed ==
    meta # None /\ meta.subject # None => meta.days # None /\ meta.days.serial = meta.subject

\* The client starts the handshake only with a server that waits for it, or
\* with one that has gone: never with a server that has answered "no TLS", or
\* not yet asked, so neither side waits for the other (probe_certificate_expiry).
InStep == at \in {"build", "handshake"} => wants \in {"hello", "closed"}

\* When a check is recorded, its probe's failure has been counted, and nothing
\* else has; and what the check gathered is lost exactly if its status query
\* failed: a failed probe loses nothing of what the session reports, and a failed
\* status query loses the certificate just found too (extract_tls_metadata).
FailureContained ==
    pc = "record" =>
        /\ counted # None <=> found # None /\ ~found.ok
        /\ found # None => (meta = None <=> refused)

\* A mode of require or more, in the spelling looked at first, is never
\* downgraded: while the check's session lives the server takes TLS, and a
\* verifying mode has a certificate that can be verified (extract_tls_config and
\* the connect options of both drivers).
AskedMode == IF "sslmode" \in DOMAIN dsn.params THEN dsn.params["sslmode"]
             ELSE IF "ssl-mode" \in DOMAIN dsn.params THEN dsn.params["ssl-mode"]
             ELSE "disable"
NoDowngrade ==
    linked => /\ AskedMode \in TlsModes \ {"disable"}       => TakesTls
              /\ AskedMode \in {"verify-ca", "verify-full"} => peer = "good"

\* By the wall clock the next check begins one interval after this one began,
\* or at once when this one took longer: a step of that clock moves it by no
\* more than the step (remaining_sleep_duration).
Paced ==
    pc = "asleep" => IF sleep > 0 THEN elapsed + sleep = Every - step
                                  ELSE elapsed >= Every - step

\* The certificate of a server that stays, and renews it no more, is eventually
\* the one shown, and for good, as long as checks with TLS keep passing, the DSN
\* names a host, and status queries stop failing.
RenewalShown ==
    /\ <>[](peer = "good" /\ left >= 0 /\ files /\ ~refused)
    /\ <>[][UNCHANGED serial]_vars
    /\ []<>(pc = "lookup" /\ dsn.host # None)
    => <>[](gauge # None /\ gauge.serial = serial)

\* Said of TLS_CERT_EXPIRY_DAYS in src/metrics.rs:85, "negative if expired":
\* a certificate that had expired when it was looked at is shown below zero.
\* Fails in its first day: num_days() truncates toward zero.
ExpiredShownNegative == gauge # None /\ gauge.expired => gauge.days < 0
=============================================================================
