--------------------------- MODULE CertWatchProofs ---------------------------
(***************************************************************************)
(* Theorems about CertWatch, for every TTL, interval, clock step, set of   *)
(* DSNs, servers and certificates.                                         *)
(***************************************************************************)
EXTENDS CertWatch, TLAPS

\* Where a Result of the probe is held, and what its failure may be counted as.
ResultInv ==
    /\ at = "done" => found # None
    /\ found # None => at = "done"
    /\ found # None /\ ~found.ok => Label(found.words) \in {"connection", "handshake", "unknown"}

\* Which metadata each place of the loop holds.
PlaceInv ==
    /\ pc \in {"check", "lookup", "asleep"} => at = "off"
    /\ at \notin {"off", "done"} => pc = "probe"
    /\ pc = "probe" => at # "off"
    /\ pc = "status" /\ dsn.driver = "postgres" => at = "off"
    /\ pc \in {"status", "lookup", "probe"} => meta # None
    /\ pc = "probe" => counted = None
    /\ pc # "probe" => (counted # None <=> found # None /\ ~found.ok)
    /\ pc # "record" => ~refused
    /\ pc = "record" /\ found # None => (meta = None <=> refused)

\* The history variables follow the entry's age; a certificate replaced after
\* the handshake is replaced in the tick that stamps the entry, and one that had
\* not expired at the handshake has not when the entry is stamped.
AgeInv ==
    /\ left >= 0 => lapsed = 0
    /\ entry = None => probed = ttl
    /\ entry # None => /\ probed = entry.age
                       /\ entry.metadata.serial # serial => renewed <= entry.age
                       /\ left < 0 /\ ~entry.metadata.expired => lapsed <= entry.age
    /\ at = "done" /\ found.ok /\ pc = "probe" =>
           /\ found.cert.serial # serial => renewed = 0
           /\ ~found.cert.expired => left >= 0

IInv == TypeOK /\ ResultInv /\ PlaceInv /\ AgeInv /\ NeverMixed /\ InStep /\ Paced

-----------------------------------------------------------------------------

\* What a handshake makes of the server's certificate is metadata.
LEMMA ObservedType ==
    ASSUME TypeOK PROVE Observed \in Observations
<1>1. left \in Int /\ PerDay \in Nat \ {0} BY LeftAssumption DEF TypeOK
<1>2. Days(left) \in Int BY <1>1 DEF Days
<1> QED BY <1>2 DEF TypeOK, Observed, Observations

\* None is neither metadata, nor a Result, nor a certificate.
LEMMA NoneApart ==
    /\ \A o \in Observations : o # None
    /\ \A o \in Outcomes : o # None
    /\ \A s \in Serials : s # None
    /\ \A m \in Metadata : m # None
BY ResultAssumption, MetadataAssumption

\* The invariant holds when the loop starts.
LEMMA InitInv == Init => IInv
<1> SUFFICES ASSUME Init PROVE IInv OBVIOUS
<1> USE DEF Init, ProbeInit
<1>1. TypeOK
  <2>1. 0 \in MinLeft .. MaxLeft /\ MaxLeft \in MinLeft .. MaxLeft BY LeftAssumption
  <2>2. 0 \in 0 .. MaxElapsed /\ 0 \in ClockSteps
    BY EveryAssumption, StepAssumption DEF ClockSteps, MaxElapsed
  <2>3. ttl \in Nat /\ ttl \in 0 .. ttl /\ 0 \in 0 .. ttl BY TtlAssumption
  <2> QED BY <2>1, <2>2, <2>3 DEF TypeOK
<1>2. ResultInv /\ PlaceInv /\ AgeInv BY DEF ResultInv, PlaceInv, AgeInv
<1>3. NeverMixed /\ InStep /\ Paced BY DEF NeverMixed, InStep, Paced
<1> QED BY <1>1, <1>2, <1>3 DEF IInv

\* What the messages of the probe's errors say, and the labels it makes of them.
MessageWords ==
    {{}, {"handshake"}, {"connect", "TLS"}, {"TLS", "certificate"},
     {"connect", "TLS", "certificate"}, {"handshake", "TLS", "certificate"}}
Failure(f) == /\ f \in [ok : {FALSE}, words : SUBSET Words]
              /\ Label(f.words) \in {"connection", "handshake", "unknown"}

\* Each message the probe fails with is counted under a label of a failure.
LEMMA FailuresLabelled ==
    ASSUME NEW w \in MessageWords PROVE Failure([ok |-> FALSE, words |-> w])
<1>1. w \in SUBSET Words BY DEF MessageWords, Words
<1>2. \/ "connect" \in w
      \/ "connect" \notin w /\ ("handshake" \in w \/ "TLS" \in w)
      \/ w = {}
  BY DEF MessageWords
<1>3. Label(w) \in {"connection", "handshake", "unknown"}
  <2>1. CASE "connect" \in w BY <2>1 DEF Label
  <2>2. CASE "connect" \notin w /\ ("handshake" \in w \/ "TLS" \in w)
    <3>1. w \cap {"handshake", "TLS"} # {} BY <2>2
    <3> QED BY <3>1, <2>2 DEF Label
  <2>3. CASE w = {} BY <2>3 DEF Label
  <2> QED BY <1>2, <2>1, <2>2, <2>3
<1> QED BY <1>1, <1>3 DEF Failure

Places == {"connect", "request", "reply", "greeting", "starttls", "build", "handshake"}

\* A step of the probe moves it on, fails with a known label, or ends with the
\* certificate the server has.
LEMMA ProbeMoves ==
    ASSUME wants \in {"closed", "request", "login", "hello"}, InStep, ProbeStep
    PROVE  /\ at \in Places
           /\ \/ /\ at' \in Places /\ found' = found
                 /\ wants' \in {"closed", "request", "login", "hello"}
              \/ /\ at' = "done" /\ wants' = "closed"
                 /\ Failure(found') \/ found' = [ok |-> TRUE, cert |-> Observed]
           /\ InStep'
<1> DEFINE Moves == at \in Places /\ at' \in Places /\ found' = found
                    /\ wants' \in {"closed", "request", "login", "hello"} /\ InStep'
           Ends  == /\ at \in Places /\ at' = "done" /\ wants' = "closed"
                    /\ \/ \E w \in MessageWords : found' = [ok |-> FALSE, words |-> w]
                       \/ found' = [ok |-> TRUE, cert |-> Observed]
<1>1. Moves \/ Ends
  <2> USE DEF At, Step, Return, Fails, InStep, Places, MessageWords
  <2>1. CASE ProbeConnect   BY <2>1 DEF ProbeConnect
  <2>2. CASE SendSslRequest BY <2>2 DEF SendSslRequest
  <2>3. CASE ReadReply      BY <2>3 DEF ReadReply
  <2>4. CASE ReadGreeting   BY <2>4 DEF ReadGreeting
  <2>5. CASE SendStartTls   BY <2>5 DEF SendStartTls
  <2>6. CASE BuildConnector BY <2>6 DEF BuildConnector
  <2>7. CASE Handshake      BY <2>7 DEF Handshake
  <2> QED BY <2>1, <2>2, <2>3, <2>4, <2>5, <2>6, <2>7 DEF ProbeStep
<1>2. CASE Moves BY <1>2
<1>3. CASE Ends  BY <1>3, FailuresLabelled DEF InStep
<1> QED BY <1>1, <1>2, <1>3

-----------------------------------------------------------------------------

\* An entry that is not None is a record.
LEMMA EntryType ==
    ASSUME TypeOK, entry # None
    PROVE  entry.metadata \in Observations /\ entry.age \in 0 .. ttl
BY DEF TypeOK

\* The metadata of a certificate name one certificate, for subject and days.
LEMMA OfCertType ==
    ASSUME NEW c \in Observations
    PROVE  /\ OfCert(c) \in Metadata /\ OfCert(c) # None
           /\ OfCert(c).subject # None => OfCert(c).days # None /\ OfCert(c).days.serial = OfCert(c).subject
BY NoneApart DEF OfCert, Metadata, Observations

\* No certificate yet: no subject.
LEMMA NothingType == Nothing \in Metadata /\ Nothing # None /\ Nothing.subject = None
BY NoneApart DEF Nothing, Metadata

\* MySQL's own date leaves the subject, and days that are known, as they are.
LEMMA MergeType ==
    ASSUME NEW m \in Metadata, NEW date \in {None} \cup Observations
    PROVE  /\ MergeStatusDate(m, date) \in Metadata /\ MergeStatusDate(m, date) # None
           /\ MergeStatusDate(m, date).subject = m.subject
           /\ m.days # None => MergeStatusDate(m, date).days = m.days
<1>1. CASE m.days = None
  <2>1. [m EXCEPT !.days = date] \in Metadata /\ [m EXCEPT !.days = date].subject = m.subject
    BY DEF Metadata
  <2> QED BY <1>1, <2>1, NoneApart DEF MergeStatusDate
<1>2. CASE m.days # None BY <1>2, NoneApart DEF MergeStatusDate
<1> QED BY <1>1, <1>2

\* Every step of the loop, of time and of the server keeps the invariant.
LEMMA StepInv == IInv /\ [Next]_vars => IInv'
<1> SUFFICES ASSUME IInv, [Next]_vars PROVE IInv' OBVIOUS
<1> USE DEF IInv, Goto, probeVars, serverVars, checkVars, paceVars, history, Cache!cacheVars
<1>1. CASE Check
  <2>1. TypeOK'
    <3>1. /\ pc' \in {"record", "status", "lookup"}
          /\ linked' = TRUE \/ UNCHANGED linked
          /\ meta' \in {Nothing, None} \/ UNCHANGED meta
          /\ UNCHANGED <<dsn, probeVars, serverVars, ttl, entry, refused, counted, gauge, paceVars, history>>
      BY <1>1 DEF Check
    <3>2. linked' \in BOOLEAN
      <4>1. CASE linked' = TRUE BY <4>1, Zenon
      <4>2. CASE UNCHANGED linked BY <4>2 DEF TypeOK
      <4> QED BY <3>1, <4>1, <4>2
    <3>3. meta' \in Metadata \cup {None} BY <3>1, NothingType DEF TypeOK
    <3> QED BY <3>1, <3>2, <3>3 DEF TypeOK
  <2>2. ResultInv' /\ AgeInv' BY <1>1 DEF Check, ResultInv, AgeInv
  <2>3. PlaceInv'
    <3>1. pc = "check" /\ UNCHANGED <<dsn, at, found, refused, counted>> BY <1>1 DEF Check
    <3>2. at = "off" /\ found = None /\ ~refused /\ counted = None BY <3>1 DEF PlaceInv, ResultInv
    <3>3. pc' \in {"record", "status", "lookup"} /\ (pc' # "record" => meta' # None)
      <4>1. \/ pc' = "record"
            \/ ~IsEnabled(tls) /\ pc' = "record"
            \/ IsEnabled(tls) /\ pc' \in {"status", "lookup"} /\ meta' = Nothing
        BY <1>1 DEF Check
      <4> QED BY <4>1, NothingType
    <3> QED BY <3>1, <3>2, <3>3 DEF PlaceInv
  <2>4. NeverMixed' BY <1>1, NothingType DEF Check, NeverMixed
  <2>5. InStep' /\ Paced' BY <1>1 DEF Check, InStep, Paced
  <2> QED BY <2>1, <2>2, <2>3, <2>4, <2>5
<1>2. CASE Status
  <2>0. /\ pc = "status" /\ pc' \in {"record", "lookup"}
        /\ pc' = "lookup" => StatusAnswers /\ dsn.driver = "postgres"
        /\ UNCHANGED <<dsn, probeVars, serverVars, ttl, entry, linked, counted, gauge, paceVars, history>>
    BY <1>2 DEF Status, StatusAnswers, StatusFails
  <2>a. meta \in Metadata /\ meta # None /\ refused = FALSE
    BY <2>0 DEF PlaceInv, TypeOK
  <2>b. ASSUME StatusAnswers PROVE TypeOK' /\ PlaceInv' /\ NeverMixed'
    <3>1. \/ \E date \in {None} \cup Observations : meta' = MergeStatusDate(meta, date)
          \/ meta' = meta
      BY <2>b, ObservedType DEF StatusAnswers
    <3>2. /\ meta' # None /\ meta' \in Metadata /\ meta'.subject = meta.subject
          /\ meta.days # None => meta'.days = meta.days
      BY <2>a, <3>1, MergeType
    <3>3. refused' = FALSE BY <2>a, <2>b DEF StatusAnswers
    <3>4. TypeOK'
      <4>1. refused' \in BOOLEAN BY <3>3, Zenon
      <4> QED BY <2>0, <3>2, <4>1 DEF TypeOK
    <3>5. PlaceInv'
      <4>1. /\ pc' = "lookup" => at = "off"
            /\ at \in {"off", "done"}
            /\ counted # None <=> found # None /\ ~found.ok
        BY <2>0 DEF PlaceInv
      <4>2. /\ at' \in {"off", "done"} /\ (pc' = "lookup" => at' = "off")
            /\ counted' # None <=> found' # None /\ ~found'.ok
        BY <2>0, <4>1
      <4>3. ~refused' /\ meta' # None /\ pc' \in {"record", "lookup"}
        BY <2>0, <3>2, <3>3
      <4> QED BY <4>2, <4>3 DEF PlaceInv
    <3>6. NeverMixed' BY <2>0, <2>a, <3>2 DEF NeverMixed
    <3> QED BY <3>4, <3>5, <3>6
  <2>c. ASSUME StatusFails PROVE TypeOK' /\ PlaceInv' /\ NeverMixed'
    <3>1. pc' = "record" /\ meta' = None /\ refused' = TRUE BY <2>c DEF StatusFails
    <3>2. TypeOK'
      <4>1. refused' \in BOOLEAN BY <3>1, Zenon
      <4> QED BY <2>0, <3>1, <4>1 DEF TypeOK
    <3>3. PlaceInv' BY <2>0, <3>1 DEF PlaceInv, ResultInv
    <3>4. NeverMixed' BY <3>1 DEF NeverMixed
    <3> QED BY <3>2, <3>3, <3>4
  <2>1. TypeOK' /\ PlaceInv' /\ NeverMixed' BY <1>2, <2>b, <2>c DEF Status
  <2>2. ResultInv' /\ AgeInv' BY <2>0 DEF ResultInv, AgeInv
  <2>3. InStep' /\ Paced'
    <3>1. at \notin {"build", "handshake"} /\ pc' # "asleep" /\ UNCHANGED <<at, wants>>
      BY <2>0 DEF PlaceInv
    <3> QED BY <3>1 DEF InStep, Paced
  <2> QED BY <2>1, <2>2, <2>3
<1>3. CASE LookUp
  <2>0. Cache!Get # None => Cache!Get \in Observations BY EntryType DEF Cache!Get
  <2>1. TypeOK' BY <1>3, <2>0, OfCertType DEF LookUp, TypeOK, AfterCert
  <2>2. ResultInv' /\ AgeInv' BY <1>3 DEF LookUp, ResultInv, AgeInv, PlaceInv, AfterCert
  <2>3. PlaceInv' BY <1>3, <2>0, OfCertType DEF LookUp, PlaceInv, ResultInv, AfterCert
  <2>4. NeverMixed' BY <1>3, <2>0, OfCertType DEF LookUp, NeverMixed
  <2>5. InStep' /\ Paced' BY <1>3 DEF LookUp, InStep, Paced, AfterCert
  <2> QED BY <2>1, <2>2, <2>3, <2>4, <2>5
<1>4. CASE Probe
  <2>0. ProbeStep /\ pc = "probe" /\ UNCHANGED <<pc, ttl, entry, checkVars, gauge, paceVars, history>>
    BY <1>4 DEF Probe
  <2>1. UNCHANGED <<dsn, serverVars>> BY <2>0 DEF ProbeStep
  <2>2. wants \in {"closed", "request", "login", "hello"} BY DEF TypeOK
  <2>3. /\ at \in Places
        /\ \/ /\ at' \in Places /\ found' = found
              /\ wants' \in {"closed", "request", "login", "hello"}
           \/ /\ at' = "done" /\ wants' = "closed"
              /\ Failure(found') \/ found' = [ok |-> TRUE, cert |-> Observed]
        /\ InStep'
    BY <2>0, <2>2, ProbeMoves
  <2>4. \/ at' \in Places /\ found' = found
        \/ /\ at' = "done" /\ found' \in Outcomes /\ found' # None
           /\ ~found'.ok => Failure(found')
           /\ found'.ok => found'.cert.serial = serial /\ (~found'.cert.expired => left >= 0)
    <3>1. CASE Failure(found') BY <2>3, <3>1, NoneApart DEF Failure, Outcomes
    <3>2. CASE found' = [ok |-> TRUE, cert |-> Observed]
      <4>1. /\ found' \in Outcomes /\ found'.ok
            /\ found'.cert.serial = serial /\ (~found'.cert.expired => ~(left < 0))
        BY <3>2, ObservedType DEF Outcomes, Observed
      <4>2. ~(left < 0) => left >= 0 BY LeftAssumption DEF TypeOK
      <4> QED BY <2>3, <3>2, <4>1, <4>2, NoneApart
    <3> QED BY <2>3, <3>1, <3>2
  <2>5. TypeOK' BY <2>0, <2>1, <2>3, <2>4 DEF TypeOK, Places
  <2>6. ResultInv' BY <2>3, <2>4 DEF ResultInv, Failure, Places
  <2>7. PlaceInv' BY <2>0, <2>1, <2>3 DEF PlaceInv, Places
  <2>8. AgeInv' BY <2>0, <2>1, <2>4 DEF AgeInv, Places
  <2>9. NeverMixed' /\ Paced' BY <2>0 DEF NeverMixed, Paced
  <2> QED BY <2>3, <2>5, <2>6, <2>7, <2>8, <2>9
<1>5. CASE UseResult
  <2>0. pc = "probe" /\ at = "done" /\ found # None /\ found \in Outcomes
    BY <1>5 DEF UseResult, ResultInv, TypeOK
  <2>1. CASE found.ok
    <3>0. found.cert \in Observations BY <2>0, <2>1 DEF Outcomes
    <3>1. TypeOK' BY <1>5, <2>1, <3>0, OfCertType, TtlAssumption
      DEF UseResult, TypeOK, AfterCert, Cache!Set
    <3>2. ResultInv' BY <1>5 DEF UseResult, ResultInv
    <3>3. PlaceInv' BY <1>5, <2>0, <2>1, <3>0, OfCertType DEF UseResult, PlaceInv, AfterCert
    <3>4. AgeInv'
      <4>1. /\ entry' = [metadata |-> found.cert, age |-> 0] /\ probed' = 0
            /\ UNCHANGED <<serial, left, renewed, lapsed, at, found>> /\ pc' # "probe"
        BY <1>5, <2>1 DEF UseResult, Cache!Set, AfterCert
      <4>2. /\ found.cert.serial # serial => renewed = 0
            /\ ~found.cert.expired => left >= 0
        BY <2>0, <2>1 DEF AgeInv
      <4>4. left \in Int BY LeftAssumption DEF TypeOK
      <4>3. entry' # None BY <4>1, <3>0, EntryAssumption
      <4> QED BY <4>1, <4>2, <4>3, <4>4 DEF AgeInv
    <3>5. NeverMixed' BY <1>5, <2>1, <3>0, OfCertType DEF UseResult, NeverMixed
    <3>6. InStep' /\ Paced' BY <1>5 DEF UseResult, InStep, Paced, AfterCert
    <3> QED BY <3>1, <3>2, <3>3, <3>4, <3>5, <3>6
  <2>2. CASE ~found.ok
    <3>0. Label(found.words) \in {"connection", "handshake", "unknown"} BY <2>0, <2>2 DEF ResultInv
    <3>1. TypeOK' BY <1>5, <2>2, <3>0 DEF UseResult, TypeOK, AfterCert
    <3>2. ResultInv' BY <1>5 DEF UseResult, ResultInv
    <3>3. PlaceInv' BY <1>5, <2>0, <2>2, <3>0, ResultAssumption DEF UseResult, PlaceInv, AfterCert
    <3>4. AgeInv' BY <1>5, <2>2 DEF UseResult, AgeInv, AfterCert
    <3>5. NeverMixed' /\ InStep' /\ Paced'
      BY <1>5, <2>2 DEF UseResult, NeverMixed, InStep, Paced, AfterCert
    <3> QED BY <3>1, <3>2, <3>3, <3>4, <3>5
  <2> QED BY <2>1, <2>2
<1>6. CASE Record
  <2>1. TypeOK'
    <3>1. \A r \in Int : Remaining(r) \in Nat BY EveryAssumption DEF Remaining
    <3>2. elapsed \in Int BY EveryAssumption, StepAssumption DEF TypeOK, MaxElapsed
    <3>3. sleep' \in Nat /\ step' \in ClockSteps
      <4>1. PICK s \in ClockSteps : step' = s /\ sleep' = Remaining(elapsed + s) BY <1>6 DEF Record
      <4>2. s \in Int BY StepAssumption DEF ClockSteps
      <4> QED BY <4>1, <4>2, <3>1, <3>2
    <3>4. gauge' \in Observations \cup {None}
      BY <1>6 DEF Record, TypeOK, Metadata
    <3> QED BY <1>6, <3>3, <3>4 DEF Record, TypeOK
  <2>2. ResultInv' /\ PlaceInv' BY <1>6 DEF Record, ResultInv, PlaceInv
  <2>3. AgeInv' BY <1>6 DEF Record, AgeInv
  <2>4. NeverMixed' /\ InStep' BY <1>6 DEF Record, NeverMixed, InStep
  <2>5. Paced' BY <1>6, EveryAssumption, StepAssumption DEF Record, Paced, Remaining, TypeOK, ClockSteps, MaxElapsed
  <2> QED BY <2>1, <2>2, <2>3, <2>4, <2>5
<1>7. CASE Wake
  <2>1. TypeOK'
    BY <1>7, EveryAssumption, StepAssumption DEF Wake, TypeOK, ClockSteps, MaxElapsed
  <2>2. ResultInv' /\ AgeInv' /\ NeverMixed' BY <1>7 DEF Wake, ResultInv, AgeInv, NeverMixed
  <2>3. PlaceInv' /\ InStep' /\ Paced' BY <1>7 DEF Wake, PlaceInv, InStep, Paced
  <2> QED BY <2>1, <2>2, <2>3
<1>8. CASE Tick
  <2>0. /\ ttl \in Nat
        /\ renewed \in 0 .. ttl /\ lapsed \in 0 .. ttl /\ probed \in 0 .. ttl
    BY TtlAssumption DEF TypeOK
  <2>a. \A n \in 0 .. ttl : Cache!Older(n) \in 0 .. ttl BY <2>0 DEF Cache!Older
  <2>b. /\ entry = None => entry' = None
        /\ entry # None => /\ entry' # None /\ entry' \in [metadata : Observations, age : 0 .. ttl]
                           /\ entry'.metadata = entry.metadata
                           /\ entry'.age = Cache!Older(entry.age)
    <3>1. CASE entry = None BY <1>8, <3>1 DEF Tick, Cache!Age
    <3>2. CASE entry # None
      <4>1. entry \in [metadata : Observations, age : 0 .. ttl] BY <3>2 DEF TypeOK
      <4>2. entry' = [entry EXCEPT !.age = Cache!Older(entry.age)]
        BY <1>8, <3>2 DEF Tick, Cache!Age
      <4>3. entry' \in [metadata : Observations, age : 0 .. ttl] BY <4>1, <4>2, <2>a
      <4>4. entry' \in [metadata : Observations, age : Nat] BY <4>3, <2>0
      <4>5. entry' # None BY <4>4, EntryAssumption
      <4> QED BY <3>2, <4>1, <4>2, <4>3, <4>5
    <3> QED BY <3>1, <3>2
  <2>1. TypeOK'
    <3>1. elapsed' \in 0 .. MaxElapsed /\ sleep' \in Nat
      BY <1>8, EveryAssumption, StepAssumption DEF Tick, TypeOK, MaxElapsed
    <3>2. left' \in MinLeft .. MaxLeft BY <1>8 DEF Tick
    <3>3. /\ ttl' = ttl
          /\ renewed' \in 0 .. ttl /\ lapsed' \in 0 .. ttl /\ probed' \in 0 .. ttl
      BY <1>8, <2>0, <2>a DEF Tick, Cache!Age
    <3> QED BY <1>8, <2>b, <3>1, <3>2, <3>3 DEF Tick, TypeOK
  <2>2. ResultInv' /\ PlaceInv' /\ NeverMixed' /\ InStep' BY <1>8 DEF Tick, ResultInv, PlaceInv, NeverMixed, InStep
  <2>3. AgeInv'
    <3>1. entry # None => entry.age \in 0 .. ttl BY EntryType
    <3>2. /\ renewed' = Cache!Older(renewed) /\ probed' = Cache!Older(probed)
          /\ UNCHANGED <<serial, ttl, at, pc>> /\ ~(pc = "probe" /\ at = "done")
      BY <1>8 DEF Tick, Cache!Age
    <3>3. \A m, n \in 0 .. ttl : m <= n => Cache!Older(m) <= Cache!Older(n)
      BY <2>0 DEF Cache!Older
    <3>4. Cache!Older(ttl) = ttl BY <2>0 DEF Cache!Older
    <3>5. /\ left \in Int /\ left' <= left
          /\ lapsed' = IF left' < 0 THEN Cache!Older(lapsed) ELSE 0
      BY <1>8, LeftAssumption DEF Tick, TypeOK
    <3>6. left' < 0 => lapsed' = Cache!Older(lapsed) /\ (left >= 0 => lapsed = 0)
      BY <3>5 DEF AgeInv
    <3>7. left' >= 0 => lapsed' = 0 BY <1>8, <3>5, LeftAssumption DEF Tick
    <3>9. entry # None /\ ~entry.metadata.expired /\ left' < 0 => lapsed' <= entry'.age
      <4> SUFFICES ASSUME entry # None, ~entry.metadata.expired, left' < 0
                   PROVE  lapsed' <= entry'.age
        OBVIOUS
      <4>1. lapsed <= entry.age BY <3>1, <3>5, <3>6, <2>0 DEF AgeInv
      <4> QED BY <4>1, <2>0, <2>b, <3>1, <3>3, <3>6
    <3> QED BY <2>0, <2>b, <3>1, <3>2, <3>3, <3>4, <3>7, <3>9 DEF AgeInv
  <2>4. Paced' BY <1>8, EveryAssumption, StepAssumption DEF Tick, Paced, TypeOK, ClockSteps, MaxElapsed
  <2> QED BY <2>1, <2>2, <2>3, <2>4
<1>9. CASE ServerStep
  <2>1. CASE PeerChanges /\ linked' = FALSE
             /\ UNCHANGED <<pc, ttl, entry, meta, refused, counted, gauge, paceVars, history>>
    <3>1. TypeOK'
      <4>1. peer' \in Peers /\ wants' = "closed" /\ linked' \in BOOLEAN BY <2>1 DEF PeerChanges
      <4> QED BY <2>1, <4>1 DEF PeerChanges, TypeOK
    <3>2. ResultInv' /\ PlaceInv' BY <2>1 DEF PeerChanges, ResultInv, PlaceInv
    <3>3. AgeInv' /\ NeverMixed' /\ InStep' /\ Paced'
      BY <2>1 DEF PeerChanges, AgeInv, NeverMixed, InStep, Paced
    <3> QED BY <3>1, <3>2, <3>3
  <2>2. CASE Renew /\ renewed' = 0 /\ lapsed' = 0
             /\ UNCHANGED <<pc, ttl, entry, checkVars, gauge, paceVars, probed>>
    <3>1. TypeOK'
      <4>1. ttl \in Nat /\ 0 \in 0 .. ttl /\ MaxLeft \in MinLeft .. MaxLeft
        BY TtlAssumption, LeftAssumption DEF TypeOK
      <4> QED BY <2>2, <4>1 DEF Renew, TypeOK
    <3>2. ResultInv' /\ PlaceInv' BY <2>2 DEF Renew, ResultInv, PlaceInv
    <3>3. AgeInv'
      <4>1. entry # None => entry.age \in Nat
        BY EntryType, TtlAssumption DEF TypeOK
      <4>2. left' >= 0 /\ ~(left' < 0) BY <2>2, LeftAssumption DEF Renew
      <4> QED BY <2>2, <4>1, <4>2 DEF Renew, AgeInv
    <3>4. NeverMixed' /\ InStep' /\ Paced' BY <2>2 DEF Renew, NeverMixed, InStep, Paced
    <3> QED BY <3>1, <3>2, <3>3, <3>4
  <2>3. CASE FilesChange /\ UNCHANGED <<pc, ttl, entry, checkVars, gauge, paceVars, history>>
    BY <2>3 DEF FilesChange, TypeOK, ResultInv, PlaceInv, AgeInv, NeverMixed, InStep, Paced
  <2> QED BY <1>9, <2>1, <2>2, <2>3 DEF ServerStep
<1>10. CASE UNCHANGED vars
  BY <1>10 DEF vars, TypeOK, ResultInv, PlaceInv, AgeInv, NeverMixed, InStep, Paced
<1> QED BY <1>1, <1>2, <1>3, <1>4, <1>5, <1>6, <1>7, <1>8, <1>9, <1>10 DEF Next, LoopStep

\* The invariant holds throughout.
LEMMA Invariant == Spec => []IInv
BY InitInv, StepInv, PTL DEF Spec

-----------------------------------------------------------------------------

\* Every variable keeps its type; no failed probe enters the cache.
THEOREM TypeCorrect == Spec => []TypeOK
<1>1. IInv => TypeOK BY DEF IInv
<1> QED BY <1>1, Invariant, PTL

\* Whatever the TTL, a replaced certificate leaves the cache within it.
THEOREM NeverStaler == Spec => []StaleAtMostTTL
<1>1. IInv => StaleAtMostTTL
  <2> SUFFICES ASSUME IInv, Cache!Get # None, Cache!Get.serial # serial PROVE renewed < ttl
    BY DEF StaleAtMostTTL
  <2>1. entry # None /\ entry.age < ttl /\ Cache!Get = entry.metadata BY DEF Cache!Get
  <2>2. entry.age \in 0 .. ttl /\ renewed \in 0 .. ttl /\ ttl \in Nat
    BY <2>1, EntryType, TtlAssumption DEF IInv, TypeOK
  <2>3. renewed <= entry.age BY <2>1 DEF IInv, AgeInv
  <2> QED BY <2>1, <2>2, <2>3
<1> QED BY <1>1, Invariant, PTL

\* Whatever the TTL and the validity of certificates, an expiry that was not
\* seen is seen within it.
THEOREM LapseSeenInTime == Spec => []LapseAtMostTTL
<1>1. IInv => LapseAtMostTTL
  <2> SUFFICES ASSUME IInv, left < 0, Cache!Get # None, ~Cache!Get.expired PROVE lapsed < ttl
    BY DEF LapseAtMostTTL
  <2>1. entry # None /\ entry.age < ttl /\ Cache!Get = entry.metadata BY DEF Cache!Get
  <2>2. entry.age \in 0 .. ttl /\ lapsed \in 0 .. ttl /\ ttl \in Nat
    BY <2>1, EntryType, TtlAssumption DEF IInv, TypeOK
  <2>3. lapsed <= entry.age BY <2>1 DEF IInv, AgeInv
  <2> QED BY <2>1, <2>2, <2>3
<1> QED BY <1>1, Invariant, PTL

\* Whatever the TTL, the cache answers exactly while a success is recent.
THEOREM CacheAlwaysExact == Spec => []CacheExact
<1>1. IInv => CacheExact
  <2> SUFFICES ASSUME IInv PROVE CacheExact OBVIOUS
  <2>1. ttl \in Nat BY TtlAssumption DEF IInv, TypeOK
  <2>2. CASE entry = None BY <2>1, <2>2 DEF IInv, AgeInv, CacheExact, Cache!Get
  <2>3. CASE entry # None
    <3>1. entry.metadata # None BY <2>3, EntryType, NoneApart DEF IInv
    <3>2. probed = entry.age BY <2>3 DEF IInv, AgeInv
    <3> QED BY <2>3, <3>1, <3>2 DEF CacheExact, Cache!Get
  <2> QED BY <2>2, <2>3
<1> QED BY <1>1, Invariant, PTL

\* A subject and an expiry shown together are of one certificate.
THEOREM CertificatesNeverMixed == Spec => []NeverMixed
<1>1. IInv => NeverMixed BY DEF IInv
<1> QED BY <1>1, Invariant, PTL

\* The probe and the server keep to the same place of their dialogue.
THEOREM AlwaysInStep == Spec => []InStep
<1>1. IInv => InStep BY DEF IInv
<1> QED BY <1>1, Invariant, PTL

\* A failed probe is counted, and costs the certificate's metadata only; a failed
\* status query costs all of it.
THEOREM FailureAlwaysContained == Spec => []FailureContained
<1>1. IInv => FailureContained BY DEF IInv, PlaceInv, FailureContained
<1> QED BY <1>1, Invariant, PTL

\* For every interval and clock step, the pause ends on time.
THEOREM AlwaysPaced == Spec => []Paced
<1>1. IInv => Paced BY DEF IInv
<1> QED BY <1>1, Invariant, PTL

-----------------------------------------------------------------------------

\* The mode asked for, if there is such a mode, is the mode of TlsConfig.
LEMMA ModeFound == AskedMode \in TlsModes \ {"disable"} => tls.mode = AskedMode
<1> SUFFICES ASSUME AskedMode \in TlsModes, AskedMode # "disable" PROVE tls.mode = AskedMode
  OBVIOUS
<1> DEFINE names == <<"sslmode", "ssl-mode">>
           given == {i \in DOMAIN names : names[i] \in DOMAIN dsn.params}
<1>1. DOMAIN names = {1, 2} /\ names[1] = "sslmode" /\ names[2] = "ssl-mode" OBVIOUS
<1>2. FirstGiven(dsn.params, names) = AskedMode
  <2>1. CASE "sslmode" \in DOMAIN dsn.params
    <3>1. 1 \in given /\ given \subseteq {1, 2} BY <1>1, <2>1
    <3>2. Min(given) = 1 BY <3>1 DEF Min
    <3> QED BY <1>1, <2>1, <3>1, <3>2 DEF FirstGiven, AskedMode
  <2>2. CASE "sslmode" \notin DOMAIN dsn.params /\ "ssl-mode" \in DOMAIN dsn.params
    <3>1. given = {2} BY <1>1, <2>2
    <3>2. Min(given) = 2 BY <3>1 DEF Min
    <3> QED BY <1>1, <2>2, <3>1, <3>2 DEF FirstGiven, AskedMode
  <2> QED BY <2>1, <2>2 DEF AskedMode
<1>3. ModeOf(dsn.params) = AskedMode BY <1>2 DEF ModeOf
<1> QED BY <1>3 DEF tls, ExtractTlsConfig

\* TLS that was asked for is used, and verified if that was asked for.
THEOREM NeverDowngraded == Spec => []NoDowngrade
<1>1. Init => NoDowngrade BY DEF Init, NoDowngrade
<1>2. NoDowngrade /\ [Next]_vars => NoDowngrade'
  <2> SUFFICES ASSUME NoDowngrade, [Next]_vars PROVE NoDowngrade' OBVIOUS
  <2> USE DEF serverVars, checkVars
  <2>1. CASE UNCHANGED <<dsn, peer>> /\ (linked' => linked)
    BY <2>1 DEF NoDowngrade, AskedMode, TakesTls
  <2>2. CASE UNCHANGED <<dsn, peer>> /\ SessionPossible
    <3>1. AskedMode' = AskedMode BY <2>2 DEF AskedMode
    <3>2. ASSUME AskedMode \in TlsModes \ {"disable"} PROVE TakesTls
      BY <2>2, <3>2, ModeFound DEF SessionPossible, SessionOptions, IsEnabled
    <3>3. ASSUME AskedMode \in {"verify-ca", "verify-full"} PROVE peer = "good"
      BY <2>2, <3>3, ModeFound DEF SessionPossible, SessionOptions, TlsModes
    <3> QED BY <2>2, <3>1, <3>2, <3>3 DEF NoDowngrade, TakesTls
  <2>3. CASE Check BY <2>1, <2>2, <2>3 DEF Check
  <2>4. CASE Status BY <2>1, <2>4 DEF Status, StatusAnswers, StatusFails
  <2>5. CASE LookUp BY <2>1, <2>5 DEF LookUp
  <2>6. CASE Probe BY <2>1, <2>6 DEF Probe, ProbeStep
  <2>7. CASE UseResult BY <2>1, <2>7 DEF UseResult
  <2>8. CASE Record BY <2>1, <2>8 DEF Record
  <2>9. CASE Wake BY <2>1, <2>9 DEF Wake
  <2>10. CASE Tick BY <2>1, <2>10 DEF Tick
  <2>11. CASE ServerStep
    <3>1. CASE linked' = FALSE BY <3>1 DEF NoDowngrade
    <3> QED BY <2>1, <2>11, <3>1 DEF ServerStep, Renew, FilesChange
  <2>12. CASE UNCHANGED vars BY <2>1, <2>12 DEF vars
  <2> QED BY <2>3, <2>4, <2>5, <2>6, <2>7, <2>8, <2>9, <2>10, <2>11, <2>12 DEF Next, LoopStep
<1> QED BY <1>1, <1>2, PTL DEF Spec

-----------------------------------------------------------------------------

\* Days above zero are a day at least.
LEMMA PositiveDays ==
    ASSUME NEW l \in Int, Days(l) > 0 PROVE l >= PerDay
<1>1. PerDay \in Nat \ {0} BY LeftAssumption
<1>2. CASE l >= 0 /\ l < PerDay
  <2>1. l \div PerDay = 0 BY <1>1, <1>2
  <2> QED BY <1>2, <2>1 DEF Days
<1>3. CASE l < 0
  <2>1. (-l - 1) \div PerDay >= 0 BY <1>1, <1>3
  <2> QED BY <1>1, <1>3, <2>1 DEF Days
<1> QED BY <1>1, <1>2, <1>3

\* Positive days are owed to a certificate that had a day left: when an entry is
\* stamped it still has, and it has lost since at most a unit for each tick the
\* entry is old.
DayInv ==
    /\ pc = "probe" /\ at = "done" /\ found.ok /\ found.cert.days > 0 => left >= PerDay
    /\ entry # None /\ entry.metadata.days > 0 /\ entry.age < ttl =>
          left + entry.age >= PerDay

LEMMA DayInvStep == IInv /\ DayInv /\ [Next]_vars => DayInv'
<1> SUFFICES ASSUME IInv, DayInv, [Next]_vars PROVE DayInv' OBVIOUS
<1> USE DEF Goto, probeVars, serverVars, checkVars, paceVars, Cache!cacheVars
<1>0. /\ left \in Int /\ left <= MaxLeft /\ MaxLeft \in Int /\ PerDay \in Nat \ {0} /\ ttl \in Nat
      /\ entry # None => entry.metadata \in Observations /\ entry.age \in 0 .. ttl
  BY EntryType, LeftAssumption, TtlAssumption DEF IInv, TypeOK
<1>1. CASE UNCHANGED <<left, ttl, entry>> /\ (pc' = "probe" /\ at' = "done" =>
                                                pc = "probe" /\ UNCHANGED <<at, found>>)
  BY <1>1 DEF DayInv
<1>2. CASE Probe
  <2>1. wants \in {"closed", "request", "login", "hello"} /\ InStep BY DEF IInv, TypeOK
  <2>2. /\ pc = "probe" /\ ProbeStep
        /\ UNCHANGED <<pc, ttl, entry, left>>
    BY <1>2 DEF Probe, ProbeStep
  <2>3. \/ at' \in Places
        \/ ~found'.ok
        \/ found' = [ok |-> TRUE, cert |-> Observed]
    BY <2>1, <2>2, ProbeMoves DEF Failure
  <2>4. found' = [ok |-> TRUE, cert |-> Observed] => found'.cert.days = Days(left)
    BY DEF Observed
  <2> QED BY <1>0, <2>2, <2>3, <2>4, PositiveDays DEF DayInv, Places
<1>3. CASE UseResult
  <2>1. CASE found.ok
    <3>1. /\ entry' = [metadata |-> found.cert, age |-> 0] /\ ttl' = ttl
          /\ UNCHANGED <<left, found>> /\ pc' # "probe" /\ pc = "probe" /\ at = "done"
      BY <1>3, <2>1 DEF UseResult, Cache!Set, AfterCert
    <3> QED BY <1>0, <2>1, <3>1 DEF DayInv
  <2>2. CASE ~found.ok BY <1>1, <1>3, <2>2 DEF UseResult, AfterCert
  <2> QED BY <2>1, <2>2
<1>4. CASE Tick
  <2>1. /\ ~(pc' = "probe" /\ at' = "done") /\ ttl' = ttl /\ left' \in Int /\ left' >= left - 1
    BY <1>0, <1>4, LeftAssumption DEF Tick, Cache!Age
  <2>2. ASSUME entry' # None, entry'.metadata.days > 0, entry'.age < ttl
        PROVE  left' + entry'.age >= PerDay
    <3>1. entry # None /\ entry' = [entry EXCEPT !.age = Cache!Older(entry.age)]
      BY <1>4, <2>2 DEF Tick, Cache!Age
    <3>2. entry \in [metadata : Observations, age : 0 .. ttl] BY <3>1 DEF IInv, TypeOK
    <3>3. entry'.metadata = entry.metadata /\ entry'.age = Cache!Older(entry.age) BY <3>1, <3>2
    <3>4. entry.age < ttl /\ entry'.age = entry.age + 1
      BY <1>0, <2>2, <3>1, <3>3 DEF Cache!Older
    <3>5. left + entry.age >= PerDay BY <2>2, <3>1, <3>3, <3>4 DEF DayInv
    <3> QED BY <1>0, <2>1, <3>1, <3>4, <3>5
  <2> QED BY <2>1, <2>2 DEF DayInv
<1>5. CASE ServerStep
  <2>1. CASE Renew /\ UNCHANGED <<pc, ttl, entry>>
    <3>1. left' = MaxLeft /\ UNCHANGED <<at, found>> BY <2>1 DEF Renew
    <3> QED BY <1>0, <2>1, <3>1 DEF DayInv
  <2>2. CASE (PeerChanges \/ FilesChange) /\ UNCHANGED <<pc, ttl, entry>>
    BY <1>1, <2>2 DEF PeerChanges, FilesChange
  <2> QED BY <1>5, <2>1, <2>2 DEF ServerStep
<1>6. CASE Check \/ Status \/ LookUp \/ Record \/ Wake
  BY <1>1, <1>6 DEF Check, Status, StatusAnswers, StatusFails, LookUp, Record, Wake, AfterCert
<1>7. CASE UNCHANGED vars BY <1>1, <1>7 DEF vars
<1> QED BY <1>2, <1>3, <1>4, <1>5, <1>6, <1>7 DEF Next, LoopStep

\* Days above zero in the cache are those of a certificate that has not expired,
\* as long as the TTL is no longer than a day: one hour by default.
PositiveMeansValid == Cache!Get # None /\ Cache!Get.days > 0 => left > 0

THEOREM PositiveAlwaysValid ==
    ASSUME \A t \in Ttls : t <= PerDay
    PROVE  Spec => []PositiveMeansValid
<1>1. Init => DayInv BY DEF Init, ProbeInit, DayInv
<1>2. IInv /\ DayInv => PositiveMeansValid
  <2> SUFFICES ASSUME IInv, DayInv, Cache!Get # None, Cache!Get.days > 0 PROVE left > 0
    BY DEF PositiveMeansValid
  <2>1. entry # None /\ entry.age < ttl /\ Cache!Get = entry.metadata BY DEF Cache!Get
  <2>2. entry.age \in 0 .. ttl /\ ttl \in Nat /\ ttl <= PerDay /\ left \in Int /\ PerDay \in Nat
    BY <2>1, EntryType, TtlAssumption, LeftAssumption DEF IInv, TypeOK
  <2>3. left + entry.age >= PerDay BY <2>1 DEF DayInv
  <2> QED BY <2>1, <2>2, <2>3
<1> QED BY <1>1, <1>2, DayInvStep, Invariant, PTL DEF Spec
=============================================================================
