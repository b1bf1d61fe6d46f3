------------------------------ MODULE TlsProbe ------------------------------
(***************************************************************************)
(* The certificate probe (src/tls/probe.rs: probe_certificate_expiry): a   *)
(* TCP connection of its own, the STARTTLS dialogue of PostgreSQL or MySQL *)
(* and a handshake that looks at the certificate.  Every await is a step;  *)
(* the server may go away, or change its certificate, before each.         *)
(*                                                                         *)
(* An error is what its outermost message says: the words that callers     *)
(* look for in it (queries/postgres.rs and mysql.rs, error_type).          *)
(***************************************************************************)
EXTENDS Integers, TlsConfig

CONSTANTS
    Dsns,             \* DSNs the program may be given
    Peers,            \* servers that may answer at the DSN: "good" (takes TLS),
                      \* "plain" (does not), "opaque" (a certificate nobody can
                      \* parse), "odd" (no greeting of this protocol), "down"
    Serials,          \* certificates the server may use
    MaxLeft, MinLeft, \* units of time left on a new certificate, and on one
                      \* expired so long that it makes no difference
    PerDay            \* such units in a day

ASSUME PeerAssumption == Peers \subseteq {"good", "plain", "opaque", "odd", "down"}
ASSUME LeftAssumption == /\ MaxLeft \in Nat /\ MinLeft \in Int /\ MinLeft < 0
                         /\ PerDay \in Nat \ {0}

VARIABLES
    dsn,    \* the DSN
    at,     \* the next step of the probe: "off", or "done" with an outcome
    wants,  \* what the server at the other end waits for
    found,  \* the probe's Result
    peer,   \* which server answers there now
    serial, \* its certificate
    left,   \* units until that expires, rounded down
    files   \* the files of the client certificate and key can be used

probeVars  == <<at, wants, found>>
serverVars == <<peer, serial, left, files>>

tls == ExtractTlsConfig(dsn.params)

\* num_days() of the time left, which truncates toward zero.
Days(l) == IF l >= 0 THEN l \div PerDay ELSE -((-l - 1) \div PerDay)

\* The metadata of the server's certificate; "expired" is for properties only.
Observed == [serial |-> serial, days |-> Days(left), expired |-> left < 0]
Observations == [serial : Serials, days : Int, expired : BOOLEAN]

Words == {"connect", "handshake", "TLS", "certificate"}
\* The order in which the callers look for them; "timeout" and "parse" come
\* between "TLS" and "certificate" there, and no message of the probe has them.
Label(words) ==
    IF "connect" \in words THEN "connection"
    ELSE IF words \cap {"handshake", "TLS"} # {} THEN "handshake"
    ELSE IF "certificate" \in words THEN "parse"
    ELSE "unknown"

Outcomes == [ok : {TRUE}, cert : Observations] \cup [ok : {FALSE}, words : SUBSET Words]

ASSUME ResultAssumption == /\ None \notin Observations \cup Outcomes \cup Serials
                           /\ None \notin {"connection", "handshake", "unknown"}

At(a, b)    == at = a /\ at' = b
Step(a, b)  == At(a, b) /\ UNCHANGED found
\* The end of the probe drops its connection.
Return(a, result) == At(a, "done") /\ found' = result /\ wants' = "closed"
Fails(a, words)   == Return(a, [ok |-> FALSE, words |-> words])

ProbeInit ==
    /\ dsn \in Dsns
    /\ at = "off" /\ wants = "closed" /\ found = None
    /\ peer \in Peers /\ serial \in Serials /\ left = MaxLeft /\ files = TRUE

-----------------------------------------------------------------------------

TakesTls == peer \in {"good", "opaque"}

\* TcpStream::connect.  A MySQL server greets at once.
ProbeConnect ==
    \/ peer = "down" /\ Fails("connect", {"connect", "TLS", "certificate"})
    \/ /\ peer # "down"
       /\ Step("connect", IF dsn.driver = "postgres" THEN "request" ELSE "greeting")
       /\ wants' = IF dsn.driver = "postgres" THEN "request" ELSE "login"

\* send_postgres_ssl_request: an answer other than S ends the probe, and the
\* server goes on waiting for a session without TLS.
\* Mutant: the answer is not looked at.
IgnoresReply ==
    \/ wants = "closed" /\ Fails("reply", {})
    \/ wants # "closed" /\ Step("reply", "build") /\ UNCHANGED wants

SendSslRequest ==
    \/ wants = "closed" /\ Fails("request", {})
    \/ /\ wants # "closed" /\ Step("request", "reply")
       /\ wants' = IF TakesTls THEN "hello" ELSE "login"

ReadReply ==
    \/ wants = "closed" /\ Fails("reply", {})
    \/ wants = "login"  /\ Fails("reply", {"connect", "TLS"})
    \/ wants = "hello"  /\ Step("reply", "build") /\ UNCHANGED wants

\* perform_mysql_starttls: the greeting, its capabilities, the SSLRequest.
\* Each defect of a greeting has its message, all with the same words.
ReadGreeting ==
    \/ /\ wants = "closed" \/ peer = "odd"
       /\ Fails("greeting", {"handshake"})
    \/ /\ wants # "closed" /\ peer = "plain"
       /\ Fails("greeting", {"connect", "TLS"})
    \/ /\ wants # "closed" /\ TakesTls
       /\ Step("greeting", "starttls") /\ UNCHANGED wants

SendStartTls ==
    \/ wants = "closed" /\ Fails("starttls", {})
    \/ wants # "closed" /\ Step("starttls", "build") /\ wants' = "hello"

\* The client's files are read again for each probe, with the server waiting.
\* The server name is the one the session has just used, so it is valid.
BuildConnector ==
    \/ ~files /\ Fails("build", {"connect", "TLS", "certificate"}) /\ HasIdentity(tls)
    \/ /\ Step("build", "handshake") /\ UNCHANGED wants
       /\ HasIdentity(tls) => files

\* No await comes between the end of the handshake and the metadata; a client
\* that has finished a handshake has the server's certificate, so the Ok(None)
\* for a stream without one never happens.
Handshake ==
    \/ wants = "closed"                  /\ Fails("handshake", {"handshake", "TLS", "certificate"})
    \/ wants = "hello" /\ peer = "good"  /\ Return("handshake", [ok |-> TRUE, cert |-> Observed])
    \/ wants = "hello" /\ peer = "opaque" /\ Fails("handshake", {"TLS", "certificate"})

ProbeStep ==
    /\ ProbeConnect \/ SendSslRequest \/ ReadReply \/ ReadGreeting \/ SendStartTls
       \/ BuildConnector \/ Handshake
    /\ UNCHANGED <<dsn, serverVars>>

-----------------------------------------------------------------------------
(* The server.                                                             *)

\* Another server answers from now on, and every open connection is cut.
PeerChanges ==
    /\ peer' \in Peers \ {peer}
    /\ wants' = "closed"
    /\ UNCHANGED <<dsn, at, found, serial, left, files>>

Renew ==
    /\ serial' \in Serials \ {serial} /\ left' = MaxLeft
    /\ UNCHANGED <<dsn, probeVars, peer, files>>

FilesChange ==
    /\ HasIdentity(tls) /\ files' = ~files
    /\ UNCHANGED <<dsn, probeVars, peer, serial, left>>
=============================================================================
