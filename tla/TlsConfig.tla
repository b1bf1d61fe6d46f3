------------------------------ MODULE TlsConfig ------------------------------
(***************************************************************************)
(* From the DSN of the command line to the TLS settings of the two         *)
(* connections a check makes (src/cli/dispatch/mod.rs, src/tls/config.rs): *)
(* the session of sqlx and the certificate probe.                          *)
(*                                                                         *)
(* A DSN is a record: its driver, its host (None for a socket), and its    *)
(* query parameters as a function from the names given to their values.    *)
(***************************************************************************)
EXTENDS Naturals, FiniteSetsExt

CONSTANT None

TlsModes == {"disable", "require", "verify-ca", "verify-full"}

\* The value of the first of these names that is given.
FirstGiven(params, names) ==
    LET given == {i \in DOMAIN names : names[i] \in DOMAIN params}
    IN  IF given = {} THEN None ELSE params[names[Min(given)]]

\* Modes are read in any case.  An unknown one is no error: it is the default,
\* TLS disabled, and the other spelling is not tried.
\* Mutant: there is only one spelling.
OneSpelling(params) ==
    IF "sslmode" \in DOMAIN params /\ params["sslmode"] \in TlsModes
    THEN params["sslmode"] ELSE "disable"

ModeOf(params) ==
    LET m == FirstGiven(params, <<"sslmode", "ssl-mode">>)
    IN  IF m \in TlsModes THEN m ELSE "disable"

ExtractTlsConfig(params) ==
    [mode |-> ModeOf(params),
     ca   |-> FirstGiven(params, <<"sslrootcert", "sslca", "ssl-ca">>),
     cert |-> FirstGiven(params, <<"sslcert", "ssl-cert">>),
     key  |-> FirstGiven(params, <<"sslkey", "ssl-key">>)]

IsEnabled(tls)    == tls.mode # "disable"
\* Half an identity is none, without a word.
HasIdentity(tls)  == tls.cert # None /\ tls.key # None

\* What the session asks of sqlx: the CA counts only when it is verified.
SessionOptions(tls) ==
    [encrypt  |-> IsEnabled(tls),
     verify   |-> tls.mode \in {"verify-ca", "verify-full"},
     root     |-> IF tls.mode \in {"verify-ca", "verify-full"} THEN tls.ca ELSE None,
     identity |-> HasIdentity(tls)]
=============================================================================
