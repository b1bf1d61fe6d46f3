---------------------------- MODULE MCCertWatch ----------------------------
(***************************************************************************)
(* CertWatch with the DSNs and the clock its small instances use.          *)
(***************************************************************************)
EXTENDS CertWatch, TLC

\* A certificate without its key is ignored.
PostgresRequire == [driver |-> "postgres", host |-> "db",
                    params |-> [sslmode |-> "require", sslcert |-> "c.pem"]]
MysqlVerify     == [driver |-> "mysql", host |-> "db",
                    params |-> "ssl-mode" :> "verify-full" @@ "sslca" :> "ca.pem"
                               @@ "ssl-cert" :> "c.pem" @@ "sslkey" :> "k.pem"]
\* A mode dbpulse does not know, in the spelling it looks at first.
PostgresPrefer  == [driver |-> "postgres", host |-> "db",
                    params |-> "sslmode" :> "prefer" @@ "ssl-mode" :> "require"]
MysqlSocket     == [driver |-> "mysql", host |-> None, params |-> [sslmode |-> "require"]]

MCDsns    == {PostgresRequire, MysqlVerify, PostgresPrefer, MysqlSocket}
MCExpired == {PostgresRequire}

JustExpired == -1
LongExpired == -3
=============================================================================
