------------------------------ MODULE CertCache ------------------------------
(***************************************************************************)
(* The cache of certificate metadata (src/tls/cache.rs), for the one key a *)
(* process uses: it monitors one DSN, and the key is made of it.  The lock *)
(* has one user, the monitoring task, so each operation is one step.       *)
(* Ages are counted in ticks and, past the TTL, not counted any more.      *)
(* cleanup is called by tests only.                                        *)
(***************************************************************************)
EXTENDS Naturals

CONSTANT None

VARIABLES
    ttl,   \* DBPULSE_TLS_CERT_CACHE_TTL
    entry  \* None, or the metadata and the age of its timestamp

cacheVars == <<ttl, entry>>

Older(age) == IF age < ttl THEN age + 1 ELSE age

\* Mutant: what is in the map is good for ever.
GetAnything == IF entry # None THEN entry.metadata ELSE None

Get == IF entry # None /\ entry.age < ttl THEN entry.metadata ELSE None

\* Mutant: an entry that is there already is kept.
SetOnce(metadata) ==
    /\ entry' = IF entry = None THEN [metadata |-> metadata, age |-> 0] ELSE entry
    /\ UNCHANGED ttl

Set(metadata) ==
    /\ entry' = [metadata |-> metadata, age |-> 0]
    /\ UNCHANGED ttl

\* The clock of Instant.
Age ==
    /\ entry' = IF entry = None THEN None ELSE [entry EXCEPT !.age = Older(@)]
    /\ UNCHANGED ttl
=============================================================================
