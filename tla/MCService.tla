------------------------------ MODULE MCService ------------------------------
(***************************************************************************)
(* Service with the sets its small instances use.                          *)
(***************************************************************************)
EXTENDS Service, TLC

\* Clients are alike.
Symmetry == Permutations(Clients)
=============================================================================
