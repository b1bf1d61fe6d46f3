--------------------------- MODULE MCHealthCheck ---------------------------
(***************************************************************************)
(* HealthCheck with the sets its small instances use.                      *)
(***************************************************************************)
EXTENDS HealthCheck, TLC

\* Instances are compared for equality only.
Symmetry == Permutations(Instances)

\* Instances on a database that is there from the start.
CreatedInit == Init /\ created
CreatedSpec == CreatedInit /\ [][Next]_vars
=============================================================================
