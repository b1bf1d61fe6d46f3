---------------------------- MODULE MCPulseLoop ----------------------------
(***************************************************************************)
(* PulseLoop with the sets its small instances use.                        *)
(***************************************************************************)
EXTENDS PulseLoop, TLC

\* The loop compares hosts and sessions for equality only.
Symmetry == Permutations(Hosts) \cup Permutations(Releases) \cup Permutations(Sessions)
=============================================================================
