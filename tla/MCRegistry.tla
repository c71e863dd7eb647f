----------------------------- MODULE MCRegistry -----------------------------
(* Small instances of Registry for TLC. *)
EXTENDS Registry, TLC

\* The connections are alike.
Symmetry == Permutations(Clients)

\* No action reads what the last call of the arena returned.
RegistryView == <<vars, arenaVars, issued, key>>
=============================================================================
