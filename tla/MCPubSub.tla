----------------------------- MODULE MCPubSub -----------------------------
(* Small instances of PubSub for TLC. *)
EXTENDS PubSub, TLC

\* The connections are alike: for the runs without liveness.
Symmetry == Permutations(Clients)
=============================================================================
