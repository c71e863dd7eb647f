---------------------------- MODULE MCChildLists ----------------------------
(* Small instances of ChildLists for TLC. *)
EXTENDS ChildLists, TLC

\* Radixes are only compared.
Symmetry == Permutations(Radixes)
\* No action reads the last operation.
ListsView == listVars
=============================================================================
