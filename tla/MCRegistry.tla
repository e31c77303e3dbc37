----------------------------- MODULE MCRegistry -----------------------------
(***************************************************************************)
(* Instances of Registry for TLC.                                          *)
(***************************************************************************)
EXTENDS Registry, TLC

\* Terminals, names and revisions are all alike.
Symmetry == Permutations(Clis) \cup Permutations(Names) \cup Permutations(Revs) \cup Permutations(Quants)

=============================================================================
