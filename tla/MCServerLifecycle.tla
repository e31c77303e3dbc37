------------------------- MODULE MCServerLifecycle -------------------------
(***************************************************************************)
(* Instances of ServerLifecycle for TLC.                                   *)
(***************************************************************************)
EXTENDS ServerLifecycle, TLC

\* Terminals are all alike, and so are pids.
Symmetry == Permutations(Clis) \cup Permutations(Pids)

=============================================================================
