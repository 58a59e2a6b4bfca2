---------------------------- MODULE MCTailWriter ----------------------------
(* TailWriter on a small instance. *)
EXTENDS TailWriter, TLC

\* Bodies are only ever compared, so permuting them changes nothing.
Symmetry == Permutations(Bodies) \cup Permutations(Tiles)
=============================================================================
