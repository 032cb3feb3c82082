------------------------------ MODULE MCSweep ------------------------------
(* Sweep with three connections and three sweeps under way at the same      *)
(* time: more than it takes for one sweep to move an element behind the     *)
(* index of another.  The acceptor starts a sweep at a length of two.       *)
EXTENDS Sweep, TLC

Symmetry == Permutations(Connections) \union Permutations(Sweeps)
=============================================================================
