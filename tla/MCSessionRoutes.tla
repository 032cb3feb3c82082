-------------------------- MODULE MCSessionRoutes --------------------------
(* SessionRoutes on small instances: three or four sessions that share two   *)
(* addresses, so that an address is reused, a probe meets a used one and the *)
(* counter wraps around; a tunQueue of two records, which is full when a     *)
(* session wants to register, or of three, so that several records wait in   *)
(* one run of emptyQueue.                                                    *)
EXTENDS SessionRoutes, TLC

Symmetry == Permutations(Sessions)
=============================================================================
