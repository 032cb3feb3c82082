------------------------------- MODULE MCTun -------------------------------
(* Tun with its one reader and two writers, as in the server: the fewest that *)
(* can meet on lock_.  (In the client there is one.)                         *)
EXTENDS Tun
=============================================================================
