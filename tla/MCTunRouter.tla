---------------------------- MODULE MCTunRouter ----------------------------
(* TunRouter with two connections that can be closed while packets for them *)
(* are on the way, a stack of up to three frames, so that one can wait for  *)
(* each connection while the third runs, and two root coroutines, in builds *)
(* with and without assertions.                                             *)
EXTENDS TunRouter
=============================================================================
