------------------------------- MODULE MCLog -------------------------------
(* The order in which Logger::init opens its files, and maps of one to five  *)
(* files opened in other orders for the search.                              *)
EXTENDS LogQueue

CodeOrder == {<<2, 0, 1>>}
MCOpened == CodeOrder \union {<<4>>, <<6, 3>>, <<1, 5, 3, 7>>, <<8, 2, 6, 4, 0>>, <<1, 3, 5, 7, 9, 0>>}
=============================================================================
