--------------------------- MODULE MCWaitableEvent ---------------------------
(***************************************************************************)
(* A small instance of WaitableEvent for TLC.                              *)
(***************************************************************************)
EXTENDS WaitableEvent

(* The same two events, given in either order.                             *)
BothWays == {<<1, 2>>, <<2, 1>>}

(* The threads are alike.                                                  *)
MCSymmetry == Permutations(Threads)
=============================================================================
