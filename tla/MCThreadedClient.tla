--------------------------- MODULE MCThreadedClient ---------------------------
(* Instances of ThreadedClient for TLC: the calls are alike.                 *)
EXTENDS ThreadedClient, TLC

ThreadedSymmetry == Permutations(Calls)
===============================================================================
