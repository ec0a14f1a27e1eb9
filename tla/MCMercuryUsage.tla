---------------------------- MODULE MCMercuryUsage ----------------------------
(* Instances of MercuryUsage for TLC: users are alike, and so are sockets.   *)
EXTENDS MercuryUsage, TLC

UsageSymmetry == Permutations(Users) \cup Permutations(Sockets)
===============================================================================
