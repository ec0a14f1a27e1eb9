--------------------------- MODULE MCMercuryClient ---------------------------
(* Instances of MercuryClient for TLC: users are alike, and so are sockets. *)
EXTENDS MercuryRefinement, TLC

MercurySymmetry == Permutations(Users) \cup Permutations(Sockets)
=============================================================================
