-------------------------- MODULE MercuryRefinement --------------------------
(* MercuryClient implements MercuryConnection: whatever websockets, loops  *)
(* and flags there are, is_connected() speaks of the published websocket,  *)
(* and an attempt lasts from the call, or from the creation of the         *)
(* reconnect task, to its end.                                             *)
EXTENDS MercuryClient

LinkState ==
    IF ~connected THEN "none"
    ELSE IF ws = None THEN "taken" ELSE IF ws \in Opened THEN "up" ELSE "broken"

Seeking == {a \in Actors : pc[a] \in Trying \cup {"created", "stale"}}

Connection == INSTANCE MercuryConnection WITH link <- LinkState, trying <- Seeking, leaving <- ~NoneLeaving

(* Every behaviour of the client is one of MercuryConnection: it says that *)
(* it is connected only for a connection somebody's attempt has made, it   *)
(* leaves a connection only for disconnect() or with a reconnect, attempts *)
(* come to an end and a broken connection is given up.                     *)
ImplementsConnection == Connection!FairSpec
==============================================================================
