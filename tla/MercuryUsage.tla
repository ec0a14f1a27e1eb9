----------------------------- MODULE MercuryUsage -----------------------------
(***************************************************************************)
(* MercuryClient and a note of how it has been used: orderly says that     *)
(* connect and disconnect were only called while no other call, reconnect  *)
(* task or cancelled reader was under way. It constrains no step;          *)
(* MercuryClient with its calls at any moment is what runs, except that no *)
(* connect is cancelled: Cancels is FALSE here.                            *)
(***************************************************************************)
EXTENDS MercuryClient, FiniteSets

ASSUME NoCancelsAssumption == ~Cancels

VARIABLE orderly

usageVars == <<vars, orderly>>

AtRest == NoneLeaving /\ \A a \in Actors : pc[a] = "idle"

UsageInit == Init /\ orderly = TRUE

Call(u) ==
    /\ Connect(u) \/ Disconnect(u)
    /\ orderly' = (orderly /\ AtRest)

(* The client, its loops and the network.                                  *)
Proceed ==
    /\ \/ \E u \in Users : Left(u) \/ AttemptStep(u)
       \/ ReconnectStep
       \/ \E s \in Sockets : LoopStep(s) \/ ConnectionLost(s)
    /\ UNCHANGED orderly

UsageNext == Proceed \/ \E u \in Users : Call(u)

UsageSpec == UsageInit /\ [][UsageNext]_usageVars

-----------------------------------------------------------------------------
(* Properties.                                                             *)

(* One attempt and one websocket at a time, over any number of losses,     *)
(* failed attempts and reconnects: _connect_with_backoff, _reconnect and   *)
(* the two loops leave no websocket open that nobody will close.           *)
OneConnection ==
    orderly =>
        /\ Cardinality(Attempts) <= 1
        /\ Cardinality(Opened) <= 1
        /\ Opened # {} => Attempts # {} \/ ws \in Opened \/ \E u \in Users : pc[u] = "leave"

(* is_connected() is never left over from a connection that is gone: while *)
(* it says True the published websocket has its reader, which is the one   *)
(* disconnect() would cancel and whose end starts a reconnect. (A connect  *)
(* that overlaps a loss may publish a websocket that the reconnect task    *)
(* then takes away: orderly use is needed here.)                           *)
ConnectedIsServed ==
    orderly /\ connected =>
        /\ ws # None /\ latest = ws
        /\ reader[ws] = "new" \/ (reader[ws] = "recv" /\ reads[ws] = ws)

(* Once disconnect() is over nothing of the connection is left but, at     *)
(* most, loops that find no live websocket when they run again.            *)
DisconnectedIsQuiet ==
    orderly /\ closing /\ (\A u \in Users : pc[u] = "idle") =>
        /\ ~connected /\ ws = None
        /\ Attempts = {} /\ Opened = {}

(* What these rest on. Under orderly use one actor at a time is at work,   *)
(* none while there is a connection; a websocket that is published belongs *)
(* to the connection or to the reconnect task that is about to close it,   *)
(* and one that is open is published or in the hands of an actor;          *)
(* disconnect() leaves nothing but its own closing of the websocket and    *)
(* the reader that it has cancelled. No two readers receive from the same  *)
(* websocket, and none from one that was never published.                  *)
OneAtWork ==
    /\ \A a, b \in Actors : pc[a] # "idle" /\ pc[b] # "idle" => a = b
    /\ connected => \A a \in Actors : pc[a] = "idle"
OpenInHand ==
    /\ ws # None => connected \/ pc[Reconnect] = "created"
    /\ \A s \in Opened :
         \/ s = ws
         \/ \E a \in Actors : sock[a] = s /\ pc[a] \in {"auth", "drop", "stale", "leave"}
ReadersKnown ==
    /\ \A s \in Sockets : reads[s] # None <=> reader[s] \in {"recv", "cancelled"}
    /\ \A r, s \in Sockets : reads[r] = reads[s] /\ reads[r] # None => r = s
    /\ \A s \in Sockets : socket[s] = "unused" => ~BeingRead(s)
    /\ \A a \in Actors : pc[a] \in {"auth", "drop"} => ~BeingRead(sock[a])
ClosingIsQuiet ==
    /\ closing => ~connected /\ ws = None /\ \A a \in Actors : pc[a] \in {"idle", "leave"}
    /\ NoneLeaving \/ closing
OrderlyUse == orderly => OneAtWork /\ OpenInHand /\ ReadersKnown /\ ClosingIsQuiet

(* The inductive invariant.                                                *)
UsageIInv ==
    /\ IInv /\ ConnectingHasAttempt /\ orderly \in BOOLEAN
    /\ OrderlyUse /\ ConnectedIsServed
===============================================================================
