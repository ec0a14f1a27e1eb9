------------------------ MODULE MercuryRefinementProofs ------------------------
(***************************************************************************)
(* MercuryClient implements the safety part of MercuryConnection: it       *)
(* starts in an initial state of MercuryConnection and each of its steps   *)
(* is one of MercuryConnection or changes nothing that this speaks of. The *)
(* steps are those of an attempt, of a websocket that ends, and of a loss  *)
(* that a loop notices.                                                    *)
(***************************************************************************)
EXTENDS MercuryRefinement, MercuryClientProofs

USE ActorsAssumption, RetriesAssumption, UsageAssumption
USE DEF Actors, ActorPcs, Trying, Opened, ReaderDue, PongDue, BeingRead,
        NoneLeaving, flagVars, actorVars, loopVars

Promised == Connection!Next \/ UNCHANGED Connection!linkVars

-----------------------------------------------------------------------------
(* What a step may do to the link and to those who seek one.               *)

LEMMA NothingSeen ==
    ASSUME UNCHANGED <<LinkState, Seeking, closing, NoneLeaving>>
    PROVE  Promised
BY DEF Promised, Connection!linkVars

(* An attempt that ends without a connection.                              *)
LEMMA AttemptEnds ==
    ASSUME TypeOK, NEW a \in Actors, pc[a] \in Trying, pc' = [pc EXCEPT ![a] = "idle"],
           UNCHANGED <<LinkState, closing, NoneLeaving>>
    PROVE  Promised
<1>1. a \in Seeking /\ Seeking' = Seeking \ {a}
  BY DEF TypeOK, Seeking
<1>2. Connection!Fails(a)
  BY <1>1 DEF Connection!Fails
<1>. QED BY <1>2 DEF Promised, Connection!Next

(* An attempt that goes on.                                                *)
LEMMA AttemptGoesOn ==
    ASSUME TypeOK, NEW a \in Actors, NEW place \in Trying \cup {"stale"},
           pc[a] \in Trying \cup {"created", "stale"}, pc' = [pc EXCEPT ![a] = place]
    PROVE  Seeking' = Seeking
BY DEF Seeking

(* A websocket that ends is seen only if it is the published one.          *)
LEMMA WebsocketEnds ==
    ASSUME TypeOK, NEW s \in Sockets, NEW end \in {"closed", "lost"},
           socket' = [socket EXCEPT ![s] = end],
           UNCHANGED <<ws, connected, closing, Seeking, NoneLeaving>>
    PROVE  Promised
<1>1. CASE LinkState = "up" /\ ws = s
  <2>1. LinkState' = "broken"
    BY <1>1 DEF TypeOK, LinkState
  <2>2. Connection!Breaks
    BY <1>1, <2>1 DEF Connection!Breaks
  <2>. QED BY <2>2 DEF Promised, Connection!Next
<1>2. CASE ~(LinkState = "up" /\ ws = s)
  <2>1. LinkState' = LinkState
    BY <1>2 DEF LinkState
  <2>. QED BY <2>1, NothingSeen
<1>. QED BY <1>1, <1>2

(* A loop that ends gives the connection up, if there still is one: either *)
(* the reconnect task is created, or it is there already, or disconnect()  *)
(* was called.                                                             *)
LEMMA LossIsNoticed ==
    ASSUME TypeOK, SocketsOwned, connected' = FALSE, StartReconnect(connected),
           UNCHANGED <<closing, NoneLeaving>>
    PROVE  Promised
<1>1. LinkState' = "none"
  BY DEF LinkState
<1>2. CASE connected
  <2>1. LinkState # "none"
    BY <1>2 DEF LinkState
  <2>2. Seeking' = IF closing THEN Seeking ELSE Seeking \cup {Reconnect}
    BY <1>2 DEF TypeOK, SocketsOwned, StartReconnect, Seeking
  <2>3. Connection!GivesUp
    BY <1>1, <2>1, <2>2 DEF Connection!GivesUp
  <2>. QED BY <2>3 DEF Promised, Connection!Next
<1>3. CASE ~connected
  <2>1. LinkState = "none" /\ Seeking' = Seeking
    BY <1>3 DEF LinkState, StartReconnect, Seeking
  <2>. QED BY <1>1, <2>1, NothingSeen
<1>. QED BY <1>2, <1>3

-----------------------------------------------------------------------------
(* connect, disconnect and what they leave behind.                         *)
LEMMA ConnectPromised == ASSUME IInv, NEW u \in Users, Connect(u) PROVE Promised
<1>. USE DEF IInv, Connect
<1>1. LinkState = "none" /\ LinkState' = LinkState
  BY DEF LinkState
<1>2. u \notin Seeking /\ Seeking' = Seeking \cup {u}
  BY DEF TypeOK, Seeking
<1>3. Connection!Connect(u)
  BY <1>1, <1>2 DEF Connection!Connect
<1>. QED BY <1>3 DEF Promised, Connection!Next

LEMMA DisconnectPromised == ASSUME IInv, NEW u \in Users, Disconnect(u) PROVE Promised
<1>. USE DEF IInv, Disconnect
<1>1. LinkState' = "none"
  BY DEF LinkState
<1>2. Seeking' = Seeking
  BY DEF Seeking
<1>3. Connection!Disconnect
  BY <1>1, <1>2 DEF Connection!Disconnect
<1>. QED BY <1>3 DEF Promised, Connection!Next

LEMMA LeftPromised == ASSUME IInv, NEW u \in Users, Left(u) PROVE Promised
<1>. USE DEF IInv, Left
<1>1. sock[u] \in Sockets
  BY DEF TypeOK, SocketsOwned
<1>2. Seeking' = Seeking
  BY DEF Seeking
<1>. QED BY <1>1, <1>2, WebsocketEnds DEF Close

LEMMA CancelConnectPromised == ASSUME IInv, NEW u \in Users, CancelConnect(u) PROVE Promised
BY AttemptEnds DEF IInv, CancelConnect, LinkState

-----------------------------------------------------------------------------
(* The steps of an attempt: only its success and its end are seen. What it *)
(* opens and closes is not the published websocket (SocketsOwned).         *)
LEMMA AttemptPromised == ASSUME IInv, NEW a \in Actors, AttemptStep(a) PROVE Promised
<1>. USE DEF IInv
<1>1. CASE ProviderAnswers(a) \/ AuthFails(a) \/ Wake(a)
  <2>1. Seeking' = Seeking
    BY <1>1, AttemptGoesOn DEF ProviderAnswers, AuthFails, Wake
  <2>2. UNCHANGED <<LinkState, closing, NoneLeaving>>
    BY <1>1 DEF ProviderAnswers, AuthFails, Wake, LinkState
  <2>. QED BY <2>1, <2>2, NothingSeen
<1>2. CASE ProviderFails(a)
  BY <1>2, AttemptEnds DEF ProviderFails, LinkState
<1>3. CASE Opens(a)
  <2>1. Seeking' = Seeking
    BY <1>3, AttemptGoesOn DEF Opens
  <2>2. UNCHANGED <<LinkState, closing, NoneLeaving>>
    BY <1>3 DEF Opens, SocketsOwned, LinkState
  <2>. QED BY <2>1, <2>2, NothingSeen
<1>4. CASE OpenFails(a) \/ Dropped(a)
  <2>1. UNCHANGED <<LinkState, closing, NoneLeaving>>
    BY <1>4 DEF OpenFails, Dropped, Close, TypeOK, SocketsOwned, LinkState
  <2>2. AttemptFailed(a) /\ pc[a] \in Trying
    BY <1>4 DEF OpenFails, Dropped
  <2>3. CASE left[a] > 0
    <3>1. Seeking' = Seeking
      BY <2>2, <2>3, AttemptGoesOn DEF AttemptFailed
    <3>. QED BY <2>1, <3>1, NothingSeen
  <2>4. CASE ~(left[a] > 0)
    BY <2>1, <2>2, <2>4, AttemptEnds DEF AttemptFailed
  <2>. QED BY <2>3, <2>4
<1>5. CASE Publish(a)
  <2>1. LinkState' \in {"up", "broken"}
    BY <1>5 DEF Publish, TypeOK, SocketsOwned, LinkState
  <2>2. a \in Seeking /\ Seeking' = Seeking \ {a}
    BY <1>5 DEF Publish, TypeOK, Seeking
  <2>3. NoneLeaving' = NoneLeaving
    BY <1>5 DEF Publish, TypeOK, SocketsOwned
  <2>4. Connection!Succeeds(a)
    <3>. HIDE DEF NoneLeaving
    <3>. QED BY <1>5, <2>1, <2>2, <2>3 DEF Publish, Connection!Succeeds
  <2>. QED BY <2>4 DEF Promised, Connection!Next
<1>. QED BY <1>1, <1>2, <1>3, <1>4, <1>5 DEF AttemptStep

LEMMA ReconnectPromised == ASSUME IInv, ReconnectStep PROVE Promised
<1>. USE DEF IInv
<1>1. CASE BeginReconnect
  <2>1. Seeking' = Seeking
    BY <1>1, AttemptGoesOn DEF BeginReconnect
  <2>2. CASE connected
    <3>1. LinkState # "none" /\ LinkState' = "taken"
      BY <1>1, <2>2 DEF BeginReconnect, LinkState
    <3>2. Reconnect \in Seeking
      BY <1>1 DEF BeginReconnect, Seeking
    <3>3. Connection!Takes
      BY <1>1, <2>1, <3>1, <3>2 DEF BeginReconnect, Connection!Takes
    <3>. QED BY <3>3 DEF Promised, Connection!Next
  <2>3. CASE ~connected
    <3>1. UNCHANGED <<LinkState, closing, NoneLeaving>>
      BY <1>1, <2>3 DEF BeginReconnect, LinkState
    <3>. QED BY <2>1, <3>1, NothingSeen
  <2>. QED BY <2>2, <2>3
<1>2. CASE StaleClosed
  <2>1. Seeking' = Seeking
    BY <1>2, AttemptGoesOn DEF StaleClosed
  <2>2. sock[Reconnect] \in Sockets
    BY <1>2 DEF StaleClosed, TypeOK, SocketsOwned
  <2>. QED BY <1>2, <2>1, <2>2, WebsocketEnds DEF StaleClosed, Close
<1>. QED BY <1>1, <1>2, AttemptPromised DEF ReconnectStep

-----------------------------------------------------------------------------
(* A cancelled reader is one of those that are still to end; others are    *)
(* not, nor do they become one.                                            *)
LEMMA ReaderChanges ==
    ASSUME TypeOK, NEW s \in Sockets, reader[s] # "cancelled",
           NEW place \in {"none", "recv"}, reader' = [reader EXCEPT ![s] = place]
    PROVE  NoneLeaving' = NoneLeaving
BY DEF TypeOK

(* The loops: what ends one is noticed, everything else is not seen.       *)
LEMMA ReaderFailedPromised ==
    ASSUME IInv, NEW s \in Sockets, reader[s] # "cancelled", ReaderFailed(s), UNCHANGED closing
    PROVE  Promised
<1>1. NoneLeaving' = NoneLeaving
  BY ReaderChanges DEF IInv, ReaderFailed, ReaderEnds
<1>. QED BY <1>1, LossIsNoticed DEF IInv, ReaderFailed, ReaderEnds, MarkDisconnected

(* A reader that finds no websocket has been left without one by           *)
(* disconnect(), or by the reconnect task: nobody is to reconnect.         *)
LEMMA ReceivesNextPromised ==
    ASSUME IInv, NEW s \in Sockets, reader[s] # "cancelled", ReceivesNext(s)
    PROVE  Promised
<1>. USE DEF IInv, ReceivesNext
<1>1. CASE ReaderFailed(s)
  BY <1>1, ReaderFailedPromised
<1>2. CASE ws = None /\ ReaderEnds(s) /\ UNCHANGED pc
  <2>1. NoneLeaving' = NoneLeaving
    BY <1>2, ReaderChanges DEF ReaderEnds
  <2>2. Seeking' = Seeking /\ LinkState' = "none" /\ LinkState \in {"none", "taken"}
    BY <1>2 DEF ReaderEnds, MarkDisconnected, Seeking, LinkState
  <2>3. CASE LinkState = "taken"
    <3>1. Connection!GivesUp
      BY <2>1, <2>2, <2>3 DEF Connection!GivesUp
    <3>. QED BY <3>1 DEF Promised, Connection!Next
  <2>. QED BY <2>1, <2>2, <2>3, NothingSeen
<1>3. CASE reader' = [reader EXCEPT ![s] = "recv"] /\ UNCHANGED <<connected, pc>>
  <2>1. NoneLeaving' = NoneLeaving
    BY <1>3, ReaderChanges
  <2>2. UNCHANGED <<LinkState, Seeking, closing>>
    BY <1>3 DEF LinkState, Seeking
  <2>. QED BY <2>1, <2>2, NothingSeen
<1>. QED BY <1>1, <1>2, <1>3

(* What a disconnect() has cancelled takes the connection down that it     *)
(* finds.                                                                  *)
LEMMA CancelledReaderEndsPromised ==
    ASSUME IInv, NEW s \in Sockets, CancelledReaderEnds(s)
    PROVE  Promised
<1>. USE DEF CancelledReaderEnds, ReaderEnds, MarkDisconnected
<1>1. LinkState' = "none" /\ Seeking' = Seeking
  BY DEF LinkState, Seeking
<1>2. ~NoneLeaving /\ (~NoneLeaving)' \in BOOLEAN
  OBVIOUS
<1>3. Connection!Leaves
  BY <1>1, <1>2 DEF Connection!Leaves
<1>. QED BY <1>3 DEF Promised, Connection!Next

LEMMA LoopPromised == ASSUME IInv, NEW s \in Sockets, LoopStep(s) PROVE Promised
<1>. USE DEF IInv
<1>1. CASE ReaderFails(s) \/ BadFrame(s)
  BY <1>1, ReaderFailedPromised DEF ReaderFails, BadFrame
<1>2. CASE ReaderStarts(s) \/ ReaderTurns(s)
  BY <1>2, ReceivesNextPromised DEF ReaderStarts, ReaderTurns
<1>3. CASE PingFails(s)
  BY <1>3, LossIsNoticed DEF PingFails, HandleConnectionError, MarkDisconnected
<1>4. CASE PingSent(s) \/ PongArrives(s)
  <2>1. UNCHANGED <<LinkState, Seeking, closing, NoneLeaving>>
    BY <1>4 DEF PingSent, PongArrives, LinkState, Seeking
  <2>. QED BY <2>1, NothingSeen
<1>. QED BY <1>1, <1>2, <1>3, <1>4, CancelledReaderEndsPromised DEF LoopStep

LEMMA ConnectionLostPromised ==
    ASSUME IInv, NEW s \in Sockets, ConnectionLost(s)
    PROVE  Promised
<1>1. Seeking' = Seeking
  BY DEF ConnectionLost, Seeking
<1>. QED BY <1>1, WebsocketEnds DEF IInv, ConnectionLost

-----------------------------------------------------------------------------
(* MercuryClient implements what MercuryConnection promises of safety: it  *)
(* is connected only by an attempt of somebody, and leaves a connection    *)
(* only for disconnect() or with a reconnect.                              *)
THEOREM Implements == Spec => Connection!Spec
<1>1. Init => Connection!Init
  BY DEF Init, Connection!Init, LinkState, Seeking
<1>2. IInv /\ [Next]_vars => [Connection!Next]_Connection!linkVars
  <2>. SUFFICES ASSUME IInv, [Next]_vars PROVE Promised
    BY DEF Promised
  <2>1. CASE Next
    BY <2>1, ConnectPromised, DisconnectPromised, LeftPromised, CancelConnectPromised,
       AttemptPromised, ReconnectPromised, LoopPromised, ConnectionLostPromised DEF Next
  <2>2. CASE UNCHANGED vars
    BY <2>2, NothingSeen DEF vars, LinkState, Seeking
  <2>. QED BY <2>1, <2>2
<1>. QED BY <1>1, <1>2, Invariance, PTL DEF Spec, Connection!Spec
================================================================================
