-------------------------- MODULE MercuryClientProofs --------------------------
(***************************************************************************)
(* The safety properties of MercuryClient for any number of users, sockets *)
(* and retries, whenever the calls are made: TypeOK and, without cancelled *)
(* calls, ConnectingHasAttempt; and SocketsOwned, on which the refinement  *)
(* and MercuryUsageProofs rest. One lemma per action.                      *)
(***************************************************************************)
EXTENDS MercuryClient, TLAPS

USE ActorsAssumption, RetriesAssumption, UsageAssumption
USE DEF Actors, ActorPcs, Trying, Opened, ReaderDue, PongDue, BeingRead,
        flagVars, actorVars, loopVars

(* The types of what AttemptFailed writes.                                 *)
LEMMA AttemptFailedTypes ==
    ASSUME TypeOK, NEW a \in Actors, AttemptFailed(a)
    PROVE  /\ pc' \in [Actors -> ActorPcs] /\ connecting' \in BOOLEAN
           /\ left' \in [Actors -> 0 .. MaxRetries \cup 0 .. InitialMaxRetries]
<1>. USE DEF TypeOK, AttemptFailed, ForgetConnecting
<1>1. left[a] > 0 => left[a] - 1 \in 0 .. MaxRetries \cup 0 .. InitialMaxRetries
  <2>1. left[a] \in 0 .. MaxRetries \cup 0 .. InitialMaxRetries
    OBVIOUS
  <2>. QED BY <2>1
<1>2. CASE left[a] > 0
  BY <1>1, <1>2
<1>3. CASE ~(left[a] > 0)
  BY <1>3
<1>. QED BY <1>2, <1>3

(* A connect() that goes on finds no connection.                           *)
LEMMA ConnectStep == ASSUME IInv, NEW u \in Users, Connect(u) PROVE IInv'
<1>. USE DEF IInv, Connect
<1>1. TypeOK'
  BY DEF TypeOK
<1>2. SocketsOwned'
  BY DEF SocketsOwned
<1>. QED BY <1>1, <1>2

(* disconnect() unpublishes the websocket and takes it in hand.            *)
LEMMA DisconnectStep == ASSUME IInv, NEW u \in Users, Disconnect(u) PROVE IInv'
<1>. USE DEF IInv, Disconnect, CancelLatestLoops
<1>1. TypeOK'
  <2>1. reader' \in [Sockets -> {"none", "new", "recv", "cancelled"}]
    BY DEF TypeOK
  <2>2. pinger' \in [Sockets -> {"none", "sleep", "pong"}]
    BY DEF TypeOK
  <2>3. pings' \in [Sockets -> Sockets \cup {None}]
    BY DEF TypeOK
  <2>. QED BY <2>1, <2>2, <2>3 DEF TypeOK
<1>2. SocketsOwned'
  BY DEF TypeOK, SocketsOwned
<1>. QED BY <1>1, <1>2

LEMMA LeftStep == ASSUME IInv, NEW u \in Users, Left(u) PROVE IInv'
<1>. USE DEF IInv, Left, Close
<1>1. TypeOK'
  BY DEF TypeOK
<1>2. SocketsOwned'
  BY DEF TypeOK, SocketsOwned
<1>. QED BY <1>1, <1>2

(* A cancelled attempt lets go of its websocket.                           *)
LEMMA CancelConnectStep == ASSUME IInv, NEW u \in Users, CancelConnect(u) PROVE IInv'
<1>. USE DEF IInv, CancelConnect
<1>1. TypeOK'
  BY DEF TypeOK
<1>2. SocketsOwned'
  BY DEF TypeOK, SocketsOwned
<1>. QED BY <1>1, <1>2

(* From here on an attempt of anyone. The provider's answer.               *)
LEMMA ProviderAnswersStep == ASSUME IInv, NEW a \in Actors, ProviderAnswers(a) PROVE IInv'
<1>. USE DEF IInv, ProviderAnswers
<1>1. TypeOK'
  BY DEF TypeOK
<1>2. SocketsOwned'
  BY DEF SocketsOwned
<1>. QED BY <1>1, <1>2

LEMMA ProviderFailsStep == ASSUME IInv, NEW a \in Actors, ProviderFails(a) PROVE IInv'
<1>. USE DEF IInv, ProviderFails, ForgetConnecting
<1>1. TypeOK'
  BY DEF TypeOK
<1>2. SocketsOwned'
  BY DEF SocketsOwned
<1>. QED BY <1>1, <1>2

(* The websocket that is opened is in nobody's hands, nor published.       *)
LEMMA OpensStep == ASSUME IInv, NEW a \in Actors, Opens(a) PROVE IInv'
<1>. USE DEF IInv, Opens
<1>1. TypeOK'
  BY DEF TypeOK
<1>2. SocketsOwned'
  BY DEF TypeOK, SocketsOwned
<1>. QED BY <1>1, <1>2

LEMMA OpenFailsStep == ASSUME IInv, NEW a \in Actors, OpenFails(a) PROVE IInv'
<1>. USE DEF IInv, OpenFails, AttemptFailed, ForgetConnecting
<1>1. TypeOK'
  BY AttemptFailedTypes DEF TypeOK
<1>2. SocketsOwned'
  BY DEF TypeOK, SocketsOwned
<1>. QED BY <1>1, <1>2

LEMMA AuthFailsStep == ASSUME IInv, NEW a \in Actors, AuthFails(a) PROVE IInv'
<1>. USE DEF IInv, AuthFails
<1>1. TypeOK'
  BY DEF TypeOK
<1>2. SocketsOwned'
  BY DEF SocketsOwned
<1>. QED BY <1>1, <1>2

(* The websocket that is closed is not the published one.                  *)
LEMMA DroppedStep == ASSUME IInv, NEW a \in Actors, Dropped(a) PROVE IInv'
<1>. USE DEF IInv, Dropped, Close, AttemptFailed, ForgetConnecting
<1>1. TypeOK'
  BY AttemptFailedTypes DEF TypeOK
<1>2. SocketsOwned'
  BY DEF TypeOK, SocketsOwned
<1>. QED BY <1>1, <1>2

LEMMA WakeStep == ASSUME IInv, NEW a \in Actors, Wake(a) PROVE IInv'
<1>. USE DEF IInv, Wake
<1>1. TypeOK'
  BY DEF TypeOK
<1>2. SocketsOwned'
  BY DEF SocketsOwned
<1>. QED BY <1>1, <1>2

(* The published websocket is the one that was opened, with a reader.      *)
LEMMA PublishStep == ASSUME IInv, NEW a \in Actors, Publish(a) PROVE IInv'
<1>. USE DEF IInv, Publish
<1>1. TypeOK'
  <2>1. 0 \in 0 .. MaxRetries \cup 0 .. InitialMaxRetries
    OBVIOUS
  <2>2. sock[a] \in Sockets
    BY DEF TypeOK, SocketsOwned
  <2>. QED BY <2>1, <2>2 DEF TypeOK
<1>2. SocketsOwned'
  BY DEF TypeOK, SocketsOwned
<1>. QED BY <1>1, <1>2

(* The reconnect task is created when connected is reset, and runs first.  *)
LEMMA BeginReconnectStep == ASSUME IInv, BeginReconnect PROVE IInv'
<1>. USE DEF IInv, BeginReconnect
<1>1. TypeOK'
  BY DEF TypeOK
<1>2. SocketsOwned'
  BY DEF TypeOK, SocketsOwned
<1>. QED BY <1>1, <1>2

LEMMA StaleClosedStep == ASSUME IInv, StaleClosed PROVE IInv'
<1>. USE DEF IInv, StaleClosed, Close
<1>1. TypeOK'
  BY DEF TypeOK
<1>2. SocketsOwned'
  BY DEF TypeOK, SocketsOwned
<1>. QED BY <1>1, <1>2

(* A reader that ends and a ping that fails reset connected.               *)
LEMMA ReaderFailsStep == ASSUME IInv, NEW s \in Sockets, ReaderFails(s) PROVE IInv'
<1>. USE DEF IInv, ReaderFails, ReaderFailed, ReaderEnds, MarkDisconnected, StartReconnect
<1>1. TypeOK'
  BY DEF TypeOK
<1>2. SocketsOwned'
  BY DEF SocketsOwned
<1>. QED BY <1>1, <1>2

LEMMA BadFrameStep == ASSUME IInv, NEW s \in Sockets, BadFrame(s) PROVE IInv'
<1>. USE DEF IInv, BadFrame, ReaderFailed, ReaderEnds, MarkDisconnected, StartReconnect
<1>1. TypeOK'
  BY DEF TypeOK
<1>2. SocketsOwned'
  BY DEF SocketsOwned
<1>. QED BY <1>1, <1>2

(* Whatever websocket a reader turns to.                                   *)
LEMMA ReceivesNextStep ==
    ASSUME IInv, NEW s \in Sockets, reader[s] # "none", ReceivesNext(s)
    PROVE  IInv'
<1>. USE DEF IInv, ReceivesNext, ReaderFailed, ReaderEnds, MarkDisconnected, StartReconnect
<1>1. TypeOK'
  <2>1. \E x \in Sockets \cup {None} : reads' = [reads EXCEPT ![s] = x]
    BY DEF TypeOK
  <2>2. \E x \in {"none", "recv"} : reader' = [reader EXCEPT ![s] = x]
    OBVIOUS
  <2>3. connected' \in BOOLEAN
    BY DEF TypeOK
  <2>4. pc' \in [Actors -> ActorPcs]
    BY DEF TypeOK
  <2>. QED BY <2>1, <2>2, <2>3, <2>4 DEF TypeOK
<1>2. SocketsOwned'
  BY DEF TypeOK, SocketsOwned
<1>. QED BY <1>1, <1>2

LEMMA CancelledReaderEndsStep == ASSUME IInv, NEW s \in Sockets, CancelledReaderEnds(s) PROVE IInv'
<1>. USE DEF IInv, CancelledReaderEnds, ReaderEnds, MarkDisconnected
<1>1. TypeOK'
  BY DEF TypeOK
<1>2. SocketsOwned'
  BY DEF SocketsOwned
<1>. QED BY <1>1, <1>2

LEMMA PingSentStep == ASSUME IInv, NEW s \in Sockets, PingSent(s) PROVE IInv'
<1>. USE DEF IInv, PingSent
<1>1. TypeOK'
  BY DEF TypeOK
<1>2. SocketsOwned'
  BY DEF SocketsOwned
<1>. QED BY <1>1, <1>2

LEMMA PongArrivesStep == ASSUME IInv, NEW s \in Sockets, PongArrives(s) PROVE IInv'
<1>. USE DEF IInv, PongArrives
<1>1. TypeOK'
  BY DEF TypeOK
<1>2. SocketsOwned'
  BY DEF SocketsOwned
<1>. QED BY <1>1, <1>2

LEMMA PingFailsStep == ASSUME IInv, NEW s \in Sockets, PingFails(s) PROVE IInv'
<1>. USE DEF IInv, PingFails, HandleConnectionError, MarkDisconnected, StartReconnect
<1>1. TypeOK'
  BY DEF TypeOK
<1>2. SocketsOwned'
  BY DEF SocketsOwned
<1>. QED BY <1>1, <1>2

LEMMA ConnectionLostStep == ASSUME IInv, NEW s \in Sockets, ConnectionLost(s) PROVE IInv'
<1>. USE DEF IInv, ConnectionLost
<1>1. TypeOK'
  BY DEF TypeOK
<1>2. SocketsOwned'
  BY DEF SocketsOwned
<1>. QED BY <1>1, <1>2

-----------------------------------------------------------------------------
LEMMA InitIInv == Init => IInv
<1>1. Init => TypeOK
  <2>1. Init => left \in [Actors -> 0 .. MaxRetries \cup 0 .. InitialMaxRetries]
    BY DEF Init
  <2>2. Init => pc \in [Actors -> ActorPcs] /\ sock \in [Actors -> Sockets \cup {None}]
    BY DEF Init
  <2>3. Init => /\ socket \in [Sockets -> {"unused", "open", "lost", "closed"}]
               /\ reader \in [Sockets -> {"none", "new", "recv", "cancelled"}]
               /\ pinger \in [Sockets -> {"none", "sleep", "pong"}]
    BY DEF Init
  <2>4. Init => reads \in [Sockets -> Sockets \cup {None}] /\ pings \in [Sockets -> Sockets \cup {None}]
    BY DEF Init
  <2>5. Init => /\ ws \in Sockets \cup {None} /\ latest \in Sockets \cup {None}
               /\ connected \in BOOLEAN /\ connecting \in BOOLEAN
               /\ closing \in BOOLEAN /\ hasConnected \in BOOLEAN
    BY DEF Init
  <2>. QED BY <2>1, <2>2, <2>3, <2>4, <2>5 DEF TypeOK
<1>2. Init => SocketsOwned
  BY DEF Init, SocketsOwned
<1>. QED BY <1>1, <1>2 DEF IInv

LEMMA NextStep == ASSUME IInv, [Next]_vars PROVE IInv'
<1>1. CASE UNCHANGED vars
  BY <1>1 DEF vars, IInv, TypeOK, SocketsOwned
<1>2. ASSUME NEW a \in Actors, AttemptStep(a) PROVE IInv'
  BY <1>2, ProviderAnswersStep, ProviderFailsStep, OpensStep, OpenFailsStep, AuthFailsStep,
     DroppedStep, WakeStep, PublishStep DEF AttemptStep
<1>3. CASE \E u \in Users : Connect(u) \/ Disconnect(u) \/ Left(u) \/ CancelConnect(u)
  BY <1>3, ConnectStep, DisconnectStep, LeftStep, CancelConnectStep
<1>4. CASE ReconnectStep
  BY <1>2, <1>4, BeginReconnectStep, StaleClosedStep DEF ReconnectStep
<1>5. CASE \E s \in Sockets : LoopStep(s) \/ ConnectionLost(s)
  BY <1>5, ReaderFailsStep, BadFrameStep, ReceivesNextStep, CancelledReaderEndsStep,
     PingSentStep, PongArrivesStep, PingFailsStep, ConnectionLostStep
     DEF LoopStep, ReaderStarts, ReaderTurns
<1>. QED BY <1>1, <1>2, <1>3, <1>4, <1>5 DEF Next

LEMMA Invariance == Spec => []IInv
BY InitIInv, NextStep, PTL DEF Spec

-----------------------------------------------------------------------------
(* An attempt that ends, on whichever path, resets _connecting, and no     *)
(* other step takes one away.                                              *)
LEMMA AttemptStays ==
    ASSUME ~Cancels, TypeOK, ConnectingHasAttempt, [Next]_vars
    PROVE  ConnectingHasAttempt'
<1>. USE DEF TypeOK, ConnectingHasAttempt, Attempts
<1>1. CASE UNCHANGED vars
  BY <1>1 DEF vars
<1>2. ASSUME NEW u \in Users, Connect(u) \/ Disconnect(u) \/ Left(u)
      PROVE  ConnectingHasAttempt'
  BY <1>2 DEF Connect, Disconnect, Left
<1>3. ASSUME NEW a \in Actors, AttemptStep(a) PROVE ConnectingHasAttempt'
  <2>1. CASE ProviderAnswers(a) \/ Opens(a) \/ AuthFails(a) \/ Wake(a)
    BY <2>1 DEF ProviderAnswers, Opens, AuthFails, Wake
  <2>2. CASE ProviderFails(a) \/ Publish(a)
    BY <2>2 DEF ProviderFails, Publish, ForgetConnecting
  <2>3. CASE OpenFails(a) \/ Dropped(a)
    BY <2>3 DEF OpenFails, Dropped, AttemptFailed, ForgetConnecting
  <2>. QED BY <1>3, <2>1, <2>2, <2>3 DEF AttemptStep
<1>4. CASE BeginReconnect \/ StaleClosed
  <2>1. CASE BeginReconnect
    BY <2>1 DEF BeginReconnect
  <2>2. CASE StaleClosed
    BY <2>2 DEF StaleClosed
  <2>. QED BY <1>4, <2>1, <2>2
<1>5. ASSUME NEW s \in Sockets, LoopStep(s) \/ ConnectionLost(s)
      PROVE  ConnectingHasAttempt'
  <2>1. UNCHANGED connecting
    BY <1>5 DEF LoopStep, ReaderStarts, ReaderTurns, ReceivesNext, ReaderFailed, ReaderFails,
       BadFrame, CancelledReaderEnds, PingSent, PongArrives, PingFails, ConnectionLost
  <2>2. ASSUME StartReconnect(connected)
        PROVE  pc' = pc \/ (pc' = [pc EXCEPT ![Reconnect] = "created"] /\ pc[Reconnect] = "idle")
    BY <2>2 DEF StartReconnect
  <2>3. UNCHANGED pc \/ StartReconnect(connected)
    BY <1>5 DEF LoopStep, ReaderStarts, ReaderTurns, ReceivesNext, ReaderFailed, ReaderFails,
       BadFrame, CancelledReaderEnds, PingSent, PongArrives, PingFails, ConnectionLost, HandleConnectionError
  <2>. QED BY <2>1, <2>2, <2>3
<1>. QED
  BY <1>1, <1>2, <1>3, <1>4, <1>5 DEF Next, CancelConnect, ReconnectStep

-----------------------------------------------------------------------------
(* The flags, tasks, websockets and loops keep their types.                *)
THEOREM TypeCorrect == Spec => []TypeOK
BY Invariance, PTL DEF IInv

(* Unless a connect() is cancelled, _connecting is never left behind by an *)
(* attempt, so that connect() is not refused for good.                     *)
THEOREM AttemptUnderWay == ASSUME ~Cancels PROVE Spec => []ConnectingHasAttempt
<1>1. Init => ConnectingHasAttempt
  BY DEF Init, ConnectingHasAttempt
<1>2. TypeOK /\ ConnectingHasAttempt /\ [Next]_vars => ConnectingHasAttempt'
  BY AttemptStays
<1>. QED BY <1>1, <1>2, TypeCorrect, PTL DEF Spec
================================================================================
