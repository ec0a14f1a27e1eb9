--------------------------- MODULE MercuryUsageProofs ---------------------------
(***************************************************************************)
(* MercuryClient under orderly use, for any number of users, sockets and   *)
(* retries: ConnectedIsServed, OneConnection and DisconnectedIsQuiet. That *)
(* the published websocket has its reader needs OneAtWork (a reconnect     *)
(* task that could begin, or a second attempt that could publish, while    *)
(* the client is connected would take the websocket away) and ReadersKnown *)
(* (no other loop receives from it). Quiet collects the parts; one lemma   *)
(* per action shows that it is preserved, in one step per part.            *)
(***************************************************************************)
EXTENDS MercuryUsage, MercuryClientProofs, FiniteSetTheorems

USE ActorsAssumption, RetriesAssumption, UsageAssumption
USE DEF Actors, ActorPcs, Trying, Opened, ReaderDue, PongDue, BeingRead,
        NoneLeaving, flagVars, actorVars, loopVars

ReaderAtWork ==
    connected =>
        /\ ws # None /\ latest = ws
        /\ reader[ws] = "new" \/ (reader[ws] = "recv" /\ reads[ws] = ws)
Quiet == OneAtWork /\ OpenInHand /\ ReadersKnown /\ ClosingIsQuiet /\ ReaderAtWork

(* A connect() at rest is the only one at work.                            *)
LEMMA ConnectQuiet == ASSUME IInv, Quiet, AtRest, NEW u \in Users, Connect(u) PROVE Quiet'
<1>. USE DEF IInv, Quiet, Connect, AtRest
<1>1. OneAtWork'
  BY DEF OneAtWork
<1>2. OpenInHand'
  BY DEF OpenInHand
<1>3. ReadersKnown'
  BY DEF ReadersKnown
<1>4. ClosingIsQuiet'
  BY DEF ClosingIsQuiet
<1>5. ReaderAtWork'
  BY DEF ReaderAtWork
<1>. QED BY <1>1, <1>2, <1>3, <1>4, <1>5

(* disconnect() at rest leaves its own closing, and the reader it cancels. *)
LEMMA DisconnectQuiet == ASSUME IInv, Quiet, AtRest, NEW u \in Users, Disconnect(u) PROVE Quiet'
<1>. USE DEF IInv, Quiet, Disconnect, CancelLatestLoops, AtRest
<1>1. OneAtWork'
  BY DEF OneAtWork
<1>2. OpenInHand'
  BY DEF TypeOK, OpenInHand
<1>3. ReadersKnown'
  BY DEF ReadersKnown
<1>4. ClosingIsQuiet'
  BY DEF ClosingIsQuiet
<1>5. ReaderAtWork'
  BY DEF ReaderAtWork
<1>. QED BY <1>1, <1>2, <1>3, <1>4, <1>5

LEMMA LeftQuiet == ASSUME IInv, Quiet, NEW u \in Users, Left(u) PROVE Quiet'
<1>. USE DEF IInv, Quiet, Left, Close
<1>1. OneAtWork'
  BY DEF OneAtWork
<1>2. OpenInHand'
  BY DEF TypeOK, OpenInHand
<1>3. ReadersKnown'
  BY DEF ReadersKnown
<1>4. ClosingIsQuiet'
  BY DEF ClosingIsQuiet
<1>5. ReaderAtWork'
  BY DEF ReaderAtWork
<1>. QED BY <1>1, <1>2, <1>3, <1>4, <1>5

LEMMA ProviderAnswersQuiet == ASSUME IInv, Quiet, NEW a \in Actors, ProviderAnswers(a) PROVE Quiet'
<1>. USE DEF IInv, Quiet, ProviderAnswers
<1>1. OneAtWork'
  BY DEF OneAtWork
<1>2. OpenInHand'
  BY DEF OpenInHand
<1>3. ReadersKnown'
  BY DEF ReadersKnown
<1>4. ClosingIsQuiet'
  BY DEF ClosingIsQuiet
<1>5. ReaderAtWork'
  BY DEF ReaderAtWork
<1>. QED BY <1>1, <1>2, <1>3, <1>4, <1>5

LEMMA ProviderFailsQuiet == ASSUME IInv, Quiet, NEW a \in Actors, ProviderFails(a) PROVE Quiet'
<1>. USE DEF IInv, Quiet, ProviderFails, ForgetConnecting
<1>1. OneAtWork'
  BY DEF OneAtWork
<1>2. OpenInHand'
  BY DEF OpenInHand
<1>3. ReadersKnown'
  BY DEF ReadersKnown
<1>4. ClosingIsQuiet'
  BY DEF ClosingIsQuiet
<1>5. ReaderAtWork'
  BY DEF ReaderAtWork
<1>. QED BY <1>1, <1>2, <1>3, <1>4, <1>5

(* No other websocket is open: whoever opens one is the only one at work.  *)
LEMMA OpensQuiet == ASSUME IInv, Quiet, NEW a \in Actors, Opens(a) PROVE Quiet'
<1>. USE DEF IInv, Quiet, Opens
<1>1. OneAtWork'
  BY DEF OneAtWork
<1>2. OpenInHand'
  BY DEF TypeOK, OpenInHand
<1>3. ReadersKnown'
  BY DEF TypeOK, ReadersKnown
<1>4. ClosingIsQuiet'
  BY DEF ClosingIsQuiet
<1>5. ReaderAtWork'
  BY DEF ReaderAtWork
<1>. QED BY <1>1, <1>2, <1>3, <1>4, <1>5

LEMMA OpenFailsQuiet == ASSUME IInv, Quiet, NEW a \in Actors, OpenFails(a) PROVE Quiet'
<1>. USE DEF IInv, Quiet, OpenFails, AttemptFailed, ForgetConnecting
<1>1. OneAtWork'
  BY DEF TypeOK, OneAtWork
<1>2. OpenInHand'
  BY DEF OneAtWork, OpenInHand
<1>3. ReadersKnown'
  BY DEF TypeOK, ReadersKnown
<1>4. ClosingIsQuiet'
  BY DEF ClosingIsQuiet
<1>5. ReaderAtWork'
  BY DEF ReaderAtWork
<1>. QED BY <1>1, <1>2, <1>3, <1>4, <1>5

LEMMA AuthFailsQuiet == ASSUME IInv, Quiet, NEW a \in Actors, AuthFails(a) PROVE Quiet'
<1>. USE DEF IInv, Quiet, AuthFails
<1>1. OneAtWork'
  BY DEF OneAtWork
<1>2. OpenInHand'
  BY DEF OpenInHand
<1>3. ReadersKnown'
  BY DEF ReadersKnown
<1>4. ClosingIsQuiet'
  BY DEF ClosingIsQuiet
<1>5. ReaderAtWork'
  BY DEF ReaderAtWork
<1>. QED BY <1>1, <1>2, <1>3, <1>4, <1>5

LEMMA DroppedQuiet == ASSUME IInv, Quiet, NEW a \in Actors, Dropped(a) PROVE Quiet'
<1>. USE DEF IInv, Quiet, Dropped, Close, AttemptFailed, ForgetConnecting
<1>1. OneAtWork'
  BY DEF TypeOK, OneAtWork
<1>2. OpenInHand'
  BY DEF TypeOK, OpenInHand
<1>3. ReadersKnown'
  BY DEF TypeOK, ReadersKnown
<1>4. ClosingIsQuiet'
  BY DEF ClosingIsQuiet
<1>5. ReaderAtWork'
  BY DEF ReaderAtWork
<1>. QED BY <1>1, <1>2, <1>3, <1>4, <1>5

LEMMA WakeQuiet == ASSUME IInv, Quiet, NEW a \in Actors, Wake(a) PROVE Quiet'
<1>. USE DEF IInv, Quiet, Wake
<1>1. OneAtWork'
  BY DEF OneAtWork
<1>2. OpenInHand'
  BY DEF OpenInHand
<1>3. ReadersKnown'
  BY DEF ReadersKnown
<1>4. ClosingIsQuiet'
  BY DEF ClosingIsQuiet
<1>5. ReaderAtWork'
  BY DEF ReaderAtWork
<1>. QED BY <1>1, <1>2, <1>3, <1>4, <1>5

(* The only one at work publishes and is done.                             *)
LEMMA PublishQuiet == ASSUME IInv, Quiet, NEW a \in Actors, Publish(a) PROVE Quiet'
<1>. USE DEF IInv, Quiet, Publish
<1>1. OneAtWork'
  BY DEF TypeOK, OneAtWork
<1>2. OpenInHand'
  BY DEF OneAtWork, OpenInHand
<1>3. ReadersKnown'
  BY DEF TypeOK, SocketsOwned, ReadersKnown
<1>4. ClosingIsQuiet'
  BY DEF ClosingIsQuiet
<1>5. ReaderAtWork'
  BY DEF TypeOK, SocketsOwned, ReaderAtWork
<1>. QED BY <1>1, <1>2, <1>3, <1>4, <1>5

LEMMA BeginReconnectQuiet == ASSUME IInv, Quiet, BeginReconnect PROVE Quiet'
<1>. USE DEF IInv, Quiet, BeginReconnect
<1>1. OneAtWork'
  BY DEF OneAtWork
<1>2. OpenInHand'
  BY DEF TypeOK, OpenInHand
<1>3. ReadersKnown'
  BY DEF ReadersKnown
<1>4. ClosingIsQuiet'
  BY DEF ClosingIsQuiet
<1>5. ReaderAtWork'
  BY DEF OneAtWork, ReaderAtWork
<1>. QED BY <1>1, <1>2, <1>3, <1>4, <1>5

LEMMA StaleClosedQuiet == ASSUME IInv, Quiet, StaleClosed PROVE Quiet'
<1>. USE DEF IInv, Quiet, StaleClosed, Close
<1>1. OneAtWork'
  BY DEF OneAtWork
<1>2. OpenInHand'
  BY DEF TypeOK, OpenInHand
<1>3. ReadersKnown'
  BY DEF ReadersKnown
<1>4. ClosingIsQuiet'
  BY DEF ClosingIsQuiet
<1>5. ReaderAtWork'
  BY DEF ReaderAtWork
<1>. QED BY <1>1, <1>2, <1>3, <1>4, <1>5

(* A connection that is given up is handed to the reconnect task.          *)
LEMMA ReaderFailsQuiet == ASSUME IInv, Quiet, NEW s \in Sockets, ReaderFails(s) PROVE Quiet'
<1>. USE DEF IInv, Quiet, ReaderFails, ReaderFailed, ReaderEnds, MarkDisconnected, StartReconnect
<1>1. OneAtWork'
  BY DEF OneAtWork
<1>2. OpenInHand'
  BY DEF TypeOK, OneAtWork, OpenInHand, ClosingIsQuiet
<1>3. ReadersKnown'
  BY DEF TypeOK, SocketsOwned, ReadersKnown
<1>4. ClosingIsQuiet'
  BY DEF ClosingIsQuiet
<1>5. ReaderAtWork'
  BY DEF ReaderAtWork
<1>. QED BY <1>1, <1>2, <1>3, <1>4, <1>5

LEMMA BadFrameQuiet == ASSUME IInv, Quiet, NEW s \in Sockets, BadFrame(s) PROVE Quiet'
<1>. USE DEF IInv, Quiet, BadFrame, ReaderFailed, ReaderEnds, MarkDisconnected, StartReconnect
<1>1. OneAtWork'
  BY DEF OneAtWork
<1>2. OpenInHand'
  BY DEF TypeOK, OneAtWork, OpenInHand, ClosingIsQuiet
<1>3. ReadersKnown'
  BY DEF TypeOK, OneAtWork, OpenInHand, ReadersKnown, ReaderAtWork
<1>4. ClosingIsQuiet'
  BY DEF ClosingIsQuiet
<1>5. ReaderAtWork'
  BY DEF ReaderAtWork
<1>. QED BY <1>1, <1>2, <1>3, <1>4, <1>5

(* A reader that finds no websocket ends no connection.                    *)
LEMMA ReceivesNextQuiet ==
    ASSUME IInv, Quiet, NEW s \in Sockets, ReceivesNext(s), reader[s] = "new" \/ (reader[s] = "recv" /\ reads[s] # ws)
    PROVE  Quiet'
<1>. USE DEF IInv, Quiet, ReceivesNext, ReaderFailed, ReaderEnds, MarkDisconnected, StartReconnect
<1>1. OneAtWork'
  BY DEF TypeOK, OneAtWork
<1>2. OpenInHand'
  BY DEF TypeOK, OneAtWork, OpenInHand, ClosingIsQuiet
<1>3. ReadersKnown'
  BY DEF TypeOK, SocketsOwned, ReadersKnown
<1>4. ClosingIsQuiet'
  BY DEF TypeOK, ClosingIsQuiet
<1>5. ReaderAtWork'
  <2>1. CASE ReaderFailed(s) \/ (ws = None /\ ReaderEnds(s))
    BY <2>1 DEF ReaderAtWork
  <2>2. CASE /\ ws # None /\ ~BeingRead(ws) /\ UNCHANGED connected
             /\ reader' = [reader EXCEPT ![s] = "recv"] /\ reads' = [reads EXCEPT ![s] = ws]
    BY <2>2 DEF TypeOK, ReaderAtWork
  <2>. QED BY <2>1, <2>2
<1>. QED BY <1>1, <1>2, <1>3, <1>4, <1>5

(* A reader that disconnect() has cancelled ends before the next connect().*)
LEMMA CancelledReaderEndsQuiet ==
    ASSUME IInv, Quiet, NEW s \in Sockets, CancelledReaderEnds(s)
    PROVE  Quiet'
<1>. USE DEF IInv, Quiet, CancelledReaderEnds, ReaderEnds, MarkDisconnected
<1>1. OneAtWork'
  BY DEF OneAtWork
<1>2. OpenInHand'
  BY DEF OpenInHand, ClosingIsQuiet
<1>3. ReadersKnown'
  BY DEF TypeOK, ReadersKnown, ClosingIsQuiet
<1>4. ClosingIsQuiet'
  BY DEF ClosingIsQuiet
<1>5. ReaderAtWork'
  BY DEF ReaderAtWork
<1>. QED BY <1>1, <1>2, <1>3, <1>4, <1>5

LEMMA PingSentQuiet == ASSUME IInv, Quiet, NEW s \in Sockets, PingSent(s) PROVE Quiet'
<1>. USE DEF IInv, Quiet, PingSent
<1>1. OneAtWork'
  BY DEF OneAtWork
<1>2. OpenInHand'
  BY DEF OpenInHand
<1>3. ReadersKnown'
  BY DEF ReadersKnown
<1>4. ClosingIsQuiet'
  BY DEF ClosingIsQuiet
<1>5. ReaderAtWork'
  BY DEF ReaderAtWork
<1>. QED BY <1>1, <1>2, <1>3, <1>4, <1>5

LEMMA PongArrivesQuiet == ASSUME IInv, Quiet, NEW s \in Sockets, PongArrives(s) PROVE Quiet'
<1>. USE DEF IInv, Quiet, PongArrives
<1>1. OneAtWork'
  BY DEF OneAtWork
<1>2. OpenInHand'
  BY DEF OpenInHand
<1>3. ReadersKnown'
  BY DEF ReadersKnown
<1>4. ClosingIsQuiet'
  BY DEF ClosingIsQuiet
<1>5. ReaderAtWork'
  BY DEF ReaderAtWork
<1>. QED BY <1>1, <1>2, <1>3, <1>4, <1>5

LEMMA PingFailsQuiet == ASSUME IInv, Quiet, NEW s \in Sockets, PingFails(s) PROVE Quiet'
<1>. USE DEF IInv, Quiet, PingFails, HandleConnectionError, MarkDisconnected, StartReconnect
<1>1. OneAtWork'
  BY DEF OneAtWork
<1>2. OpenInHand'
  BY DEF TypeOK, OneAtWork, OpenInHand, ClosingIsQuiet
<1>3. ReadersKnown'
  BY DEF ReadersKnown
<1>4. ClosingIsQuiet'
  BY DEF ClosingIsQuiet
<1>5. ReaderAtWork'
  BY DEF ReaderAtWork
<1>. QED BY <1>1, <1>2, <1>3, <1>4, <1>5

LEMMA ConnectionLostQuiet == ASSUME IInv, Quiet, NEW s \in Sockets, ConnectionLost(s) PROVE Quiet'
<1>. USE DEF IInv, Quiet, ConnectionLost
<1>1. OneAtWork'
  BY DEF OneAtWork
<1>2. OpenInHand'
  BY DEF OpenInHand
<1>3. ReadersKnown'
  BY DEF ReadersKnown
<1>4. ClosingIsQuiet'
  BY DEF ClosingIsQuiet
<1>5. ReaderAtWork'
  BY DEF ReaderAtWork
<1>. QED BY <1>1, <1>2, <1>3, <1>4, <1>5

-----------------------------------------------------------------------------
LEMMA ProceedQuiet == ASSUME IInv, Quiet, Proceed PROVE Quiet'
<1>1. ASSUME NEW a \in Actors, AttemptStep(a) PROVE Quiet'
  BY <1>1, ProviderAnswersQuiet, ProviderFailsQuiet, OpensQuiet, OpenFailsQuiet,
     AuthFailsQuiet, DroppedQuiet, WakeQuiet, PublishQuiet DEF AttemptStep
<1>2. CASE ReconnectStep
  BY <1>1, <1>2, BeginReconnectQuiet, StaleClosedQuiet DEF ReconnectStep
<1>3. CASE \E s \in Sockets : LoopStep(s) \/ ConnectionLost(s)
  BY <1>3, ReaderFailsQuiet, BadFrameQuiet, ReceivesNextQuiet, CancelledReaderEndsQuiet,
     PingSentQuiet, PongArrivesQuiet, PingFailsQuiet, ConnectionLostQuiet DEF LoopStep,
     ReaderStarts, ReaderTurns
<1>. QED BY <1>1, <1>2, <1>3, LeftQuiet DEF Proceed

LEMMA InitUsageIInv == UsageInit => UsageIInv
<1>1. Init => ConnectingHasAttempt /\ Quiet
  BY DEF Init, ConnectingHasAttempt, Quiet, OneAtWork, OpenInHand, ReadersKnown,
     ClosingIsQuiet, ReaderAtWork
<1>. QED
  BY <1>1, InitIInv DEF UsageInit, UsageIInv, OrderlyUse, ConnectedIsServed, Quiet,
     ReaderAtWork

LEMMA UsageNextStep == ASSUME UsageIInv, [UsageNext]_usageVars PROVE UsageIInv'
<1>. USE DEF UsageIInv
<1>1. [Next]_vars
  BY DEF UsageNext, usageVars, Proceed, Call, Next
<1>2. IInv' /\ ConnectingHasAttempt'
  BY <1>1, NextStep, AttemptStays, NoCancelsAssumption DEF IInv
<1>3. orderly' \in BOOLEAN
  BY DEF UsageNext, usageVars, Proceed, Call
<1>4. OrderlyUse' /\ ConnectedIsServed'
  <2>. SUFFICES ASSUME orderly' PROVE Quiet'
    BY DEF OrderlyUse, ConnectedIsServed, Quiet, ReaderAtWork
  <2>1. orderly
    BY DEF UsageNext, usageVars, Proceed, Call
  <2>2. Quiet
    BY <2>1 DEF OrderlyUse, ConnectedIsServed, Quiet, ReaderAtWork
  <2>3. CASE Proceed
    BY <2>2, <2>3, ProceedQuiet
  <2>4. ASSUME NEW u \in Users, Call(u) PROVE Quiet'
    <3>1. AtRest
      BY <2>4 DEF Call
    <3>. QED BY <2>2, <2>4, <3>1, ConnectQuiet, DisconnectQuiet DEF Call
  <2>5. CASE UNCHANGED usageVars
    BY <2>2, <2>5 DEF usageVars, vars, Quiet, OneAtWork, OpenInHand, ReadersKnown,
       ClosingIsQuiet, ReaderAtWork
  <2>. QED BY <2>3, <2>4, <2>5 DEF UsageNext
<1>. QED BY <1>2, <1>3, <1>4

LEMMA UsageInvariance == UsageSpec => []UsageIInv
BY InitUsageIInv, UsageNextStep, PTL DEF UsageSpec

-----------------------------------------------------------------------------
(* A set with no two different members has at most one.                    *)
LEMMA AtMostOne ==
    ASSUME NEW S, \A x, y \in S : x = y
    PROVE  Cardinality(S) <= 1
<1>1. CASE S = {}
  BY <1>1, FS_EmptySet
<1>2. CASE S # {}
  <2>1. PICK x : x \in S
    BY <1>2
  <2>2. S = {x}
    BY <2>1
  <2>. QED BY <2>2, FS_Singleton
<1>. QED BY <1>1, <1>2

(* Used in an orderly way, is_connected() says True only while the         *)
(* published websocket has its reader, over any number of losses,          *)
(* reconnects and disconnects.                                             *)
THEOREM Served == UsageSpec => []ConnectedIsServed
<1>1. UsageIInv => ConnectedIsServed
  BY DEF UsageIInv
<1>. QED BY <1>1, UsageInvariance, PTL

(* Used in an orderly way, the client has at most one attempt under way    *)
(* and one websocket open, which is published or in somebody's hands.      *)
THEOREM SingleConnection == UsageSpec => []OneConnection
<1>1. ASSUME UsageIInv PROVE OneConnection
  <2>. SUFFICES ASSUME orderly
                PROVE  /\ Cardinality(Attempts) <= 1
                       /\ Cardinality(Opened) <= 1
                       /\ Opened # {} => \/ Attempts # {} \/ ws \in Opened
                                        \/ \E u \in Users : pc[u] = "leave"
    BY DEF OneConnection
  <2>. USE <1>1 DEF UsageIInv, IInv, OrderlyUse
  <2>1. \A a, b \in Attempts : a = b
    BY DEF OneAtWork, Attempts
  <2>2. \A s, t \in Opened : s = t
    BY DEF OneAtWork, OpenInHand
  <2>3. ASSUME NEW s \in Opened, s # ws
        PROVE  Attempts # {} \/ \E u \in Users : pc[u] = "leave"
    BY <2>3 DEF SocketsOwned, OpenInHand, Attempts
  <2>. QED BY <2>1, <2>2, <2>3, AtMostOne
<1>. QED BY <1>1, UsageInvariance, PTL

(* Used in an orderly way, disconnect() leaves no connection, attempt or   *)
(* open websocket behind.                                                  *)
THEOREM QuietAfterDisconnect == UsageSpec => []DisconnectedIsQuiet
<1>1. UsageIInv => DisconnectedIsQuiet
  BY DEF UsageIInv, IInv, SocketsOwned, OrderlyUse, OpenInHand, ClosingIsQuiet,
     DisconnectedIsQuiet, Attempts
<1>. QED BY <1>1, UsageInvariance, PTL
==================================================================================
