---------------------------- MODULE MercuryClient ----------------------------
(***************************************************************************)
(* The connection of MercuryClient (mercury.py): connect and disconnect,   *)
(* _connect_with_backoff, the reader and ping loops of every connection    *)
(* that was ever published, _handle_connection_error and the reconnect     *)
(* task. Handlers and the content of frames are left out.                  *)
(*                                                                         *)
(* An action is what one task does from where it resumes to where it next  *)
(* suspends; self._lock is never held across a suspension and never makes  *)
(* a task wait. Tasks that are ready run in any order: the event loop runs *)
(* them first in first out, which is one of these orders, but an await may *)
(* also return at once, or take several turns of the loop, depending on    *)
(* the versions of Python and websockets. The loops started for a socket   *)
(* are named after it.                                                     *)
(***************************************************************************)
EXTENDS Integers

(* As in EncryptionClient, an operator followed at once by one with the    *)
(* same parameters is a plausible bug in the second.                       *)

CONSTANTS
    Users,              \* tasks that call connect and disconnect
    Reconnect,          \* _reconnect_task: there is at most one at a time
    Sockets,            \* bound: the websockets that can be opened
    MaxRetries,         \* config.mercury_max_retries
    InitialMaxRetries,  \* config.mercury_initial_connection_max_retries
    Cancels,            \* users may cancel a connect() that is under way
    None

Actors == Users \cup {Reconnect}

ASSUME ActorsAssumption == Reconnect \notin Users /\ None \notin Actors \cup Sockets
ASSUME RetriesAssumption == MaxRetries \in Nat /\ InitialMaxRetries \in Nat
ASSUME UsageAssumption == Cancels \in BOOLEAN

VARIABLES
    ws,             \* _ws
    connected,      \* _connected
    connecting,     \* _connecting
    closing,        \* _closing
    hasConnected,   \* _has_connected
    latest,         \* the socket whose loops _reader_task and _ping_task are
    pc,             \* where each actor is
    left,           \* max_retries - retry_count of its _connect_with_backoff
    sock,           \* the socket that it opens, authorizes or closes
    socket,         \* state of each websocket; "lost": ended by the other side
    reader,         \* where each reader loop is
    reads,          \* the socket whose frames it awaits
    pinger,         \* where each ping loop is
    pings           \* the socket whose pong it awaits

flagVars == <<ws, connected, connecting, closing, hasConnected, latest>>
actorVars == <<pc, left, sock>>
loopVars == <<reader, reads, pinger, pings>>
vars == <<flagVars, actorVars, socket, loopVars>>

(* Program counters of an actor:                                           *)
(*   created   the reconnect task exists and has not run                   *)
(*   stale     it awaits the close of the old websocket                    *)
(*   url       awaits the device provider                                  *)
(*   opening   awaits websockets.connect                                   *)
(*   auth      awaits the confirmation of its authorization                *)
(*   drop      awaits the close of a websocket that was not authorized     *)
(*   backoff   sleeps before the next attempt                              *)
(*   leave     disconnect awaits the close of the websocket                *)
Trying == {"url", "opening", "auth", "drop", "backoff"}
ActorPcs == Trying \cup {"idle", "created", "stale", "leave"}

Attempts == {a \in Actors : pc[a] \in Trying \cup {"stale"}}
Opened == {s \in Sockets : socket[s] = "open"}

Init ==
    /\ ws = None /\ latest = None
    /\ connected = FALSE /\ connecting = FALSE /\ closing = FALSE /\ hasConnected = FALSE
    /\ pc = [a \in Actors |-> "idle"]
    /\ left = [a \in Actors |-> 0]
    /\ sock = [a \in Actors |-> None]
    /\ socket = [s \in Sockets |-> "unused"]
    /\ reader = [s \in Sockets |-> "none"]
    /\ reads = [s \in Sockets |-> None]
    /\ pinger = [s \in Sockets |-> "none"]
    /\ pings = [s \in Sockets |-> None]

-----------------------------------------------------------------------------
(* The end of a websocket wakes everyone who awaits something of it.       *)
ReaderDue(s) == reader[s] = "recv" /\ socket[reads[s]] # "open"
PongDue(s) == pinger[s] = "pong" /\ socket[pings[s]] # "open"

-----------------------------------------------------------------------------
(* connect and disconnect. A connect() that returns or raises at once      *)
(* changes nothing.                                                        *)

Connect(u) ==
    /\ pc[u] = "idle" /\ ~connected /\ ~connecting
    /\ connecting' = TRUE
    /\ closing' = FALSE
    /\ pc' = [pc EXCEPT ![u] = "url"]
    /\ UNCHANGED <<ws, connected, hasConnected, latest, left, sock, socket, loopVars>>

(* The loops that the two task fields refer to are cancelled. A reader     *)
(* that has not run yet never does; one that awaits a frame still has its  *)
(* finally block before it. A ping loop just ends, except that the wait    *)
(* for a pong that has arrived may swallow the cancellation (asyncio's     *)
(* wait_for before Python 3.12).                                           *)
CancelLatestLoops ==
    /\ reader' = [s \in Sockets |-> IF s # latest THEN reader[s]
                                   ELSE IF reader[s] = "recv" THEN "cancelled" ELSE "none"]
    /\ \E swallowed \in BOOLEAN :
         LET ends(s) == s = latest /\ ~(swallowed /\ pinger[s] = "pong")
         IN  /\ pinger' = [s \in Sockets |-> IF ends(s) THEN "none" ELSE pinger[s]]
             /\ pings' = [s \in Sockets |-> IF ends(s) THEN None ELSE pings[s]]
    /\ UNCHANGED reads

Disconnect(u) ==
    /\ pc[u] = "idle"
    /\ connected \/ connecting
    /\ closing' = TRUE
    /\ ws' = None /\ latest' = None
    /\ connected' = FALSE /\ connecting' = FALSE
    /\ CancelLatestLoops
    /\ sock' = [sock EXCEPT ![u] = ws]
    /\ pc' = [pc EXCEPT ![u] = IF ws = None THEN "idle" ELSE "leave"]
    /\ UNCHANGED <<hasConnected, left, socket>>

KeepOpen(s) == UNCHANGED socket
Close(s) == socket' = [socket EXCEPT ![s] = "closed"]

Left(u) ==
    /\ pc[u] = "leave"
    /\ Close(sock[u])
    /\ sock' = [sock EXCEPT ![u] = None]
    /\ pc' = [pc EXCEPT ![u] = "idle"]
    /\ UNCHANGED <<flagVars, left, loopVars>>

(* A CancelledError passes `except Exception`, in connect as well as in    *)
(* _attempt_connection.                                                    *)
CancelConnect(u) ==
    /\ Cancels
    /\ pc[u] \in Trying
    /\ left' = [left EXCEPT ![u] = 0]
    /\ sock' = [sock EXCEPT ![u] = None]
    /\ pc' = [pc EXCEPT ![u] = "idle"]
    /\ UNCHANGED <<flagVars, socket, loopVars>>

-----------------------------------------------------------------------------
(* _connect_with_backoff and _attempt_connection, for connect and for      *)
(* _reconnect. A custom URL is a provider that answers at once.            *)

ProviderAnswers(a) ==
    /\ pc[a] = "url"
    /\ left' = [left EXCEPT ![a] = IF hasConnected THEN MaxRetries ELSE InitialMaxRetries]
    /\ pc' = [pc EXCEPT ![a] = "opening"]
    /\ UNCHANGED <<flagVars, sock, socket, loopVars>>

(* connect raises; _reconnect ends without a further attempt.              *)
KeepConnecting == UNCHANGED connecting
ForgetConnecting == connecting' = FALSE
ProviderFails(a) ==
    /\ pc[a] = "url"
    /\ ForgetConnecting
    /\ pc' = [pc EXCEPT ![a] = "idle"]
    /\ UNCHANGED <<ws, connected, closing, hasConnected, latest, left, sock, socket, loopVars>>

Opens(a) ==
    /\ pc[a] = "opening"
    /\ \E s \in Sockets :
         /\ socket[s] = "unused"
         /\ socket' = [socket EXCEPT ![s] = "open"]
         /\ sock' = [sock EXCEPT ![a] = s]
    /\ pc' = [pc EXCEPT ![a] = "auth"]
    /\ UNCHANGED <<flagVars, left, loopVars>>

(* Another attempt after a sleep, or the end: connect raises, the          *)
(* exception of the reconnect task is never retrieved.                     *)
RetryOnceMore(a) ==
    IF left[a] >= 0
    THEN /\ left' = [left EXCEPT ![a] = @ - 1]
         /\ pc' = [pc EXCEPT ![a] = "backoff"]
         /\ UNCHANGED connecting
    ELSE /\ pc' = [pc EXCEPT ![a] = "idle"]
         /\ ForgetConnecting
         /\ UNCHANGED left
RetryWithoutEnd(a) ==
    /\ pc' = [pc EXCEPT ![a] = "backoff"]
    /\ UNCHANGED <<connecting, left>>
AttemptFailed(a) ==
    IF left[a] > 0
    THEN /\ left' = [left EXCEPT ![a] = @ - 1]
         /\ pc' = [pc EXCEPT ![a] = "backoff"]
         /\ UNCHANGED connecting
    ELSE /\ pc' = [pc EXCEPT ![a] = "idle"]
         /\ ForgetConnecting
         /\ UNCHANGED left

OpenFails(a) ==
    /\ pc[a] = "opening"
    /\ AttemptFailed(a)
    /\ UNCHANGED <<ws, connected, closing, hasConnected, latest, sock, socket, loopVars>>

(* An error frame, 30 seconds without confirmation, or a lost connection.  *)
AuthFails(a) ==
    /\ pc[a] = "auth"
    /\ pc' = [pc EXCEPT ![a] = "drop"]
    /\ UNCHANGED <<flagVars, left, sock, socket, loopVars>>

Dropped(a) ==
    /\ pc[a] = "drop"
    /\ Close(sock[a])
    /\ sock' = [sock EXCEPT ![a] = None]
    /\ AttemptFailed(a)
    /\ UNCHANGED <<ws, connected, closing, hasConnected, latest, loopVars>>

Wake(a) ==
    /\ pc[a] = "backoff"
    /\ pc' = [pc EXCEPT ![a] = "opening"]
    /\ UNCHANGED <<flagVars, left, sock, socket, loopVars>>

(* Once it is confirmed the connection is published and its loops are      *)
(* started, whatever has happened to the flags since the attempt began,    *)
(* and to the websocket since the confirmation was received.               *)
Publish(a) ==
    /\ pc[a] = "auth"
    /\ ws' = sock[a] /\ latest' = sock[a]
    /\ connected' = TRUE /\ connecting' = FALSE /\ hasConnected' = TRUE
    /\ reader' = [reader EXCEPT ![sock[a]] = "new"]
    /\ pinger' = [pinger EXCEPT ![sock[a]] = "sleep"]
    /\ sock' = [sock EXCEPT ![a] = None]
    /\ pc' = [pc EXCEPT ![a] = "idle"]
    /\ left' = [left EXCEPT ![a] = 0]
    /\ UNCHANGED <<closing, socket, reads, pings>>

-----------------------------------------------------------------------------
(* _handle_connection_error and _reconnect.                                *)

StartIfStillConnected(was) ==
    pc' = IF connected' /\ ~closing /\ pc[Reconnect] = "idle" THEN [pc EXCEPT ![Reconnect] = "created"] ELSE pc
StartDespiteClosing(was) ==
    pc' = IF was /\ pc[Reconnect] = "idle" THEN [pc EXCEPT ![Reconnect] = "created"] ELSE pc
StartAtAnyError(was) ==
    pc' = IF pc[Reconnect] = "idle" THEN [pc EXCEPT ![Reconnect] = "created"] ELSE pc
StartReconnect(was) ==
    pc' = IF was /\ ~closing /\ pc[Reconnect] = "idle" THEN [pc EXCEPT ![Reconnect] = "created"] ELSE pc

StayConnected == UNCHANGED connected
MarkDisconnected == connected' = FALSE

HandleConnectionError ==
    /\ MarkDisconnected
    /\ StartReconnect(connected)

BeginReconnect ==
    /\ pc[Reconnect] = "created"
    /\ ws' = None
    /\ connecting' = TRUE
    /\ sock' = [sock EXCEPT ![Reconnect] = ws]
    /\ pc' = [pc EXCEPT ![Reconnect] = IF ws = None THEN "url" ELSE "stale"]
    /\ UNCHANGED <<connected, closing, hasConnected, latest, left, socket, loopVars>>

StaleClosed ==
    /\ pc[Reconnect] = "stale"
    /\ Close(sock[Reconnect])
    /\ sock' = [sock EXCEPT ![Reconnect] = None]
    /\ pc' = [pc EXCEPT ![Reconnect] = "url"]
    /\ UNCHANGED <<flagVars, left, loopVars>>

-----------------------------------------------------------------------------
(* _reader_loop.                                                           *)

ReaderEnds(s) ==
    /\ reader' = [reader EXCEPT ![s] = "none"]
    /\ reads' = [reads EXCEPT ![s] = None]
    /\ MarkDisconnected

ReaderFailed(s) == ReaderEnds(s) /\ StartReconnect(connected)

(* recv raises: the websocket has ended.                                   *)
ReaderFails(s) ==
    /\ ReaderDue(s)
    /\ ReaderFailed(s)
    /\ UNCHANGED <<ws, connecting, closing, hasConnected, latest, left, sock, socket, pinger, pings>>

(* A frame that cannot be decoded is taken for a connection error, too.    *)
BadFrame(s) ==
    /\ reader[s] = "recv" /\ ~ReaderDue(s)
    /\ ReaderFailed(s)
    /\ UNCHANGED <<ws, connecting, closing, hasConnected, latest, left, sock, socket, pinger, pings>>

(* The loop looks at _ws. It receives from the websocket it finds, ends    *)
(* because there is none, or fails because another loop is already         *)
(* receiving from it.                                                      *)
BeingRead(s) == \E r \in Sockets : reads[r] = s
ReceivesNext(s) ==
    /\ \/ ws = None /\ ReaderEnds(s) /\ UNCHANGED pc
       \/ ws # None /\ BeingRead(ws) /\ ReaderFailed(s)
       \/ /\ ws # None /\ ~BeingRead(ws)
          /\ reader' = [reader EXCEPT ![s] = "recv"]
          /\ reads' = [reads EXCEPT ![s] = ws]
          /\ UNCHANGED <<connected, pc>>
    /\ UNCHANGED <<ws, connecting, closing, hasConnected, latest, left, sock, socket, pinger, pings>>

ReaderStarts(s) == reader[s] = "new" /\ ReceivesNext(s)

(* A frame was handled. It goes on with its websocket if that is still the *)
(* published one.                                                          *)
ReaderTurns(s) == reader[s] = "recv" /\ ~ReaderDue(s) /\ reads[s] # ws /\ ReceivesNext(s)

(* The finally block after a cancellation, whatever has been published     *)
(* meanwhile.                                                              *)
CancelledReaderEnds(s) ==
    /\ reader[s] = "cancelled"
    /\ ReaderEnds(s)
    /\ UNCHANGED <<ws, connecting, closing, hasConnected, latest, actorVars, socket, pinger, pings>>

(* _ping_loop and ping.                                                    *)

PingSent(s) ==
    /\ pinger[s] = "sleep" /\ ws \in Opened
    /\ pinger' = [pinger EXCEPT ![s] = "pong"]
    /\ pings' = [pings EXCEPT ![s] = ws]
    /\ UNCHANGED <<flagVars, actorVars, socket, reader, reads>>

PongArrives(s) ==
    /\ pinger[s] = "pong" /\ ~PongDue(s)
    /\ pinger' = [pinger EXCEPT ![s] = "sleep"]
    /\ pings' = [pings EXCEPT ![s] = None]
    /\ UNCHANGED <<flagVars, actorVars, socket, reader, reads>>

(* No websocket, one that has ended, or no pong in time.                   *)
PingFails(s) ==
    /\ \/ pinger[s] = "sleep" /\ ws \notin Opened
       \/ pinger[s] = "pong"
    /\ pinger' = [pinger EXCEPT ![s] = "none"]
    /\ pings' = [pings EXCEPT ![s] = None]
    /\ HandleConnectionError
    /\ UNCHANGED <<ws, connecting, closing, hasConnected, latest, left, sock, socket, reader, reads>>

(* The network or Mercury ends a websocket.                                *)
ConnectionLost(s) ==
    /\ socket[s] = "open"
    /\ socket' = [socket EXCEPT ![s] = "lost"]
    /\ UNCHANGED <<flagVars, actorVars, loopVars>>

-----------------------------------------------------------------------------
AttemptStep(a) ==
    \/ ProviderAnswers(a) \/ ProviderFails(a)
    \/ Opens(a) \/ OpenFails(a) \/ Publish(a) \/ AuthFails(a) \/ Dropped(a) \/ Wake(a)

ReconnectStep == BeginReconnect \/ StaleClosed \/ AttemptStep(Reconnect)

LoopStep(s) ==
    \/ ReaderStarts(s) \/ ReaderTurns(s)
    \/ ReaderFails(s) \/ BadFrame(s) \/ CancelledReaderEnds(s)
    \/ PingSent(s) \/ PongArrives(s) \/ PingFails(s)

Next ==
    \/ \E u \in Users : Connect(u) \/ Disconnect(u) \/ Left(u) \/ CancelConnect(u)
    \/ \E u \in Users : AttemptStep(u)
    \/ ReconnectStep
    \/ \E s \in Sockets : LoopStep(s) \/ ConnectionLost(s)

Spec == Init /\ [][Next]_vars

(* Ready tasks run; websockets.connect, the authorization, a close and the *)
(* provider's HTTP requests have timeouts. Nothing makes a network answer  *)
(* or a frame arrive.                                                      *)
Fairness ==
    /\ WF_vars(ReconnectStep)
    /\ \A u \in Users : WF_vars(AttemptStep(u) \/ Left(u))
    /\ \A s \in Sockets :
         /\ WF_vars(ReaderStarts(s) \/ ReaderFails(s) \/ CancelledReaderEnds(s))
         /\ WF_vars(PingFails(s))

FairSpec == Spec /\ Fairness

-----------------------------------------------------------------------------
(* Properties, for calls at any moment.                                    *)

(* The types of the state.                                                 *)
TypeOK ==
    /\ ws \in Sockets \cup {None} /\ latest \in Sockets \cup {None}
    /\ connected \in BOOLEAN /\ connecting \in BOOLEAN
    /\ closing \in BOOLEAN /\ hasConnected \in BOOLEAN
    /\ pc \in [Actors -> ActorPcs]
    /\ left \in [Actors -> 0 .. MaxRetries \cup 0 .. InitialMaxRetries]
    /\ sock \in [Actors -> Sockets \cup {None}]
    /\ socket \in [Sockets -> {"unused", "open", "lost", "closed"}]
    /\ reader \in [Sockets -> {"none", "new", "recv", "cancelled"}]
    /\ reads \in [Sockets -> Sockets \cup {None}]
    /\ pinger \in [Sockets -> {"none", "sleep", "pong"}]
    /\ pings \in [Sockets -> Sockets \cup {None}]

(* connect() refuses a call only while an attempt really is under way, on  *)
(* whichever path earlier attempts ended, unless one was cancelled.        *)
ConnectingHasAttempt == connecting => Attempts # {}

(* What these and the refinement rest on: which websocket an actor has in  *)
(* hand. One that is being authorized has been opened by that actor, for   *)
(* nobody else, is not published and has no loops yet; only users          *)
(* disconnect.                                                             *)
SocketsOwned ==
    /\ ws # None => socket[ws] # "unused"
    /\ \A s \in Sockets : socket[s] = "unused" => reader[s] = "none"
    /\ \A a \in Actors :
         /\ pc[a] \in {"auth", "drop", "stale", "leave"} => sock[a] # None
         /\ pc[a] \in {"auth", "drop"} =>
              sock[a] # ws /\ socket[sock[a]] # "unused" /\ reader[sock[a]] = "none"
    /\ \A a, b \in Actors :
         {pc[a], pc[b]} \subseteq {"auth", "drop"} /\ sock[a] = sock[b] => a = b
    /\ pc[Reconnect] # "leave"

(* The inductive invariant.                                                *)
IInv == TypeOK /\ SocketsOwned

(* A published connection that breaks is noticed: the reader or a ping     *)
(* loop starts the reconnect task, unless disconnect() was called, or a    *)
(* reader that an earlier disconnect() has cancelled is still to end: it   *)
(* may yet reset _connected, and then nobody reconnects.                   *)
NoneLeaving == \A s \in Sockets : reader[s] # "cancelled"
LossNoticed ==
    \A s \in Sockets :
        connected /\ ws = s /\ socket[s] = "lost" /\ NoneLeaving ~> closing \/ pc[Reconnect] # "idle"

(* The reconnect task ends, by a connection or by giving up: its retries   *)
(* are limited. Until then connect() is refused.                           *)
ReconnectEnds == pc[Reconnect] # "idle" ~> pc[Reconnect] = "idle"

-----------------------------------------------------------------------------
(* What a docstring says, and the code does not do.                        *)

(* disconnect: "Disconnect Mercury". An attempt that is under way, or a    *)
(* reconnect task that has not run yet, goes on and connects.              *)
StaysDisconnected == closing /\ (\A u \in Users : pc[u] = "idle") => ~connected
=============================================================================
