---------------------------- MODULE ThreadedClient ----------------------------
(***************************************************************************)
(* ThreadedWebexClient (threaded.py): set_custom_websocket_url, connect,   *)
(* get_key (decrypt_text is the same) and close, called by several         *)
(* threads, and the background thread with its event loop. Here the        *)
(* interleavings are those of real threads: an action is what a thread     *)
(* does under self._lock, between two blocking calls, or what the loop     *)
(* does in one callback.                                                   *)
(*                                                                         *)
(* The start of the loop happens while connect holds the lock, and is part *)
(* of its action, in the four ways in which it may end.                    *)
(***************************************************************************)
EXTENDS Sequences

CONSTANTS
    Calls,      \* the invocations, each from a thread of its own
    Ops,        \* the operations that they may be
    None

ASSUME OpsAssumption == Ops \subseteq {"set_url", "connect", "get_key", "close"}
ASSUME NoneAssumption == None \notin Calls

VARIABLES
    closed,     \* _closed
    connected,  \* _connected
    thread,     \* _thread is set
    attached,   \* _loop and _client are set
    customUrl,  \* _custom_websocket_url: the call that has set it
    clientUrl,  \* the custom URL that the Mercury client has been given
    loop,       \* the loop of the background thread, which ends with it
    queue,      \* what call_soon_threadsafe has handed to the loop
    mercury,    \* the state of the Mercury client, as connect() sees it
    op,         \* the operation of each call
    pc,         \* where it is
    task        \* the coroutine that it has submitted last

loopVars == <<loop, queue, mercury, task>>
urlVars == <<customUrl, clientUrl>>
vars == <<closed, connected, thread, attached, urlVars, loopVars, op, pc>>

(* Program counters of a call:                                             *)
(*   stuck     connect waits for ever for _ready, and holds the lock       *)
(*   check     connect is about to enter _run                              *)
(*   submit    _run has found the thread alive                             *)
(*   wait      blocked in future.result()                                  *)
(*   publish   connect is about to set _connected                          *)
(*   recover   connect failed and is about to call close()                 *)
(*   shutdown  close is about to submit _shutdown_async                    *)
(*   closing   blocked in the result of that                               *)
(*   stop      about to stop the loop;  join: blocked in thread.join()     *)
(*   broken    the same, and will raise the error of the shutdown          *)
(*   clear     about to clear the fields                                   *)
ClosePcs == {"shutdown", "closing", "stop", "broken", "join", "brokenJoin", "clear"}
Pcs == {"idle", "stuck", "check", "submit", "wait", "publish", "recover", "ended"} \cup ClosePcs

(* queued: handed to the loop, no task yet; running: a task that awaits    *)
(* something; joining: it awaits Mercury's connection attempt.             *)
Tasks == {"none", "queued", "running", "joining", "ok", "failed"}
Unfinished == {"queued", "running", "joining"}
Stop == "stop"
ASSUME StopAssumption == Stop \notin Calls

Runs == loop \in {"running", "stopping", "draining"}
Alive == Runs \/ loop = "drained"

Init ==
    /\ closed = FALSE /\ connected = FALSE /\ thread = FALSE /\ attached = FALSE
    /\ customUrl = None /\ clientUrl = None
    /\ loop = "none" /\ queue = <<>> /\ mercury = "off"
    /\ op \in [Calls -> Ops]
    /\ pc = [c \in Calls |-> "idle"]
    /\ task = [c \in Calls |-> "none"]

Goto(c, place) == pc' = [pc EXCEPT ![c] = place]
LockFree == \A c \in Calls : pc[c] # "stuck"

-----------------------------------------------------------------------------
(* set_custom_websocket_url is refused once there is a thread.             *)
LateOnceConnected == connected \/ closed
UrlIsLate == thread \/ connected \/ closed

SetCustomUrl(c) ==
    /\ LockFree /\ op[c] = "set_url" /\ pc[c] = "idle"
    /\ IF UrlIsLate THEN UNCHANGED customUrl ELSE customUrl' = c
    /\ Goto(c, "ended")
    /\ UNCHANGED <<clientUrl, closed, connected, thread, attached, loopVars, op>>

(* connect starts the thread. WebexClient() may fail there: connect raises,*)
(* and the next one starts anew. If thread.start() raises, the thread that *)
(* never ran stays set. If new_event_loop() raises, outside of the try,    *)
(* the thread ends and never sets _ready.                                  *)
StartHalfFailed(c) == Goto(c, "ended") /\ attached' = TRUE /\ UNCHANGED <<thread, loop, clientUrl>>
StartFailed(c) == Goto(c, "ended") /\ UNCHANGED <<thread, attached, loop, clientUrl>>
ThreadRefused(c) == Goto(c, "ended") /\ thread' = TRUE /\ UNCHANGED <<attached, loop, clientUrl>>
LoopRefused(c) == Goto(c, "stuck") /\ thread' = TRUE /\ UNCHANGED <<attached, loop, clientUrl>>
StartSucceeds(c) ==
    /\ Goto(c, "check")
    /\ thread' = TRUE /\ attached' = TRUE /\ loop' = "running" /\ clientUrl' = customUrl
Start(c) == StartSucceeds(c) \/ StartFailed(c) \/ ThreadRefused(c) \/ LoopRefused(c)

ConnectThoughClosed(c) ==
    /\ LockFree /\ op[c] = "connect" /\ pc[c] = "idle"
    /\ \/ connected /\ Goto(c, "ended") /\ UNCHANGED <<thread, attached, loop, clientUrl>>
       \/ ~connected /\ thread /\ Goto(c, "check") /\ UNCHANGED <<thread, attached, loop, clientUrl>>
       \/ ~connected /\ ~thread /\ Start(c)
    /\ UNCHANGED <<customUrl, closed, connected, queue, mercury, task, op>>
Connect(c) ==
    /\ LockFree /\ op[c] = "connect" /\ pc[c] = "idle"
    /\ \/ /\ closed \/ connected
          /\ Goto(c, "ended") /\ UNCHANGED <<thread, attached, loop, clientUrl>>
       \/ /\ ~closed /\ ~connected /\ thread
          /\ Goto(c, "check") /\ UNCHANGED <<thread, attached, loop, clientUrl>>
       \/ ~closed /\ ~connected /\ ~thread /\ Start(c)
    /\ UNCHANGED <<customUrl, closed, connected, queue, mercury, task, op>>

(* What an exception in _run does to a call.                               *)
Raise(c) == Goto(c, IF op[c] = "connect" THEN "recover" ELSE "ended")

(* _run: first a look under the lock, then the submission without it.      *)
Check(c) ==
    /\ LockFree
    /\ pc[c] = "check" \/ (pc[c] = "idle" /\ op[c] = "get_key")
    /\ IF attached /\ Alive THEN Goto(c, "submit") ELSE Raise(c)
    /\ UNCHANGED <<urlVars, closed, connected, thread, attached, loopVars, op>>

Submit(c) ==
    /\ pc[c] = "submit"
    /\ IF loop = "closed"
       THEN Raise(c) /\ UNCHANGED <<queue, task>>
       ELSE /\ queue' = Append(queue, c)
            /\ task' = [task EXCEPT ![c] = "queued"]
            /\ Goto(c, "wait")
    /\ UNCHANGED <<urlVars, closed, connected, thread, attached, loop, mercury, op>>

Result(c) ==
    /\ pc[c] = "wait"
    /\ \/ task[c] = "ok" /\ Goto(c, IF op[c] = "connect" THEN "publish" ELSE "ended")
       \/ task[c] = "failed" /\ Raise(c)
    /\ UNCHANGED <<urlVars, closed, connected, thread, attached, loopVars, op>>

Publish(c) ==
    /\ LockFree
    /\ pc[c] = "publish"
    /\ connected' = TRUE
    /\ Goto(c, "ended")
    /\ UNCHANGED <<urlVars, closed, thread, attached, loopVars, op>>

-----------------------------------------------------------------------------
(* close, by a caller or by a connect that has failed.                     *)
CloseUnmarked(c) ==
    IF closed THEN Goto(c, "ended") /\ UNCHANGED closed
    ELSE UNCHANGED closed /\ Goto(c, IF attached /\ Alive THEN "shutdown" ELSE "clear")
EnterClose(c) ==
    IF closed THEN Goto(c, "ended") /\ UNCHANGED closed
    ELSE closed' = TRUE /\ Goto(c, IF attached /\ Alive THEN "shutdown" ELSE "clear")

Close(c) ==
    /\ LockFree
    /\ pc[c] = "recover" \/ (pc[c] = "idle" /\ op[c] = "close")
    /\ EnterClose(c)
    /\ UNCHANGED <<urlVars, connected, thread, attached, loopVars, op>>

SubmitShutdown(c) ==
    /\ pc[c] = "shutdown"
    /\ IF loop = "closed"
       THEN Goto(c, "broken") /\ UNCHANGED <<queue, task>>
       ELSE /\ queue' = Append(queue, c)
            /\ task' = [task EXCEPT ![c] = "queued"]
            /\ Goto(c, "closing")
    /\ UNCHANGED <<urlVars, closed, connected, thread, attached, loop, mercury, op>>

ShutdownResult(c) ==
    /\ pc[c] = "closing" /\ task[c] \in {"ok", "failed"}
    /\ Goto(c, IF task[c] = "ok" THEN "stop" ELSE "broken")
    /\ UNCHANGED <<urlVars, closed, connected, thread, attached, loopVars, op>>

StopLoop(c) ==
    /\ pc[c] \in {"stop", "broken"}
    /\ queue' = Append(queue, Stop)
    /\ Goto(c, IF pc[c] = "stop" THEN "join" ELSE "brokenJoin")
    /\ UNCHANGED <<urlVars, closed, connected, thread, attached, loop, mercury, task, op>>

Joined(c) ==
    /\ pc[c] \in {"join", "brokenJoin"} /\ loop = "closed"
    /\ Goto(c, IF pc[c] = "join" THEN "clear" ELSE "ended")
    /\ UNCHANGED <<urlVars, closed, connected, thread, attached, loopVars, op>>

Clear(c) ==
    /\ LockFree
    /\ pc[c] = "clear"
    /\ connected' = FALSE /\ thread' = FALSE /\ attached' = FALSE
    /\ Goto(c, "ended")
    /\ UNCHANGED <<urlVars, closed, loopVars, op>>

-----------------------------------------------------------------------------
(* The background thread.                                                  *)

(* A callback that was handed over creates the task of its coroutine, or   *)
(* is loop.stop. Callbacks still run while the loop drains.                *)
RunCallback ==
    /\ Runs /\ queue # <<>>
    /\ queue' = Tail(queue)
    /\ IF Head(queue) = Stop
       THEN /\ loop' = IF loop = "running" THEN "stopping" ELSE loop
            /\ UNCHANGED task
       ELSE task' = [task EXCEPT ![Head(queue)] = "running"] /\ UNCHANGED loop
    /\ UNCHANGED <<urlVars, closed, connected, thread, attached, mercury, op, pc>>

(* _connect_async: the device has been looked for, with or without success;*)
(* now Mercury's connect.                                                  *)
JoinMercury(c) ==
    /\ Runs /\ task[c] = "running" /\ pc[c] = "wait" /\ op[c] = "connect"
    /\ task' = [task EXCEPT ![c] = CASE mercury = "on" -> "ok"
                                     [] mercury = "connecting" -> "failed"
                                     [] mercury = "off" -> "joining"]
    /\ mercury' = IF mercury = "off" THEN "connecting" ELSE mercury
    /\ UNCHANGED <<urlVars, closed, connected, thread, attached, loop, queue, op, pc>>

(* The attempt ends. After a disconnect it connects nevertheless.          *)
MercuryAnswers(c) ==
    /\ Runs /\ task[c] = "joining"
    /\ \/ mercury' = "on" /\ task' = [task EXCEPT ![c] = "ok"]
       \/ mercury' = "off" /\ task' = [task EXCEPT ![c] = "failed"]
    /\ UNCHANGED <<urlVars, closed, connected, thread, attached, loop, queue, op, pc>>

(* A key is there or is not, or aclose is through (it disconnects Mercury  *)
(* first) or raises.                                                       *)
TaskEnds(c) ==
    /\ Runs /\ task[c] = "running"
    /\ pc[c] = "closing" \/ op[c] = "get_key"
    /\ \E result \in {"ok", "failed"} : task' = [task EXCEPT ![c] = result]
    /\ mercury' = IF pc[c] = "closing" THEN "off" ELSE mercury
    /\ UNCHANGED <<urlVars, closed, connected, thread, attached, loop, queue, op, pc>>

(* run_forever returns: the tasks there are get cancelled and awaited.     *)
CancelNothing == UNCHANGED task
CancelTasks ==
    task' = [c \in Calls |-> IF task[c] \in {"running", "joining"} THEN "failed" ELSE task[c]]

Drain ==
    /\ loop = "stopping"
    /\ loop' = "draining"
    /\ CancelTasks
    /\ UNCHANGED <<urlVars, closed, connected, thread, attached, queue, mercury, op, pc>>

(* The last run_until_complete has run the callbacks there were, ...       *)
Drained ==
    /\ loop = "draining" /\ queue = <<>>
    /\ loop' = "drained"
    /\ UNCHANGED <<urlVars, closed, connected, thread, attached, queue, mercury, task, op, pc>>

(* ... and loop.close() forgets their tasks and whatever came later.       *)
CloseLoop ==
    /\ loop = "drained"
    /\ loop' = "closed"
    /\ queue' = <<>>
    /\ UNCHANGED <<urlVars, closed, connected, thread, attached, mercury, task, op, pc>>

-----------------------------------------------------------------------------
CallStep(c) ==
    \/ Check(c) \/ Submit(c) \/ Result(c) \/ Publish(c)
    \/ SubmitShutdown(c) \/ ShutdownResult(c) \/ StopLoop(c) \/ Joined(c) \/ Clear(c)
    \/ pc[c] = "recover" /\ Close(c)

TaskStep(c) == JoinMercury(c) \/ MercuryAnswers(c) \/ TaskEnds(c)

Next ==
    \/ \E c \in Calls : SetCustomUrl(c) \/ Connect(c) \/ Close(c) \/ CallStep(c) \/ TaskStep(c)
    \/ RunCallback \/ Drain \/ Drained \/ CloseLoop

Spec == Init /\ [][Next]_vars

(* Threads and the loop run; the coroutines end (EncryptionClient:         *)
(* EveryCallEnds; the attempts of MercuryClient are limited; aclose has    *)
(* timeouts). Nobody has to call anything.                                 *)
Fairness ==
    /\ \A c \in Calls : WF_vars(pc[c] # "idle" /\ CallStep(c)) /\ WF_vars(TaskStep(c))
    /\ WF_vars(RunCallback) /\ WF_vars(Drain) /\ WF_vars(Drained) /\ WF_vars(CloseLoop)

FairSpec == Spec /\ Fairness

-----------------------------------------------------------------------------
(* Properties.                                                             *)

(* The types of the state; _loop is set only with _thread, and once that   *)
(* has run.                                                                *)
TypeOK ==
    /\ closed \in BOOLEAN /\ connected \in BOOLEAN /\ thread \in BOOLEAN /\ attached \in BOOLEAN
    /\ attached => thread /\ loop # "none"
    /\ customUrl \in Calls \cup {None} /\ clientUrl \in Calls \cup {None}
    /\ loop \in {"none", "running", "stopping", "draining", "drained", "closed"}
    /\ queue \in Seq(Calls \cup {Stop})
    /\ mercury \in {"off", "connecting", "on"}
    /\ op \in [Calls -> Ops]
    /\ pc \in [Calls -> Pcs]
    /\ task \in [Calls -> Tasks]

(* However connects, failed connects and closes race, the background       *)
(* thread is gone once a closed client has no call in progress.            *)
NoLoopLeft ==
    closed /\ (\A c \in Calls : pc[c] \in {"idle", "ended"}) => loop \in {"none", "closed"}

(* The loop is stopped by one close() only, after its shutdown is through: *)
(* a second one would wait for a loop that no longer runs.                 *)
OneCloser ==
    /\ \A c, d \in Calls : pc[c] \in ClosePcs /\ pc[d] \in ClosePcs => c = d
    /\ \A c \in Calls : pc[c] \in {"shutdown", "closing", "stop"} => loop = "running"

(* A URL that set_custom_websocket_url has accepted is the one that the    *)
(* client connects to, however it races with failed starts and connects:   *)
(* none is accepted that the client no longer looks at.                    *)
UrlInForce == loop # "none" => clientUrl = customUrl

(* What the three rest on. A close() in progress has marked the client;    *)
(* until then nobody stops the loop, which runs if _loop is set; only the  *)
(* closer hands loop.stop over, and its last step leaves a loop that has   *)
(* ended.                                                                  *)
BeforeStop == {"shutdown", "closing", "stop", "broken"}
CloserOwnsLoop ==
    /\ \A c \in Calls : pc[c] \in ClosePcs => closed
    /\ ~closed => /\ loop = IF attached THEN "running" ELSE "none"
                 /\ queue \in Seq(Calls)
    /\ \A c \in Calls : pc[c] \in BeforeStop => loop = "running" /\ queue \in Seq(Calls)
    /\ closed => \/ loop \in {"none", "closed"}
                \/ \E c \in Calls : pc[c] \in BeforeStop \cup {"join", "brokenJoin"}

(* The inductive invariant.                                                *)
IInv == TypeOK /\ OneCloser /\ UrlInForce /\ CloserOwnsLoop

(* close() comes to an end, also when connect calls it or others call it   *)
(* at the same time: there is no deadlock of lock, future and join.        *)
CloseEnds == \A c \in Calls : pc[c] \in ClosePcs \cup {"recover"} ~> pc[c] = "ended"

(* Whoever was blocked on the loop when close() began is released, with a  *)
(* result or with the cancellation.                                        *)
WaitersReleased == \A c \in Calls : pc[c] = "wait" /\ ~closed ~> pc[c] # "wait"

-----------------------------------------------------------------------------
(* What the README says, and the code does not do.                         *)

(* README: "blocking methods such as `get_key()` wait for completion". A   *)
(* call that passes the test in _run and submits while the loop drains is  *)
(* forgotten by it, and its thread waits for ever.                         *)
NobodyStranded ==
    \A c \in Calls : ~(pc[c] = "wait" /\ loop = "closed" /\ task[c] \in Unfinished)
==============================================================================
