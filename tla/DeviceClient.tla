----------------------------- MODULE DeviceClient -----------------------------
(***************************************************************************)
(* DeviceClient (device.py) on top of CoreHTTPClient: registration of the  *)
(* Webex device with WDM, its refresh and its removal, the get_* accessors *)
(* and wait_for_registration. Every operation reads the local state, makes *)
(* one HTTP request and, when that is over, writes the local state;        *)
(* nothing holds other calls off meanwhile.                                *)
(*                                                                         *)
(* A device is named after the call and the attempt whose POST created it. *)
(* _registering is left out: it is written and never read.                 *)
(***************************************************************************)
EXTENDS Naturals, Sequences

CONSTANTS
    Calls,      \* the invocations of the operations
    Ops,        \* the operations that they may be
    MaxRetries, \* config.max_retries
    None

Operations == {"register", "unregister", "refresh", "wait", "callback"}
ASSUME OpsAssumption == Ops \subseteq Operations
ASSUME MaxRetriesAssumption == MaxRetries \in Nat

VARIABLES
    device,     \* _device
    registered, \* _registered
    callbacks,  \* _callbacks, each named after the call that has added it
    op,         \* the operation of each call
    pc,         \* where it is
    snapshot,   \* the device that it has read or created
    at, attempt, carried,   \* its HTTP request
    wdm,        \* external: the devices that exist at WDM
    withdrawn,  \* external: those that WDM has dropped of its own accord
    overtaken   \* history: <<c, d>> if c has written over d, having begun with another

Http == INSTANCE CoreHTTPClient WITH Requests <- Calls

localVars == <<device, registered, overtaken>>
httpVars == <<at, attempt, carried>>
wdmVars == <<wdm, withdrawn>>
vars == <<localVars, callbacks, op, pc, snapshot, httpVars, wdmVars>>

Devices == Calls \X (0 .. MaxRetries)
ASSUME NoneAssumption == None \notin Devices \cup Operations

(* Program counters: request: awaits request_url; wait: in                 *)
(* wait_for_registration; ready: its event is set.                         *)
Pcs == {"idle", "request", "wait", "ready", "done", "failed"}

Init ==
    /\ device = None /\ registered = FALSE /\ overtaken = {}
    /\ callbacks = <<>>
    /\ op = [c \in Calls |-> None]
    /\ pc = [c \in Calls |-> "idle"]
    /\ snapshot = [c \in Calls |-> None]
    /\ Http!HttpInit
    /\ wdm = {} /\ withdrawn = {}

(* A call writes the local device that had begun when it was "before".     *)
Writes(c, before, after) ==
    /\ device' = after /\ registered' = (after # None)
    /\ overtaken' = IF device = before THEN overtaken ELSE overtaken \cup {<<c, device>>}

Goto(c, place) == pc' = [pc EXCEPT ![c] = place]
Starts(c, o) ==
    /\ pc[c] = "idle" /\ o \in Ops
    /\ op' = [op EXCEPT ![c] = o]

-----------------------------------------------------------------------------
(* register, and the get_* accessors, which register on demand and read    *)
(* the device without a suspension in between: snapshot is what they read. *)
(* A device at hand is taken for good, whether or not WDM still has it.    *)

ReuseDevice(c) ==
    /\ device # None /\ Starts(c, "register")
    /\ snapshot' = [snapshot EXCEPT ![c] = device]
    /\ Goto(c, "done")
    /\ UNCHANGED <<localVars, callbacks, httpVars, wdmVars>>

Register(c) ==
    /\ device = None /\ Starts(c, "register")
    /\ Http!Send(c)
    /\ Goto(c, "request")
    /\ UNCHANGED <<localVars, callbacks, snapshot, wdmVars>>

(* The callbacks are invoked in their order, before anyone else runs. One  *)
(* of the user's may raise: the rest is not invoked, and register() fails  *)
(* although the device is stored.                                          *)
Told(n) == {callbacks[i] : i \in 1 .. n}
Tells(c, n, place) ==
    pc' = [x \in Calls |->
             IF x = c THEN place ELSE IF x \in Told(n) /\ pc[x] = "wait" THEN "ready" ELSE pc[x]]
PublishSilently(c) == Goto(c, "done")
NotifyWaiters(c) ==
    \/ Tells(c, Len(callbacks), "done")
    \/ \E i \in 1 .. Len(callbacks) :
         op[callbacks[i]] = "callback" /\ Tells(c, i - 1, "failed")

Registered(c) ==
    /\ op[c] = "register" /\ Http!Returns(c, "success")
    /\ Writes(c, None, <<c, attempt[c]>>)
    /\ snapshot' = [snapshot EXCEPT ![c] = <<c, attempt[c]>>]
    /\ NotifyWaiters(c)
    /\ UNCHANGED <<callbacks, op, wdmVars>>

-----------------------------------------------------------------------------
(* unregister and refresh work on the device they read first.              *)

Unregister(c) ==
    /\ Starts(c, "unregister")
    /\ snapshot' = [snapshot EXCEPT ![c] = device]
    /\ IF device = None
       THEN Goto(c, "done") /\ UNCHANGED httpVars
       ELSE Goto(c, "request") /\ Http!Send(c)
    /\ UNCHANGED <<localVars, callbacks, wdmVars>>

KeepDevice(c) == UNCHANGED localVars
ForgetDevice(c) == Writes(c, snapshot[c], None)

Unregistered(c) ==
    /\ op[c] = "unregister" /\ Http!Returns(c, "success")
    /\ ForgetDevice(c)
    /\ Goto(c, "done")
    /\ UNCHANGED <<callbacks, op, snapshot, wdmVars>>

Refresh(c) ==
    /\ Starts(c, "refresh")
    /\ snapshot' = [snapshot EXCEPT ![c] = device]
    /\ IF device = None
       THEN Goto(c, "failed") /\ UNCHANGED httpVars
       ELSE Goto(c, "request") /\ Http!Send(c)
    /\ UNCHANGED <<localVars, callbacks, wdmVars>>

(* 304 leaves the local state alone, a new representation replaces it.     *)
Refreshed(c) ==
    /\ op[c] = "refresh" /\ Http!Returns(c, "success")
    /\ UNCHANGED localVars \/ Writes(c, snapshot[c], snapshot[c])
    /\ Goto(c, "done")
    /\ UNCHANGED <<callbacks, op, snapshot, wdmVars>>

(* A status that is not a success, 404 for a device that is gone included, *)
(* or an exception: the local state stays as it is.                        *)
FailsAndForgets(c) ==
    /\ Http!Raises(c) \/ \E s \in Http!Statuses \ {"success"} : Http!Returns(c, s)
    /\ Goto(c, "failed")
    /\ IF op[c] = "unregister" THEN ForgetDevice(c) ELSE UNCHANGED localVars
    /\ UNCHANGED <<callbacks, op, snapshot, wdmVars>>
Fails(c) ==
    /\ Http!Raises(c) \/ \E s \in Http!Statuses \ {"success"} : Http!Returns(c, s)
    /\ Goto(c, "failed")
    /\ UNCHANGED <<localVars, callbacks, op, snapshot, wdmVars>>

(* request_url goes on by itself.                                          *)
TriesAgain(c) ==
    /\ Http!Sleeps(c) \/ Http!Repeats(c)
    /\ UNCHANGED <<localVars, callbacks, op, pc, snapshot, wdmVars>>

-----------------------------------------------------------------------------
(* on_registered adds a callback, the user's or a waiter's, and invokes it *)
(* at once if a device is registered already: the user's may raise.        *)
OnRegistered(c) ==
    /\ Starts(c, "callback")
    /\ callbacks' = Append(callbacks, c)
    /\ Goto(c, "done") \/ (registered /\ Goto(c, "failed"))
    /\ UNCHANGED <<localVars, snapshot, httpVars, wdmVars>>

Wait(c) ==
    /\ Starts(c, "wait")
    /\ IF registered
       THEN Goto(c, "done") /\ UNCHANGED callbacks
       ELSE Goto(c, "wait") /\ callbacks' = Append(callbacks, c)
    /\ UNCHANGED <<localVars, snapshot, httpVars, wdmVars>>

(* The time may run out even after the event has been set.                 *)
WaitEnds(c) ==
    /\ pc[c] \in {"wait", "ready"}
    /\ Goto(c, "failed") \/ (pc[c] = "ready" /\ Goto(c, "done"))
    /\ UNCHANGED <<localVars, callbacks, op, snapshot, httpVars, wdmVars>>

-----------------------------------------------------------------------------
(* WDM. Every POST creates a device; a device that does not exist can      *)
(* neither be deleted nor be refreshed.                                    *)
Creates(c) ==
    /\ op[c] = "register" /\ Http!CarryOut(c)
    /\ wdm' = wdm \cup {<<c, attempt[c]>>}
    /\ UNCHANGED <<localVars, callbacks, op, pc, snapshot, withdrawn>>

Deletes(c) ==
    /\ op[c] = "unregister" /\ snapshot[c] \in wdm /\ Http!CarryOut(c)
    /\ wdm' = wdm \ {snapshot[c]}
    /\ UNCHANGED <<localVars, callbacks, op, pc, snapshot, withdrawn>>

Confirms(c) ==
    /\ op[c] = "refresh" /\ snapshot[c] \in wdm /\ Http!CarryOut(c)
    /\ UNCHANGED <<localVars, callbacks, op, pc, snapshot, wdmVars>>

Withdraws(d) ==
    /\ d \in wdm
    /\ wdm' = wdm \ {d}
    /\ withdrawn' = withdrawn \cup {d}
    /\ UNCHANGED <<localVars, callbacks, op, pc, snapshot, httpVars>>

-----------------------------------------------------------------------------
CallStep(c) ==
    \/ ReuseDevice(c) \/ Register(c) \/ Registered(c)
    \/ Unregister(c) \/ Unregistered(c)
    \/ Refresh(c) \/ Refreshed(c) \/ Fails(c) \/ TriesAgain(c)
    \/ OnRegistered(c) \/ Wait(c) \/ WaitEnds(c)

WdmStep(c) == Creates(c) \/ Deletes(c) \/ Confirms(c)

Next ==
    \/ \E c \in Calls : CallStep(c) \/ WdmStep(c)
    \/ \E d \in Devices : Withdraws(d)

Spec == Init /\ [][Next]_vars

-----------------------------------------------------------------------------
(* Properties.                                                             *)

(* The types of the state.                                                 *)
TypeOK ==
    /\ device \in Devices \cup {None}
    /\ registered = (device # None)
    /\ overtaken \subseteq Calls \X (Devices \cup {None})
    /\ callbacks \in Seq(Calls)
    /\ op \in [Calls -> Ops \cup {None}]
    /\ pc \in [Calls -> Pcs]
    /\ snapshot \in [Calls -> Devices \cup {None}]
    /\ Http!HttpTypeOK
    /\ wdm \subseteq Devices /\ withdrawn \subseteq Devices

(* The local device is the one that c, a refresh(), began with, although   *)
(* another call had written it meanwhile.                                  *)
BroughtBack(c) ==
    /\ op[c] = "refresh" /\ pc[c] = "done" /\ snapshot[c] = device
    /\ \E d \in Devices \cup {None} : <<c, d>> \in overtaken

(* The register() r that published the local device never came to the      *)
(* callback of w, since one of the user's before it has raised.            *)
CutOff(r, w) ==
    /\ op[r] = "register" /\ pc[r] = "failed" /\ snapshot[r] = device
    /\ \E i, j \in 1 .. Len(callbacks) :
         i < j /\ op[callbacks[i]] = "callback" /\ callbacks[j] = w

(* wait_for_registration never waits for a registration that has happened, *)
(* whatever falls between its test of the flag and its event, and whatever *)
(* follows: but a refresh() that was overtaken registers without telling   *)
(* anybody, and a callback of the user's that raises keeps a register()    *)
(* from telling the waiters after it.                                      *)
NoMissedRegistration ==
    \A w \in Calls :
        pc[w] = "wait" /\ registered => \E c \in Calls : BroughtBack(c) \/ CutOff(c, w)

(* connect() is given the websocket URL of a device that WDM knows, over   *)
(* any interleaving of the operations and any repetition of their          *)
(* requests. The local device outlives the one at WDM only if WDM has      *)
(* withdrawn it, until unregister() sees the answer to its DELETE, for     *)
(* good if that is lost or the DELETE is repeated and answered 404, or if  *)
(* a refresh() that another call has overtaken brings it back.             *)
DeviceAlive ==
    \/ device \in wdm \cup withdrawn \cup {None}
    \/ \E c \in Calls :
         \/ op[c] = "unregister" /\ pc[c] \in {"request", "failed"} /\ snapshot[c] = device
         \/ BroughtBack(c)

(* A device is left behind at WDM without the client's knowledge only if   *)
(* request_url has repeated its POST, if its POST is under way or seemed   *)
(* to fail, or if a call has written over it that had not begun with it: a *)
(* register() that another one has overtaken, or a refresh() or an         *)
(* unregister() of an earlier device. An unregister() of the device itself *)
(* leaves nothing behind.                                                  *)
NoStrayDevice ==
    \A d \in wdm \ {device} :
        \/ d[2] < attempt[d[1]]
        \/ pc[d[1]] = "request"
        \/ pc[d[1]] = "failed" /\ snapshot[d[1]] = None
        \/ \E c \in Calls : <<c, d>> \in overtaken

(* What these rest on. A call awaits its request as long as that is under  *)
(* way; unless it registers, it has the device in hand that the request is *)
(* about. A request that sleeps has an attempt left.                       *)
RequestsAwaited ==
    \A c \in Calls :
        /\ pc[c] = "request" <=> at[c] \in {"wire", "sleep"}
        /\ pc[c] = "idle" => snapshot[c] = None
        /\ pc[c] = "request" => (op[c] = "register" <=> snapshot[c] = None)
        /\ at[c] = "sleep" => attempt[c] < MaxRetries
        /\ carried[c] => at[c] = "wire"

(* Every device that the client holds or a call has read is the one that   *)
(* the register() it is named after has published; what WDM has was made   *)
(* by an attempt of a register().                                          *)
PublishedBy(d, c) == op[c] = "register" /\ pc[c] \in {"done", "failed"} /\ snapshot[c] = d
DevicesKnown ==
    /\ device # None => PublishedBy(device, device[1])
    /\ \A c \in Calls : snapshot[c] # None => PublishedBy(snapshot[c], snapshot[c][1])
    /\ \A d \in wdm : op[d[1]] = "register" /\ pc[d[1]] # "idle" /\ d[2] <= attempt[d[1]]

(* A POST that WDM has carried out has left its device there, unless WDM   *)
(* has withdrawn it; a DELETE has removed it.                              *)
CarriedOut ==
    \A c \in Calls : carried[c] =>
        /\ op[c] = "register" => <<c, attempt[c]>> \in wdm \cup withdrawn
        /\ op[c] = "unregister" => snapshot[c] \notin wdm

(* A waiter is among the callbacks; on_registered() returns at once.       *)
CallbacksKnown ==
    \A c \in Calls :
        /\ pc[c] = "wait" => \E i \in 1 .. Len(callbacks) : callbacks[i] = c
        /\ op[c] = "callback" => pc[c] \in {"done", "failed"}

(* The inductive invariant.                                                *)
IInv ==
    /\ TypeOK /\ RequestsAwaited /\ DevicesKnown /\ CarriedOut /\ CallbacksKnown
    /\ NoMissedRegistration /\ DeviceAlive /\ NoStrayDevice

-----------------------------------------------------------------------------
(* What comments and docstrings say, and the code does not do.             *)

(* register: "Register a Webex device if one is not already available",    *)
(* "Mark registration in progress under lock so concurrent callers share   *)
(* state safely". The mark is never looked at: two callers both register,  *)
(* and one device stays at WDM that the client does not know.              *)
OneRegistration ==
    \A c, d \in Calls :
        op[c] = "register" /\ op[d] = "register" /\ pc[c] = "request" /\ pc[d] = "request" => c = d
==============================================================================
