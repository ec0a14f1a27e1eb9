-------------------------- MODULE DeviceClientProofs --------------------------
(***************************************************************************)
(* The safety properties of DeviceClient for any number of calls and of    *)
(* repetitions of their requests. NoMissedRegistration, DeviceAlive and    *)
(* NoStrayDevice are not inductive by themselves; IInv adds what ties a    *)
(* call to its request (RequestsAwaited), a device to the register() that  *)
(* has made it (DevicesKnown), both to what WDM has carried out            *)
(* (CarriedOut), and a waiter to its callback (CallbacksKnown). One lemma    *)
(* per action, one step per conjunct.                                      *)
(***************************************************************************)
EXTENDS DeviceClient, TLAPS

USE OpsAssumption, MaxRetriesAssumption, NoneAssumption
USE DEF Operations, Devices, Pcs, Goto, localVars, httpVars, wdmVars
USE DEF Http!httpVars, Http!HttpTypeOK, Http!Retryable, Http!Statuses, Http!Send,
        Http!CarryOut, Http!Answers, Http!Leaves, Http!Final, Http!Returns, Http!Raises,
        Http!Sleeps, Http!Repeats

(* What becomes of a call in a step that does not write the local device.  *)
CallsProceed ==
    /\ \A x \in Calls : pc[x] # "idle" =>
         /\ pc'[x] # "idle" /\ op'[x] = op[x] /\ snapshot'[x] = snapshot[x]
         /\ pc[x] \in {"done", "failed"} => pc'[x] = pc[x]
         /\ pc[x] = "request" /\ op[x] # "refresh" => pc'[x] \in {"request", "failed"}
         /\ attempt[x] <= attempt'[x]
    /\ \A x \in Calls : snapshot'[x] \in {snapshot[x], device}
    /\ \A x \in Calls : pc'[x] = "wait" => pc[x] = "wait" \/ ~registered
    /\ Len(callbacks) <= Len(callbacks')
    /\ \A i \in 1 .. Len(callbacks) : callbacks'[i] = callbacks[i]

(* A callback of the user's stays before the waiter that it cut off.       *)
LEMMA StillCutOff ==
    ASSUME TypeOK, CallbacksKnown, CallsProceed, UNCHANGED device, callbacks' \in Seq(Calls),
           NEW r \in Calls, NEW w \in Calls, CutOff(r, w)
    PROVE  CutOff(r, w)'
<1>1. PICK i, j \in 1 .. Len(callbacks) :
        i < j /\ op[callbacks[i]] = "callback" /\ callbacks[j] = w
  BY DEF CutOff
<1>2. callbacks[i] \in Calls /\ i \in 1 .. Len(callbacks') /\ j \in 1 .. Len(callbacks')
  BY DEF TypeOK, CallsProceed
<1>3. callbacks'[i] = callbacks[i] /\ callbacks'[j] = w
  BY <1>1 DEF CallsProceed
<1>4. op'[callbacks[i]] = "callback"
  BY <1>1, <1>2 DEF CallbacksKnown, CallsProceed
<1>5. op'[r] = "register" /\ pc'[r] = "failed" /\ snapshot'[r] = device
  BY DEF CutOff, CallsProceed
<1>. QED BY <1>1, <1>2, <1>3, <1>4, <1>5 DEF CutOff

LEMMA StillTold ==
    ASSUME TypeOK, CallbacksKnown, NoMissedRegistration, CallsProceed, UNCHANGED localVars,
           callbacks' \in Seq(Calls)
    PROVE  NoMissedRegistration'
<1>1. SUFFICES ASSUME NEW w \in Calls, pc'[w] = "wait", registered
               PROVE  \E c \in Calls : BroughtBack(c)' \/ CutOff(c, w)'
  BY DEF NoMissedRegistration
<1>2. PICK c \in Calls : BroughtBack(c) \/ CutOff(c, w)
  BY <1>1 DEF NoMissedRegistration, CallsProceed
<1>3. BroughtBack(c) => BroughtBack(c)'
  BY DEF BroughtBack, CallsProceed
<1>. QED BY <1>2, <1>3, StillCutOff

LEMMA StillKnown ==
    ASSUME TypeOK, DevicesKnown, CallsProceed, UNCHANGED device, wdm' \subseteq wdm,
           attempt \in [Calls -> 0 .. MaxRetries], attempt' \in [Calls -> 0 .. MaxRetries]
    PROVE  DevicesKnown'
<1>1. \A x \in Calls, d \in Devices : PublishedBy(d, x)
        => op'[x] = "register" /\ pc'[x] \in {"done", "failed"} /\ snapshot'[x] = d
  BY DEF CallsProceed, PublishedBy
<1>2. \A d \in Devices : d[1] \in Calls /\ d[2] \in Nat
  OBVIOUS
<1>3. device # None => PublishedBy(device, device[1])'
  BY <1>1, <1>2 DEF TypeOK, DevicesKnown, PublishedBy
<1>4. ASSUME NEW x \in Calls, snapshot'[x] # None
      PROVE  PublishedBy(snapshot[x], snapshot[x][1])'
  <2>1. snapshot'[x] \in Devices /\ PublishedBy(snapshot'[x], snapshot'[x][1])
    BY <1>4 DEF TypeOK, DevicesKnown, CallsProceed
  <2>. QED BY <1>1, <1>2, <2>1 DEF PublishedBy
<1>5. ASSUME NEW d \in wdm'
      PROVE  op'[d[1]] = "register" /\ pc'[d[1]] # "idle" /\ d[2] <= attempt'[d[1]]
  <2>1. d \in Devices /\ d[1] \in Calls
    BY <1>2 DEF TypeOK
  <2>2. op[d[1]] = "register" /\ pc[d[1]] # "idle" /\ d[2] <= attempt[d[1]]
    BY DEF DevicesKnown
  <2>3. d[2] \in Nat /\ attempt[d[1]] \in Nat /\ attempt'[d[1]] \in Nat
    BY <1>2, <2>1
  <2>4. /\ op'[d[1]] = "register" /\ pc'[d[1]] # "idle"
        /\ attempt[d[1]] <= attempt'[d[1]]
    BY <2>1, <2>2 DEF CallsProceed
  <2>. QED BY <2>2, <2>3, <2>4
<1>. QED BY <1>3, <1>4, <1>5 DEF DevicesKnown

LEMMA StillAlive ==
    ASSUME DeviceAlive, CallsProceed, UNCHANGED <<localVars, wdmVars>>
    PROVE  DeviceAlive'
<1>1. \A c \in Calls : BroughtBack(c) => BroughtBack(c)'
  BY DEF CallsProceed, BroughtBack
<1>2. \A c \in Calls :
        op[c] = "unregister" /\ pc[c] \in {"request", "failed"} /\ snapshot[c] = device
          => op'[c] = "unregister" /\ pc'[c] \in {"request", "failed"} /\ snapshot'[c] = device
  BY DEF CallsProceed
<1>. QED BY <1>1, <1>2 DEF DeviceAlive

LEMMA StillExplained ==
    ASSUME TypeOK, RequestsAwaited, DevicesKnown, NoStrayDevice, CallsProceed,
           UNCHANGED localVars, wdm' \subseteq wdm,
           attempt \in [Calls -> 0 .. MaxRetries], attempt' \in [Calls -> 0 .. MaxRetries]
    PROVE  NoStrayDevice'
<1>1. SUFFICES ASSUME NEW d \in wdm, d # device,
                      ~ \E c \in Calls : <<c, d>> \in overtaken
               PROVE  \/ d[2] < attempt'[d[1]]
                      \/ pc'[d[1]] = "request"
                      \/ pc'[d[1]] = "failed" /\ snapshot'[d[1]] = None
  BY DEF NoStrayDevice
<1>2. d \in Devices /\ d[1] \in Calls /\ d[2] \in Nat
  BY DEF TypeOK
<1>3. op[d[1]] = "register" /\ pc[d[1]] # "idle"
  BY DEF DevicesKnown
<1>4. CASE d[2] < attempt[d[1]]
  BY <1>2, <1>3, <1>4 DEF CallsProceed
<1>5. CASE pc[d[1]] = "request"
  BY <1>2, <1>3, <1>5 DEF CallsProceed, RequestsAwaited
<1>6. CASE pc[d[1]] = "failed" /\ snapshot[d[1]] = None
  BY <1>2, <1>3, <1>6 DEF CallsProceed
<1>. QED BY <1>1, <1>4, <1>5, <1>6 DEF NoStrayDevice

(* Such a step, if it leaves WDM alone too, keeps the invariant as far as  *)
(* that speaks of devices.                                                 *)
LEMMA LeavesDevicesAlone ==
    ASSUME IInv, TypeOK', CallsProceed, UNCHANGED <<localVars, wdmVars>>
    PROVE  DevicesKnown' /\ NoMissedRegistration' /\ DeviceAlive' /\ NoStrayDevice'
<1>1. /\ attempt \in [Calls -> 0 .. MaxRetries] /\ attempt' \in [Calls -> 0 .. MaxRetries]
      /\ callbacks' \in Seq(Calls)
  BY DEF IInv, TypeOK
<1>. QED BY <1>1, StillTold, StillKnown, StillAlive, StillExplained DEF IInv

(* The device at hand, which a register() has published, is taken over.    *)
LEMMA ReuseDeviceStep == ASSUME IInv, NEW c \in Calls, ReuseDevice(c) PROVE IInv'
<1>. USE DEF IInv, ReuseDevice, Starts
<1>1. TypeOK'
  BY DEF TypeOK
<1>2. CallsProceed
  BY DEF TypeOK, CallsProceed
<1>3. RequestsAwaited'
  BY DEF TypeOK, RequestsAwaited
<1>4. CarriedOut'
  BY DEF TypeOK, RequestsAwaited, CarriedOut
<1>5. CallbacksKnown'
  <2>1. op \in [Calls -> Ops \cup {None}] /\ pc \in [Calls -> Pcs]
    BY DEF TypeOK
  <2>. QED BY <2>1 DEF CallbacksKnown
<1>. QED BY <1>1, <1>2, <1>3, <1>4, <1>5, LeavesDevicesAlone

(* A registration starts with a POST.                                      *)
LEMMA RegisterStep == ASSUME IInv, NEW c \in Calls, Register(c) PROVE IInv'
<1>. USE DEF IInv, Register, Starts
<1>1. TypeOK'
  BY DEF TypeOK
<1>2. CallsProceed
  BY DEF TypeOK, CallsProceed
<1>3. RequestsAwaited'
  BY DEF TypeOK, RequestsAwaited
<1>4. CarriedOut'
  BY DEF TypeOK, RequestsAwaited, CarriedOut
<1>5. CallbacksKnown'
  <2>1. op \in [Calls -> Ops \cup {None}] /\ pc \in [Calls -> Pcs]
    BY DEF TypeOK
  <2>. QED BY <2>1 DEF CallbacksKnown
<1>. QED BY <1>1, <1>2, <1>3, <1>4, <1>5, LeavesDevicesAlone

(* The callbacks of register(): a waiter is told or stays as it is.        *)
LEMMA NotifyWaitersLemma ==
    ASSUME TypeOK, CallbacksKnown, NEW c \in Calls, NotifyWaiters(c), pc[c] = "request"
    PROVE  /\ pc' \in [Calls -> Pcs]
           /\ pc'[c] \in {"done", "failed"}
           /\ \A x \in Calls \ {c} : pc'[x] = pc[x] \/ (pc[x] = "wait" /\ pc'[x] = "ready")
           /\ \A x \in Calls \ {c} : \A i \in 1 .. Len(callbacks) :
                callbacks[i] = x /\ pc'[x] = "wait"
                  => pc'[c] = "failed"
                     /\ \E j \in 1 .. Len(callbacks) : j < i /\ op[callbacks[j]] = "callback"
<1>1. pc \in [Calls -> Pcs] /\ callbacks \in Seq(Calls)
  BY DEF TypeOK
<1>2. CASE Tells(c, Len(callbacks), "done")
  BY <1>1, <1>2 DEF Tells, Told
<1>3. ASSUME NEW j \in 1 .. Len(callbacks), op[callbacks[j]] = "callback",
             Tells(c, j - 1, "failed")
      PROVE  /\ pc' \in [Calls -> Pcs]
             /\ pc'[c] = "failed"
             /\ \A x \in Calls \ {c} : pc'[x] = pc[x] \/ (pc[x] = "wait" /\ pc'[x] = "ready")
             /\ \A x \in Calls \ {c} : \A i \in 1 .. Len(callbacks) :
                  callbacks[i] = x /\ pc'[x] = "wait" => j <= i
  <2>1. \A x \in Calls \ {c} : \A i \in 1 .. Len(callbacks) :
           callbacks[i] = x /\ i <= j - 1 => x \in Told(j - 1)
    BY DEF Told
  <2>2. \A i \in 1 .. Len(callbacks) : j <= i \/ i <= j - 1
    BY <1>1
  <2>. QED BY <1>1, <1>3, <2>1, <2>2 DEF Tells
<1>4. ASSUME NEW j \in 1 .. Len(callbacks), op[callbacks[j]] = "callback",
             Tells(c, j - 1, "failed"),
             NEW x \in Calls \ {c}, NEW i \in 1 .. Len(callbacks),
             callbacks[i] = x, pc'[x] = "wait"
      PROVE  j < i
  <2>1. j <= i
    BY <1>3, <1>4
  <2>2. pc[x] = "wait"
    BY <1>3, <1>4
  <2>3. j # i
    BY <1>4, <2>2 DEF CallbacksKnown
  <2>. QED BY <1>1, <2>1, <2>3
<1>. QED BY <1>2, <1>3, <1>4 DEF NotifyWaiters

(* The answer to the POST: the client has the device that WDM has made.    *)
LEMMA RegisteredStep == ASSUME IInv, NEW c \in Calls, Registered(c) PROVE IInv'
<1>. USE DEF IInv, Registered, Writes
<1>n. /\ pc' \in [Calls -> Pcs]
      /\ pc'[c] \in {"done", "failed"}
      /\ \A x \in Calls \ {c} : pc'[x] = pc[x] \/ (pc[x] = "wait" /\ pc'[x] = "ready")
      /\ \A x \in Calls \ {c} : \A i \in 1 .. Len(callbacks) :
           callbacks[i] = x /\ pc'[x] = "wait"
             => pc'[c] = "failed"
                /\ \E j \in 1 .. Len(callbacks) : j < i /\ op[callbacks[j]] = "callback"
  BY NotifyWaitersLemma DEF RequestsAwaited
<1>d. device' = <<c, attempt[c]>> /\ device' \in Devices /\ device' # None
  BY DEF TypeOK
<1>1. TypeOK'
  <2>1. overtaken' \subseteq Calls \X (Devices \cup {None})
    BY DEF TypeOK
  <2>2. snapshot' \in [Calls -> Devices \cup {None}]
    BY <1>d DEF TypeOK
  <2>3. Http!HttpTypeOK'
    BY DEF TypeOK
  <2>. QED BY <1>n, <1>d, <2>1, <2>2, <2>3 DEF TypeOK
<1>2. RequestsAwaited'
  BY <1>n DEF TypeOK, RequestsAwaited
<1>3. DevicesKnown'
  <2>1. /\ op \in [Calls -> Ops \cup {None}] /\ snapshot \in [Calls -> Devices \cup {None}]
        /\ device \in Devices \cup {None} /\ wdm \subseteq Devices
    BY DEF TypeOK
  <2>2. op[c] = "register" /\ pc[c] = "request" /\ snapshot[c] = None
    BY DEF RequestsAwaited
  <2>3. PublishedBy(device, c)'
    BY <1>n, <1>d, <2>1, <2>2 DEF PublishedBy
  <2>4. \A x \in Calls \ {c} : pc[x] \in {"done", "failed"} => pc'[x] = pc[x]
    BY <1>n
  <2>5. ASSUME NEW x \in Calls, snapshot'[x] # None, x # c
        PROVE  PublishedBy(snapshot[x], snapshot[x][1])'
    <3>1. snapshot'[x] = snapshot[x] /\ PublishedBy(snapshot[x], snapshot[x][1])
      BY <2>1, <2>5 DEF DevicesKnown
    <3>2. snapshot[x][1] \in Calls \ {c}
      BY <2>1, <2>2, <2>5, <3>1 DEF PublishedBy
    <3>. QED BY <2>1, <2>4, <3>1, <3>2 DEF PublishedBy
  <2>6. ASSUME NEW d \in wdm
        PROVE  op[d[1]] = "register" /\ pc'[d[1]] # "idle" /\ d[2] <= attempt[d[1]]
    <3>1. d[1] \in Calls
      BY <2>1
    <3>. QED BY <1>n, <3>1 DEF DevicesKnown
  <2>. QED BY <1>d, <2>1, <2>3, <2>5, <2>6 DEF DevicesKnown
<1>4. CarriedOut'
  BY DEF TypeOK, CarriedOut
<1>5. CallbacksKnown'
  BY <1>n DEF CallbacksKnown
<1>6. NoMissedRegistration'
  <2>1. SUFFICES ASSUME NEW w \in Calls, pc'[w] = "wait" PROVE CutOff(c, w)'
    BY DEF NoMissedRegistration
  <2>2. w # c /\ pc[w] = "wait"
    BY <1>n, <2>1
  <2>3. PICK i \in 1 .. Len(callbacks) : callbacks[i] = w
    BY <2>2 DEF CallbacksKnown
  <2>4. pc'[c] = "failed" /\ \E j \in 1 .. Len(callbacks) : j < i /\ op[callbacks[j]] = "callback"
    BY <1>n, <2>1, <2>2, <2>3
  <2>5. snapshot'[c] = device'
    BY <1>d DEF TypeOK
  <2>. QED BY <2>3, <2>4, <2>5 DEF CutOff
<1>7. DeviceAlive'
  BY <1>d DEF CarriedOut, DeviceAlive
<1>8. NoStrayDevice'
  <2>1. ASSUME NEW d \in wdm, d # device', d[1] = c
        PROVE  d[2] < attempt'[d[1]]
    <3>1. d = <<d[1], d[2]>> /\ d[2] \in 0 .. MaxRetries
      BY DEF TypeOK
    <3>2. d[2] <= attempt[c] /\ d[2] # attempt[c]
      BY <1>d, <2>1, <3>1 DEF DevicesKnown
    <3>3. attempt' = attempt /\ attempt[c] \in 0 .. MaxRetries
      BY DEF TypeOK
    <3>. QED BY <2>1, <3>1, <3>2, <3>3
  <2>2. ASSUME device \in wdm PROVE <<c, device>> \in overtaken'
    BY <2>2 DEF TypeOK
  <2>3. ASSUME NEW d \in wdm, d[1] # c, d # device
        PROVE  \/ d[2] < attempt'[d[1]]
               \/ pc'[d[1]] = "request"
               \/ pc'[d[1]] = "failed" /\ snapshot'[d[1]] = None
               \/ \E x \in Calls : <<x, d>> \in overtaken'
    BY <1>n, <2>3 DEF TypeOK, NoStrayDevice
  <2>. QED BY <2>1, <2>2, <2>3 DEF NoStrayDevice
<1>. QED BY <1>1, <1>2, <1>3, <1>4, <1>5, <1>6, <1>7, <1>8

(* The removal of the device at hand starts with a DELETE.                 *)
LEMMA UnregisterStep == ASSUME IInv, NEW c \in Calls, Unregister(c) PROVE IInv'
<1>. USE DEF IInv, Unregister, Starts
<1>1. TypeOK'
  BY DEF TypeOK
<1>2. CallsProceed
  BY DEF TypeOK, CallsProceed
<1>3. RequestsAwaited'
  BY DEF TypeOK, RequestsAwaited
<1>4. CarriedOut'
  BY DEF TypeOK, RequestsAwaited, CarriedOut
<1>5. CallbacksKnown'
  <2>1. op \in [Calls -> Ops \cup {None}] /\ pc \in [Calls -> Pcs]
    BY DEF TypeOK
  <2>. QED BY <2>1 DEF CallbacksKnown
<1>. QED BY <1>1, <1>2, <1>3, <1>4, <1>5, LeavesDevicesAlone

(* The answer to the DELETE, upon which the client forgets what it holds.  *)
LEMMA UnregisteredStep == ASSUME IInv, NEW c \in Calls, Unregistered(c) PROVE IInv'
<1>. USE DEF IInv, Unregistered, ForgetDevice, Writes
<1>1. TypeOK'
  BY DEF TypeOK
<1>2. RequestsAwaited'
  BY DEF TypeOK, RequestsAwaited
<1>3. DevicesKnown'
  BY DEF DevicesKnown, PublishedBy
<1>4. CarriedOut'
  BY DEF CarriedOut
<1>5. CallbacksKnown'
  <2>1. op \in [Calls -> Ops \cup {None}] /\ pc \in [Calls -> Pcs]
    BY DEF TypeOK
  <2>. QED BY <2>1 DEF CallbacksKnown
<1>6. NoMissedRegistration'
  BY DEF NoMissedRegistration
<1>7. DeviceAlive'
  BY DEF DeviceAlive
<1>8. NoStrayDevice'
  <2>1. snapshot[c] # None /\ snapshot[c] \notin wdm
    BY DEF RequestsAwaited, CarriedOut
  <2>2. device \in wdm => <<c, device>> \in overtaken'
    BY <2>1 DEF TypeOK
  <2>3. ASSUME NEW d \in wdm, d # device
        PROVE  \/ d[2] < attempt[d[1]]
               \/ pc'[d[1]] = "request"
               \/ pc'[d[1]] = "failed" /\ snapshot[d[1]] = None
               \/ \E x \in Calls : <<x, d>> \in overtaken'
    BY <2>3 DEF TypeOK, DevicesKnown, NoStrayDevice
  <2>. QED BY <2>2, <2>3 DEF NoStrayDevice
<1>. QED BY <1>1, <1>2, <1>3, <1>4, <1>5, <1>6, <1>7, <1>8

(* The refresh of the device at hand starts with a PUT.                    *)
LEMMA RefreshStep == ASSUME IInv, NEW c \in Calls, Refresh(c) PROVE IInv'
<1>. USE DEF IInv, Refresh, Starts
<1>1. TypeOK'
  BY DEF TypeOK
<1>2. CallsProceed
  BY DEF TypeOK, CallsProceed
<1>3. RequestsAwaited'
  BY DEF TypeOK, RequestsAwaited
<1>4. CarriedOut'
  BY DEF TypeOK, RequestsAwaited, CarriedOut
<1>5. CallbacksKnown'
  <2>1. op \in [Calls -> Ops \cup {None}] /\ pc \in [Calls -> Pcs]
    BY DEF TypeOK
  <2>. QED BY <2>1 DEF CallbacksKnown
<1>. QED BY <1>1, <1>2, <1>3, <1>4, <1>5, LeavesDevicesAlone

(* The answer to the PUT may bring back a device that was overtaken.       *)
LEMMA RefreshedStep == ASSUME IInv, NEW c \in Calls, Refreshed(c) PROVE IInv'
<1>. USE DEF IInv, Refreshed, Writes
<1>d. snapshot[c] # None /\ pc[c] = "request" /\ snapshot[c] \in Devices
  BY DEF TypeOK, RequestsAwaited
<1>1. TypeOK'
  BY <1>d DEF TypeOK
<1>2. RequestsAwaited'
  BY DEF TypeOK, RequestsAwaited
<1>3. DevicesKnown'
  BY <1>d DEF DevicesKnown, PublishedBy
<1>4. CarriedOut'
  BY DEF CarriedOut
<1>5. CallbacksKnown'
  <2>1. op \in [Calls -> Ops \cup {None}] /\ pc \in [Calls -> Pcs]
    BY DEF TypeOK
  <2>. QED BY <2>1 DEF CallbacksKnown
<1>6. CASE UNCHANGED localVars
  <2>1. CallsProceed
    BY <1>6, <1>d DEF TypeOK, CallsProceed
  <2>. QED BY <1>1, <1>2, <1>3, <1>4, <1>5, <1>6, <2>1, LeavesDevicesAlone
<1>7. CASE Writes(c, snapshot[c], snapshot[c]) /\ device = snapshot[c]
  <2>1. UNCHANGED localVars
    BY <1>7, <1>d DEF TypeOK
  <2>. QED BY <1>6, <2>1
<1>8. CASE Writes(c, snapshot[c], snapshot[c]) /\ device # snapshot[c]
  <2>1. BroughtBack(c)'
    BY <1>8, <1>d DEF TypeOK, BroughtBack
  <2>2. device \in wdm => <<c, device>> \in overtaken'
    BY <1>8
  <2>3. ASSUME NEW d \in wdm, d # device
        PROVE  \/ d[2] < attempt[d[1]]
               \/ pc'[d[1]] = "request"
               \/ pc'[d[1]] = "failed" /\ snapshot[d[1]] = None
               \/ \E x \in Calls : <<x, d>> \in overtaken'
    BY <1>8, <2>3 DEF TypeOK, DevicesKnown, NoStrayDevice
  <2>4. NoStrayDevice'
    BY <2>2, <2>3 DEF NoStrayDevice
  <2>5. NoMissedRegistration' /\ DeviceAlive'
    BY <2>1 DEF NoMissedRegistration, DeviceAlive
  <2>. QED BY <1>1, <1>2, <1>3, <1>4, <1>5, <2>4, <2>5
<1>. QED BY <1>6, <1>7, <1>8

(* A call that fails leaves the device alone.                              *)
LEMMA FailsStep == ASSUME IInv, NEW c \in Calls, Fails(c) PROVE IInv'
<1>. USE DEF IInv, Fails
<1>1. TypeOK'
  BY DEF TypeOK
<1>2. CallsProceed
  BY DEF TypeOK, RequestsAwaited, CallsProceed
<1>3. RequestsAwaited'
  BY DEF TypeOK, RequestsAwaited
<1>4. CarriedOut'
  BY DEF TypeOK, RequestsAwaited, CarriedOut
<1>5. CallbacksKnown'
  <2>1. op \in [Calls -> Ops \cup {None}] /\ pc \in [Calls -> Pcs]
    BY DEF TypeOK
  <2>. QED BY <2>1 DEF CallbacksKnown
<1>. QED BY <1>1, <1>2, <1>3, <1>4, <1>5, LeavesDevicesAlone

(* A retryable answer, and the attempt after the sleep.                    *)
LEMMA TriesAgainStep == ASSUME IInv, NEW c \in Calls, TriesAgain(c) PROVE IInv'
<1>. USE DEF IInv, TriesAgain
<1>1. TypeOK'
  <2>1. CASE Http!Sleeps(c)
    BY <2>1 DEF TypeOK
  <2>2. CASE Http!Repeats(c)
    <3>1. attempt[c] + 1 \in 0 .. MaxRetries
      BY <2>2 DEF TypeOK, RequestsAwaited
    <3>. QED BY <2>2, <3>1 DEF TypeOK
  <2>. QED BY <2>1, <2>2
<1>2. CallsProceed
  <2>0. attempt \in [Calls -> 0 .. MaxRetries]
    BY DEF TypeOK
  <2>1. \A x \in Calls : attempt[x] <= attempt'[x]
    BY <2>0
  <2>. QED BY <2>1 DEF TypeOK, CallsProceed
<1>3. RequestsAwaited'
  BY DEF TypeOK, RequestsAwaited
<1>4. CarriedOut'
  <2>1. \A x \in Calls : carried'[x] => carried[x] /\ attempt'[x] = attempt[x]
    BY DEF TypeOK, RequestsAwaited
  <2>. QED BY <2>1 DEF CarriedOut
<1>5. CallbacksKnown'
  <2>1. op \in [Calls -> Ops \cup {None}] /\ pc \in [Calls -> Pcs]
    BY DEF TypeOK
  <2>. QED BY <2>1 DEF CallbacksKnown
<1>. QED BY <1>1, <1>2, <1>3, <1>4, <1>5, LeavesDevicesAlone

(* A callback of the user's joins the others at the end.                   *)
LEMMA OnRegisteredStep == ASSUME IInv, NEW c \in Calls, OnRegistered(c) PROVE IInv'
<1>. USE DEF IInv, OnRegistered, Starts
<1>1. TypeOK'
  <2>1. callbacks' \in Seq(Calls)
    BY DEF TypeOK
  <2>2. op' \in [Calls -> Ops \cup {None}] /\ pc' \in [Calls -> Pcs]
    BY DEF TypeOK
  <2>. QED BY <2>1, <2>2 DEF TypeOK
<1>2. CallsProceed
  BY DEF TypeOK, CallsProceed
<1>3. RequestsAwaited'
  BY DEF TypeOK, RequestsAwaited
<1>4. CarriedOut'
  BY DEF TypeOK, RequestsAwaited, CarriedOut
<1>5. CallbacksKnown'
  <2>1. op \in [Calls -> Ops \cup {None}] /\ pc \in [Calls -> Pcs] /\ callbacks \in Seq(Calls)
    BY DEF TypeOK
  <2>. QED BY <2>1 DEF CallbacksKnown
<1>. QED BY <1>1, <1>2, <1>3, <1>4, <1>5, LeavesDevicesAlone

(* A waiter waits only while no device is registered.                      *)
LEMMA WaitStep == ASSUME IInv, NEW c \in Calls, Wait(c) PROVE IInv'
<1>. USE DEF IInv, Wait, Starts
<1>1. TypeOK'
  <2>0. callbacks \in Seq(Calls)
    BY DEF TypeOK
  <2>1. callbacks' \in Seq(Calls)
    BY <2>0
  <2>2. op' \in [Calls -> Ops \cup {None}] /\ pc' \in [Calls -> Pcs]
    BY DEF TypeOK
  <2>. QED BY <2>1, <2>2 DEF TypeOK
<1>2. CallsProceed
  BY DEF TypeOK, CallsProceed
<1>3. RequestsAwaited'
  BY DEF TypeOK, RequestsAwaited
<1>4. CarriedOut'
  BY DEF TypeOK, RequestsAwaited, CarriedOut
<1>5. CallbacksKnown'
  <2>1. op \in [Calls -> Ops \cup {None}] /\ pc \in [Calls -> Pcs] /\ callbacks \in Seq(Calls)
    BY DEF TypeOK
  <2>2. ASSUME NEW x \in Calls
        PROVE  /\ pc'[x] = "wait" => \E i \in 1 .. Len(callbacks') : callbacks'[i] = x
               /\ op'[x] = "callback" => pc'[x] \in {"done", "failed"}
    <3>1. CASE registered
      BY <2>1, <3>1 DEF CallbacksKnown
    <3>2. CASE ~registered /\ x = c
      BY <2>1, <3>2 DEF CallbacksKnown
    <3>3. CASE ~registered /\ x # c
      BY <2>1, <3>3 DEF CallbacksKnown
    <3>. QED BY <3>1, <3>2, <3>3
  <2>. QED BY <2>2 DEF CallbacksKnown
<1>. QED BY <1>1, <1>2, <1>3, <1>4, <1>5, LeavesDevicesAlone

LEMMA WaitEndsStep == ASSUME IInv, NEW c \in Calls, WaitEnds(c) PROVE IInv'
<1>. USE DEF IInv, WaitEnds
<1>1. TypeOK'
  BY DEF TypeOK
<1>2. CallsProceed
  BY DEF TypeOK, CallsProceed
<1>3. RequestsAwaited'
  BY DEF TypeOK, RequestsAwaited
<1>4. CarriedOut'
  BY DEF TypeOK, RequestsAwaited, CarriedOut
<1>5. CallbacksKnown'
  <2>1. op \in [Calls -> Ops \cup {None}] /\ pc \in [Calls -> Pcs]
    BY DEF TypeOK
  <2>. QED BY <2>1 DEF CallbacksKnown
<1>. QED BY <1>1, <1>2, <1>3, <1>4, <1>5, LeavesDevicesAlone

(* WDM carries a POST out: the device is known to nobody yet.              *)
LEMMA CreatesStep == ASSUME IInv, NEW c \in Calls, Creates(c) PROVE IInv'
<1>. USE DEF IInv, Creates
<1>1. TypeOK'
  BY DEF TypeOK
<1>2. RequestsAwaited'
  BY DEF RequestsAwaited
<1>3. DevicesKnown'
  BY DEF TypeOK, RequestsAwaited, DevicesKnown, PublishedBy
<1>4. CarriedOut'
  BY DEF RequestsAwaited, DevicesKnown, PublishedBy, CarriedOut
<1>5. CallbacksKnown'
  BY DEF CallbacksKnown
<1>6. NoMissedRegistration'
  <2>1. CallsProceed
    BY DEF TypeOK, CallsProceed
  <2>. QED BY <1>1, <2>1, StillTold DEF TypeOK
<1>7. DeviceAlive'
  BY DEF DeviceAlive, BroughtBack
<1>8. NoStrayDevice'
  BY DEF RequestsAwaited, NoStrayDevice
<1>. QED BY <1>1, <1>2, <1>3, <1>4, <1>5, <1>6, <1>7, <1>8

(* WDM carries a DELETE out, of a device that the call has read.           *)
LEMMA DeletesStep == ASSUME IInv, NEW c \in Calls, Deletes(c) PROVE IInv'
<1>. USE DEF IInv, Deletes
<1>1. TypeOK'
  BY DEF TypeOK
<1>2. RequestsAwaited'
  BY DEF RequestsAwaited
<1>3. DevicesKnown'
  BY DEF DevicesKnown, PublishedBy
<1>4. CarriedOut'
  BY DEF RequestsAwaited, DevicesKnown, PublishedBy, CarriedOut
<1>5. CallbacksKnown'
  BY DEF CallbacksKnown
<1>6. NoMissedRegistration'
  <2>1. CallsProceed
    BY DEF TypeOK, CallsProceed
  <2>. QED BY <1>1, <2>1, StillTold DEF TypeOK
<1>7. DeviceAlive'
  BY DEF RequestsAwaited, DeviceAlive, BroughtBack
<1>8. NoStrayDevice'
  BY DEF NoStrayDevice
<1>. QED BY <1>1, <1>2, <1>3, <1>4, <1>5, <1>6, <1>7, <1>8

LEMMA ConfirmsStep == ASSUME IInv, NEW c \in Calls, Confirms(c) PROVE IInv'
<1>. USE DEF IInv, Confirms
<1>1. TypeOK'
  BY DEF TypeOK
<1>2. CallsProceed
  BY DEF TypeOK, CallsProceed
<1>3. RequestsAwaited'
  BY DEF TypeOK, RequestsAwaited
<1>4. CarriedOut'
  BY DEF TypeOK, RequestsAwaited, CarriedOut
<1>5. CallbacksKnown'
  <2>1. op \in [Calls -> Ops \cup {None}] /\ pc \in [Calls -> Pcs]
    BY DEF TypeOK
  <2>. QED BY <2>1 DEF CallbacksKnown
<1>. QED BY <1>1, <1>2, <1>3, <1>4, <1>5, LeavesDevicesAlone

(* WDM drops a device of its own accord.                                   *)
LEMMA WithdrawsStep == ASSUME IInv, NEW d \in Devices, Withdraws(d) PROVE IInv'
<1>. USE DEF IInv, Withdraws
<1>1. TypeOK'
  BY DEF TypeOK
<1>2. RequestsAwaited'
  BY DEF RequestsAwaited
<1>3. DevicesKnown'
  BY DEF DevicesKnown, PublishedBy
<1>4. CarriedOut'
  BY DEF CarriedOut
<1>5. CallbacksKnown'
  BY DEF CallbacksKnown
<1>6. NoMissedRegistration'
  <2>1. CallsProceed
    BY DEF TypeOK, CallsProceed
  <2>. QED BY <1>1, <2>1, StillTold DEF TypeOK
<1>7. DeviceAlive'
  BY DEF DeviceAlive, BroughtBack
<1>8. NoStrayDevice'
  BY DEF NoStrayDevice
<1>. QED BY <1>1, <1>2, <1>3, <1>4, <1>5, <1>6, <1>7, <1>8

-----------------------------------------------------------------------------
LEMMA InitIInv == Init => IInv
<1>. USE DEF Init, Http!HttpInit
<1>1. Init => TypeOK
  <2>1. 0 \in 0 .. MaxRetries
    OBVIOUS
  <2>2. Init => registered = (device # None)
    OBVIOUS
  <2>. QED BY <2>1, <2>2 DEF TypeOK
<1>4. Init => RequestsAwaited
  BY DEF RequestsAwaited
<1>2. Init => DevicesKnown /\ CarriedOut
  BY DEF DevicesKnown, CarriedOut
<1>3. Init => CallbacksKnown /\ NoMissedRegistration /\ DeviceAlive /\ NoStrayDevice
  <2>1. Init => CallbacksKnown
    BY DEF CallbacksKnown
  <2>. QED BY <2>1 DEF NoMissedRegistration, DeviceAlive, NoStrayDevice
<1>. QED BY <1>1, <1>2, <1>3, <1>4 DEF IInv

LEMMA Invariance == Spec => []IInv
<1>1. ASSUME IInv, [Next]_vars PROVE IInv'
  <2>1. CASE UNCHANGED vars
    <3>. USE <1>1, <2>1 DEF vars, IInv
    <3>1. TypeOK' /\ RequestsAwaited' /\ CarriedOut' /\ CallbacksKnown'
      BY DEF TypeOK, RequestsAwaited, CarriedOut, CallbacksKnown
    <3>2. CallsProceed
      BY DEF TypeOK, CallsProceed
    <3>. QED BY <3>1, <3>2, LeavesDevicesAlone
  <2>2. CASE Next
    BY <1>1, <2>2, ReuseDeviceStep, RegisterStep, RegisteredStep, UnregisterStep,
       UnregisteredStep, RefreshStep, RefreshedStep, FailsStep, TriesAgainStep,
       OnRegisteredStep, WaitStep, WaitEndsStep, CreatesStep, DeletesStep, ConfirmsStep, WithdrawsStep DEF Next,
       CallStep, WdmStep
  <2>. QED BY <1>1, <2>1, <2>2
<1>. QED BY <1>1, InitIInv, PTL DEF Spec

-----------------------------------------------------------------------------
(* Every variable of the device client keeps its type; _registered says    *)
(* whether there is a device, at every moment another call can see.        *)
THEOREM TypeCorrect == Spec => []TypeOK
BY Invariance, PTL DEF IInv

(* No waiter of wait_for_registration is left waiting by a registration,   *)
(* unless an overtaken refresh() has registered the device or a callback   *)
(* of the user's before it has raised.                                     *)
THEOREM WaitersTold == Spec => []NoMissedRegistration
BY Invariance, PTL DEF IInv

(* The client's device is one that WDM knows, or has withdrawn, or that an *)
(* unregister() or an overtaken refresh() has left behind.                 *)
THEOREM DeviceKnown == Spec => []DeviceAlive
BY Invariance, PTL DEF IInv

(* Every device at WDM that the client does not know is accounted for: its *)
(* POST was repeated, is under way or seemed to fail, or a register(),     *)
(* refresh() or unregister() that had begun without it has written over it.*)
THEOREM StraysExplained == Spec => []NoStrayDevice
BY Invariance, PTL DEF IInv
===============================================================================
