-------------------------- MODULE ConversationClient --------------------------
(***************************************************************************)
(* The way of an activity from the websocket to its handlers: the dispatch *)
(* of MercuryClient (mercury.py), ConversationClient (conversation.py) and *)
(* as much of the key retrieval as they see of it: one retrieval per key,  *)
(* which all who need it wait for and any of them may cancel, and a cache. *)
(*                                                                         *)
(* Every handler runs in a task of its own. The loop runs what is ready in *)
(* the order in which it became ready, one entry of the sequence ready per *)
(* step; a frame, the end of a retrieval or a call of the user may add to  *)
(* it between any two steps, which includes what asyncio does. An entry is *)
(*   <<"event", e, h>>     Mercury's handler h for event e                 *)
(*   <<"handler", e, h>>   the handler h of the activity of event e        *)
(*   <<"load", k, s>>      a retrieval: its first step (s = "start") or    *)
(*                         one in which it has its answer or an error      *)
(*   <<"wake", t, o>>      task t, which waited for a retrieval, resumes   *)
(***************************************************************************)
EXTENDS Integers, Sequences, FiniteSets, SequencesExt

CONSTANTS
    Events,         \* bound: the Mercury events that arrive
    Keys,
    Frames,         \* what an event may carry
    RawHandlers,    \* user handlers of MercuryClient
    Handlers,       \* user handlers of ConversationClient, one for a registration
    Topic,          \* the event type or verb each is registered for
    Registered,     \* those that are registered before the first event
    Changing,       \* bound: handlers that users add and remove, topics they clear
    Copied,         \* bound: the events whose activity users copy
    Internal,       \* ConversationClient's own two Mercury handlers
    None

(* An event: its eventType; the verb of the activity, if there is one;     *)
(* whether the display name is encrypted or plain; its key; and the KMS    *)
(* messages found in each of the places where they may be. A message is    *)
(* the response with that key, one that nothing here can read, a JSON      *)
(* object that KMSMessage.from_dict rejects, or no string at all.          *)
Kinds == {"conversation.activity", "encryption.kms_message"}
Verbs == {"post", "add"}
MercuryTopics == Kinds \cup {"message.created", "activity:post", "*"}
ActivityTopics == Verbs \cup {"any"}     \* any: WILDCARD_HANDLER
Places == <<"nested", "dotted", "direct", "serialized">>
Messages == {"key", "unreadable", "malformed", "other"}
Topics == MercuryTopics \cup ActivityTopics
UserHandlers == RawHandlers \cup Handlers

ASSUME FramesAssumption ==
    \A f \in Frames :
        /\ f.kind \in Kinds /\ f.verb \in Verbs
        /\ f.text \in {"plain", "sealed"} /\ f.key \in Keys
        /\ DOMAIN f.kms = ToSet(Places)
        /\ \A p \in DOMAIN f.kms : ToSet(f.kms[p]) \subseteq Messages
ASSUME TopicAssumption ==
    /\ Topic \in [UserHandlers -> Topics]
    /\ \A h \in RawHandlers : Topic[h] \in MercuryTopics
    /\ \A h \in Handlers : Topic[h] \in ActivityTopics
ASSUME NamesAssumption ==
    /\ Internal \notin UserHandlers /\ None \notin Frames
    /\ Registered \subseteq UserHandlers /\ IsFiniteSet(Registered)
    /\ Copied \subseteq Events
    /\ Changing \subseteq UserHandlers \cup MercuryTopics

VARIABLES
    cacheEnabled,   \* not config.disable_key_cache; never changes
    table,          \* _handlers of MercuryClient and of ConversationClient
    ready,          \* what the loop runs next
    frame,          \* what has arrived with each event
    dispatched,     \* the handlers to which its activity was dispatched
    begun,          \* the handlers that have been called, by event
    missed,         \* those whose task has ended without calling them
    content,        \* the content of the Activity that they share
    read,           \* where the get_message_content of a copy of it is
    retrieval,      \* the entry of each key in _inflight_keys
    waiters,        \* the tasks that await it
    cancelled,      \* the keys whose retrieval has been cancelled, but goes on
    answered,       \* those whose response has been set as the result it awaits
    lost,           \* history: those whose retrieval did nothing with that response
    cached          \* the keys in _key_cache

eventVars == <<frame, dispatched, begun, missed, content, read>>
answerVars == <<cancelled, answered, lost>>
kmsVars == <<cacheEnabled, retrieval, waiters, answerVars, cached>>
vars == <<table, ready, eventVars, kmsVars>>

Init ==
    /\ cacheEnabled \in BOOLEAN
    /\ table = [t \in Topics |->
                   (IF t \in Kinds THEN <<Internal>> ELSE <<>>)
                   \o SetToSeq({h \in Registered : Topic[h] = t})]
    /\ ready = <<>>
    /\ frame = [e \in Events |-> None]
    /\ dispatched = [e \in Events |-> <<>>]
    /\ begun = [e \in Events |-> {}]
    /\ missed = [e \in Events |-> {}]
    /\ content = [e \in Events |-> "empty"]
    /\ read = [e \in Events |-> "none"]
    /\ retrieval = [k \in Keys |-> "none"]
    /\ waiters = [k \in Keys |-> <<>>]
    /\ cancelled = {} /\ answered = {} /\ lost = {}
    /\ cached = {}

-----------------------------------------------------------------------------
(* on, off and clear_handlers; the last also takes out the handlers of     *)
(* ConversationClient itself.                                              *)

On(h) ==
    /\ h \in Changing \cap UserHandlers /\ h \notin ToSet(table[Topic[h]])
    /\ table' = [table EXCEPT ![Topic[h]] = Append(@, h)]
    /\ UNCHANGED <<ready, eventVars, kmsVars>>

Off(h) ==
    /\ h \in Changing \cap UserHandlers
    /\ \E i \in DOMAIN table[Topic[h]] :
         /\ table[Topic[h]][i] = h
         /\ table' = [table EXCEPT ![Topic[h]] = RemoveAt(@, i)]
    /\ UNCHANGED <<ready, eventVars, kmsVars>>

ClearHandlers(t) ==
    /\ t \in Changing \cap MercuryTopics /\ table[t] # <<>>
    /\ table' = [table EXCEPT ![t] = <<>>]
    /\ UNCHANGED <<ready, eventVars, kmsVars>>

-----------------------------------------------------------------------------
(* The reader hands a frame to process_event: message.created first, for a *)
(* post, then the event type, the activity type and the wildcard.          *)

IsActivity(f) == f.kind = "conversation.activity"
IsMessage(f) == IsActivity(f) /\ f.verb = "post"

MercuryMatching(f) ==
    (IF IsMessage(f) THEN table["message.created"] ELSE <<>>)
    \o table[f.kind]
    \o (IF IsMessage(f) THEN table["activity:post"] ELSE <<>>)
    \o table["*"]

EntriesFor(kind, e, hs) == [i \in DOMAIN hs |-> <<kind, e, hs[i]>>]

Arrives(e, f) ==
    /\ frame[e] = None
    /\ frame' = [frame EXCEPT ![e] = f]
    /\ ready' = ready \o EntriesFor("event", e, MercuryMatching(f))
    /\ UNCHANGED <<table, dispatched, begun, missed, content, read, kmsVars>>

Ready(kind) == ready # <<>> /\ Head(ready)[1] = kind
Rest == Tail(ready)
Event == Head(ready)[2]
Handler == Head(ready)[3]

Begin(e, h) == begun' = [begun EXCEPT ![e] = @ \cup {h}]

RunRawHandler ==
    /\ Ready("event") /\ Handler # Internal
    /\ Begin(Event, Handler)
    /\ ready' = Rest
    /\ UNCHANGED <<table, frame, dispatched, missed, content, read, kmsVars>>

-----------------------------------------------------------------------------
(* process_event_kms_messages: the first place with anything in it counts, *)
(* and its strings go to process_kms_messages. A malformed message raises, *)
(* and neither the messages after it nor the activity are handled.         *)

FilledPlaces(f) == SelectSeq(Places, LAMBDA p : f.kms[p] # <<>>)

KmsMessages(f) ==
    IF FilledPlaces(f) = <<>> THEN <<>>
    ELSE SelectSeq(f.kms[Head(FilledPlaces(f))], LAMBDA m : m # "other")

Fails(f) == "malformed" \in ToSet(KmsMessages(f))
BringsKey(f) ==
    LET ms == KmsMessages(f) IN
    \E i \in DOMAIN ms : ms[i] = "key" /\ \A j \in 1 .. i : ms[j] # "malformed"

(* _handle_conversation_event, _handle_kms_event and _dispatch_activity.   *)

WildcardFirst(f) == table["any"] \o table[f.verb]
ActivityMatching(f) == table[f.verb] \o table["any"]

Dispatch(e, queue) ==
    IF IsActivity(frame[e]) /\ ~Fails(frame[e])
    THEN /\ dispatched' = [dispatched EXCEPT ![e] = ActivityMatching(frame[e])]
         /\ ready' = queue \o EntriesFor("handler", e, dispatched'[e])
    ELSE ready' = queue /\ UNCHANGED dispatched

BringsNothing(f) ==
    /\ ~BringsKey(f)
    /\ Dispatch(Event, Rest)
    /\ UNCHANGED <<answered, lost, cached>>

(* The response is the one that a retrieval under way is waiting for; it   *)
(* may have to hear from its POST first, or may fail nevertheless.         *)
ResolvesPending(f) ==
    /\ BringsKey(f) /\ retrieval[f.key] \in {"running", "due"} /\ f.key \notin answered
    /\ answered' = answered \cup {f.key}
    /\ lost' = lost \ {f.key}
    /\ Dispatch(Event, Rest)
    /\ UNCHANGED cached

DropsKey(f) ==
    /\ BringsKey(f)
    /\ Dispatch(Event, Rest)
    /\ UNCHANGED <<answered, lost, cached>>
CachesKey(f) ==
    /\ BringsKey(f)
    /\ cached' = cached \cup {f.key}
    /\ Dispatch(Event, Rest)
    /\ UNCHANGED <<answered, lost>>

RunInternalHandler ==
    /\ Ready("event") /\ Handler = Internal
    /\ LET f == frame[Event] IN BringsNothing(f) \/ ResolvesPending(f) \/ CachesKey(f)
    /\ UNCHANGED <<table, frame, begun, missed, content, read>>
    /\ UNCHANGED <<cacheEnabled, retrieval, waiters, cancelled>>

-----------------------------------------------------------------------------
(* EncryptionClient.get_key, up to its first suspension.                   *)

Over == {"ok", "failed", "cancelled"}
InCache(k) == cacheEnabled /\ k \in cached
Immediate(k) == IF InCache(k) THEN "ok" ELSE IF retrieval[k] \in Over THEN retrieval[k] ELSE "wait"

GetKey(task, k, queue) ==
    \/ /\ InCache(k)
       /\ ready' = queue
       /\ UNCHANGED <<retrieval, waiters>>
    \/ /\ ~InCache(k) /\ retrieval[k] \in Over
       /\ retrieval' = [retrieval EXCEPT ![k] = "none"]
       /\ ready' = queue
       /\ UNCHANGED waiters
    \/ /\ ~InCache(k) /\ retrieval[k] \in {"created", "running", "due"}
       /\ waiters' = [waiters EXCEPT ![k] = Append(@, task)]
       /\ ready' = queue
       /\ UNCHANGED retrieval
    \/ /\ ~InCache(k) /\ retrieval[k] = "none"
       /\ retrieval' = [retrieval EXCEPT ![k] = "created"]
       /\ waiters' = [waiters EXCEPT ![k] = <<task>>]
       /\ ready' = Append(queue, <<"load", k, "start">>)

(* The retrieval that a handler has waited for has succeeded or failed:    *)
(* the handler is called. If it was cancelled its waiters are, too, and    *)
(* the handler is not called: CancelledError is no Exception.              *)
Calls(e, h, o) ==
    /\ begun' = [begun EXCEPT ![e] = IF o \in {"ok", "failed"} THEN @ \cup {h} ELSE @]
    /\ missed' = [missed EXCEPT ![e] = IF o = "cancelled" THEN @ \cup {h} ELSE @]

(* An encrypted display name when its key is there, or is not.             *)
Revealed(outcome) == IF outcome = "ok" THEN "clear" ELSE "cipher"

(* _invoke_activity_handler and _process_message_content. Every handler of *)
(* a message first sets the content of the shared Activity to the display  *)
(* name as it has come, and then decrypts it.                              *)

RunPlainHandler ==
    /\ Ready("handler")
    /\ LET f == frame[Event] IN
         /\ ~IsMessage(f) \/ f.text = "plain"
         /\ content' = IF IsMessage(f) THEN [content EXCEPT ![Event] = "clear"] ELSE content
    /\ Begin(Event, Handler)
    /\ ready' = Rest
    /\ UNCHANGED <<table, frame, dispatched, missed, read, kmsVars>>

RunMessageHandler ==
    /\ Ready("handler")
    /\ LET f == frame[Event] IN
         /\ IsMessage(f) /\ f.text = "sealed"
         /\ GetKey(Head(ready), f.key, Rest)
         /\ content' = [content EXCEPT ![Event] = Revealed(Immediate(f.key))]
         /\ Calls(Event, Handler, Immediate(f.key))
    /\ UNCHANGED <<table, frame, dispatched, read, cacheEnabled, answerVars, cached>>

(* A user gets the content of a copy of the activity which dispatch does   *)
(* not fill: process_activity_event and get_message_content.               *)
GetMessageContent(e) ==
    /\ e \in Copied /\ frame[e] # None /\ read[e] = "none"
    /\ LET f == frame[e] IN
         /\ IsActivity(f)
         /\ IF f.text = "plain"
            THEN read' = [read EXCEPT ![e] = "over"] /\ UNCHANGED <<ready, retrieval, waiters>>
            ELSE /\ GetKey(<<"read", e>>, f.key, ready)
                 /\ read' = [read EXCEPT ![e] = IF Immediate(f.key) = "wait" THEN "wait" ELSE "over"]
    /\ UNCHANGED <<table, frame, dispatched, begun, missed, content>>
    /\ UNCHANGED <<cacheEnabled, answerVars, cached>>

(* The user cancels that call while it waits. It awaits the task that all  *)
(* others await, unshielded: what is cancelled is the retrieval.           *)
CancelRead(e) ==
    /\ frame[e] # None
    /\ LET k == frame[e].key IN
         /\ <<"read", e>> \in ToSet(waiters[k])
         /\ cancelled' = cancelled \cup {k}
    /\ UNCHANGED <<table, ready, eventVars, cacheEnabled, retrieval, waiters, answered, lost, cached>>

-----------------------------------------------------------------------------
(* The retrieval task: it sends its request, and goes on when it has the   *)
(* answer, an error, a timeout or a cancellation.                          *)

StartLoad ==
    /\ Ready("load") /\ Head(ready)[3] = "start" /\ Head(ready)[2] \notin cancelled
    /\ retrieval' = [retrieval EXCEPT ![Head(ready)[2]] = "running"]
    /\ ready' = Rest
    /\ UNCHANGED <<table, eventVars, cacheEnabled, waiters, answerVars, cached>>

LoadAnswered(k) ==
    /\ retrieval[k] = "running"
    /\ retrieval' = [retrieval EXCEPT ![k] = "due"]
    /\ ready' = Append(ready, <<"load", k, "due">>)
    /\ UNCHANGED <<table, eventVars, cacheEnabled, waiters, answerVars, cached>>

StoreNothing(k, o) == UNCHANGED cached
Store(k, o) == cached' = IF o = "ok" /\ cacheEnabled THEN cached \cup {k} ELSE cached

WakesFirst(k, o) ==
    /\ ready' = IF waiters[k] = <<>> THEN Rest ELSE Append(Rest, <<"wake", Head(waiters[k]), o>>)
    /\ waiters' = IF waiters[k] = <<>> THEN waiters ELSE [waiters EXCEPT ![k] = Tail(@)]
Wakes(k, o) ==
    /\ ready' = Rest \o [i \in DOMAIN waiters[k] |-> <<"wake", waiters[k][i], o>>]
    /\ waiters' = [waiters EXCEPT ![k] = <<>>]

(* wait_for of Python 3.11 returns a response that is there although its   *)
(* caller is cancelled.                                                    *)
Outcomes(k) ==
    IF k \notin cancelled THEN {"ok", "failed"}
    ELSE {"cancelled"} \cup (IF k \in answered THEN {"ok"} ELSE {})

FinishLoad ==
    /\ Ready("load")
    /\ LET k == Head(ready)[2] IN
         /\ Head(ready)[3] = "due" \/ k \in cancelled
         /\ \E o \in Outcomes(k) :
              /\ retrieval' = [retrieval EXCEPT ![k] = o]
              /\ lost' = IF k \in answered /\ o # "ok" THEN lost \cup {k} ELSE lost
              /\ Store(k, o)
              /\ Wakes(k, o)
         /\ cancelled' = cancelled \ {k}
         /\ answered' = answered \ {k}
    /\ UNCHANGED <<table, eventVars, cacheEnabled>>

(* The request whose response has come fails, and another one is sent.     *)
AskAgain ==
    /\ Ready("load") /\ Head(ready)[3] = "due"
    /\ LET k == Head(ready)[2] IN
         /\ k \in answered \ cancelled
         /\ retrieval' = [retrieval EXCEPT ![k] = "running"]
         /\ answered' = answered \ {k}
         /\ lost' = lost \cup {k}
    /\ ready' = Rest
    /\ UNCHANGED <<table, eventVars, cacheEnabled, waiters, cancelled, cached>>

(* A handler is called whether or not its message could be decrypted; a    *)
(* failure leaves the content as it is.                                    *)
RaisesOnFailure(e, h, o) ==
    IF o = "ok"
    THEN content' = [content EXCEPT ![e] = Revealed(o)] /\ Calls(e, h, o)
    ELSE UNCHANGED <<content, begun, missed>>
Decrypted(e, h, o) ==
    /\ content' = IF o = "ok" THEN [content EXCEPT ![e] = Revealed(o)] ELSE content
    /\ Calls(e, h, o)

WakeUp ==
    /\ Ready("wake")
    /\ LET task == Head(ready)[2]
           e == task[2]
           o == Head(ready)[3]
           k == frame[e].key
       IN /\ retrieval' = IF retrieval[k] \in Over THEN [retrieval EXCEPT ![k] = "none"] ELSE retrieval
          /\ \/ task[1] = "handler" /\ Decrypted(e, task[3], o) /\ UNCHANGED read
             \/ /\ task[1] = "read"
                /\ read' = [read EXCEPT ![e] = "over"]
                /\ UNCHANGED <<content, begun, missed>>
    /\ ready' = Rest
    /\ UNCHANGED <<table, frame, dispatched, cacheEnabled, waiters, answerVars, cached>>

-----------------------------------------------------------------------------
UserStep ==
    \/ \E h \in UserHandlers : On(h) \/ Off(h)
    \/ \E t \in MercuryTopics : ClearHandlers(t)
    \/ \E e \in Events : GetMessageContent(e) \/ CancelRead(e)

Run ==
    \/ RunRawHandler \/ RunInternalHandler \/ RunPlainHandler \/ RunMessageHandler
    \/ StartLoad \/ FinishLoad \/ AskAgain \/ WakeUp

Next ==
    \/ UserStep \/ Run
    \/ \E e \in Events, f \in Frames : Arrives(e, f)
    \/ \E k \in Keys : LoadAnswered(k)

Spec == Init /\ [][Next]_vars

(* The loop runs what is ready, and every retrieval ends.                  *)
FairSpec == Spec /\ WF_vars(Run) /\ \A k \in Keys : WF_vars(LoadAnswered(k))

-----------------------------------------------------------------------------
(* Properties.                                                             *)

(* The types of the state.                                                 *)
HandlerTasks == {"handler"} \X Events \X Handlers
Tasks == HandlerTasks \cup ({"read"} \X Events)
Entries ==
    ({"event"} \X Events \X (RawHandlers \cup {Internal})) \cup HandlerTasks
    \cup ({"load"} \X Keys \X {"start", "due"}) \cup ({"wake"} \X Tasks \X Over)
Pending == {"created", "running", "due"}

TypeOK ==
    /\ table \in [Topics -> Seq(UserHandlers \cup {Internal})]
    /\ ready \in Seq(Entries)
    /\ frame \in [Events -> Frames \cup {None}]
    /\ dispatched \in [Events -> Seq(Handlers)]
    /\ begun \in [Events -> SUBSET UserHandlers]
    /\ missed \in [Events -> SUBSET Handlers]
    /\ content \in [Events -> {"empty", "cipher", "clear"}]
    /\ read \in [Events -> {"none", "wait", "over"}]
    /\ retrieval \in [Keys -> {"none"} \cup Pending \cup Over]
    /\ waiters \in [Keys -> Seq(Tasks)]
    /\ \A k \in Keys : waiters[k] # <<>> => retrieval[k] \in Pending
    /\ cancelled \subseteq Keys /\ answered \subseteq Keys /\ lost \subseteq Keys
    /\ cached \subseteq Keys /\ cacheEnabled \in BOOLEAN

(* The handlers of one activity begin in the order in which they were      *)
(* dispatched, verb before wildcard, although each runs in its own task    *)
(* and waits for the key by itself; and all of them begin after Mercury's  *)
(* own handlers for that event. A handler that a cancellation keeps from   *)
(* being called does not hold the next one up.                             *)
Past(e) == begun[e] \cup missed[e]
InOrder ==
    \A e \in Events :
        LET hs == dispatched[e] IN
        /\ \A i, j \in DOMAIN hs : i < j /\ hs[j] \in Past(e) => hs[i] \in Past(e)
        /\ \A i, j \in DOMAIN hs : Topic[hs[i]] = "any" /\ i < j => Topic[hs[j]] = "any"
        /\ begun[e] \cap Handlers # {} =>
             \A i \in DOMAIN ready : ready[i][1] = "event" => ready[i][2] # e

(* Plaintext that one handler of an activity has been given is never       *)
(* replaced by ciphertext when the next handler decrypts the same Activity *)
(* again, as long as keys are cached.                                      *)
PlaintextStays ==
    [][cacheEnabled => \A e \in Events : content[e] = "clear" => content'[e] = "clear"]_vars

(* "KMS messages can arrive alongside the activity that needs them": the   *)
(* handlers of an activity that has brought its own key do not ask KMS. If *)
(* that response went to a retrieval which was under way, it is lost with  *)
(* that: when a user cancels it, or when its POST or its time runs out.    *)
KeyAlongsideIsUsed ==
    [][cacheEnabled /\ Ready("handler") /\ BringsKey(frame[Event])
         => LET k == frame[Event].key IN
            k \notin lost /\ retrieval[k] = "none" => retrieval'[k] = "none"]_vars

(* Every activity that Mercury hands to ConversationClient is given to     *)
(* every handler registered for it (and not taken out before it is         *)
(* dispatched), whether or not its key can be retrieved and its text       *)
(* decrypted; but not to those whose retrieval a user has cancelled, and   *)
(* not at all after a KMS message in the same event that is malformed.     *)
EveryActivityHandled ==
    \A e \in Events, h \in Handlers :
        (/\ Ready("event") /\ Event = e /\ Handler = Internal
         /\ IsActivity(frame[e]) /\ ~Fails(frame[e])
         /\ h \in ToSet(ActivityMatching(frame[e])))
            ~> (h \in begun[e] \/ h \in missed[e] \/ h \notin ToSet(table[Topic[h]]))

-----------------------------------------------------------------------------
(* What the inductive invariant adds.                                      *)

(* Each table holds the registrations for its topic, once each; and the    *)
(* Mercury handler of ConversationClient in its own two, if anywhere.      *)
TablesHold ==
    \A t \in Topics :
        /\ \A i \in DOMAIN table[t] :
             IF table[t][i] = Internal THEN t \in Kinds ELSE Topic[table[t][i]] = t
        /\ \A i, j \in DOMAIN table[t] : table[t][i] = table[t][j] => i = j

(* What the loop is to run, or waits for a key, belongs to an event that   *)
(* has arrived, and waits for the key of that event.                       *)
Waits(t, k) == t \in ToSet(waiters[k])
Woken(t) == \E o \in Over : <<"wake", t, o>> \in ToSet(ready)

Sealed(f) == IsMessage(f) /\ f.text = "sealed"
Arrived ==
    /\ \A e \in Events :
         frame[e] = None =>
            dispatched[e] = <<>> /\ begun[e] = {} /\ missed[e] = {} /\ content[e] = "empty"
    /\ \A i \in DOMAIN ready :
         /\ ready[i][1] \in {"event", "handler"} => frame[ready[i][2]] # None
         /\ ready[i][1] = "wake" => frame[ready[i][2][2]] # None
    /\ \A k \in Keys : \A t \in Tasks :
         Waits(t, k) => /\ frame[t[2]] # None /\ frame[t[2]].key = k
                        /\ t[1] = "handler" => Sealed(frame[t[2]])

(* A retrieval that has succeeded has cached its key, and so has the one   *)
(* from which a handler has its plaintext.                                 *)
SuccessIsCached ==
    cacheEnabled =>
        /\ \A k \in Keys : retrieval[k] = "ok" => k \in cached
        /\ \A t \in Tasks : <<"wake", t, "ok">> \in ToSet(ready) => frame[t[2]].key \in cached
        /\ \A e \in Events :
             content[e] = "clear" /\ Sealed(frame[e]) => frame[e].key \in cached

(* A response is set only while the retrieval goes on.                     *)
AnswersAwaited == \A k \in answered : retrieval[k] \in {"running", "due"}

(* When a handler of an activity that brings its key is ready, the key is  *)
(* cached, or the retrieval under way has it, or had it and has lost it.   *)
KeyComesFirst ==
    cacheEnabled =>
        \A i \in DOMAIN ready :
            ready[i][1] = "handler" /\ BringsKey(frame[ready[i][2]])
                => frame[ready[i][2]].key \in cached \cup answered \cup lost

(* ConversationClient sees an event once, and dispatches it then.          *)
SeenOnce ==
    \A i, j \in DOMAIN ready :
        ready[i][1] = "event" /\ ready[i][3] = Internal
            => /\ dispatched[ready[i][2]] = <<>>
               /\ ready[j] = ready[i] => j = i

(* The handlers of one activity are queued as one block that begins after  *)
(* position b of ready, all of Mercury's handlers for the event before it; *)
(* b is negative when some of them have run. Those that have run are past, *)
(* wait for the key or have been woken, in this order and in the order of  *)
(* the block; while others are queued none is woken, and no key comes that *)
(* one of them waits for.                                                  *)
HandlerTask(e, i) == <<"handler", e, dispatched[e][i]>>
IsPast(e, i) == dispatched[e][i] \in Past(e)

Queued(e, b) ==
    /\ \A q \in DOMAIN ready :
         /\ ready[q][1] = "handler" /\ ready[q][2] = e => q - b \in DOMAIN dispatched[e]
         /\ ready[q][1] = "event" /\ ready[q][2] = e /\ dispatched[e] # <<>> => q <= b
    /\ \A i \in DOMAIN dispatched[e] : b + i >= 1 => ready[b + i] = HandlerTask(e, i)
HaveRun(e, b) ==
    /\ \A i \in DOMAIN dispatched[e] :
         b + i < 1 => \/ IsPast(e, i) \/ Woken(HandlerTask(e, i))
                      \/ \E k \in Keys : Waits(HandlerTask(e, i), k)
    /\ \A h \in Handlers :
         h \in Past(e) \/ Woken(<<"handler", e, h>>) \/ (\E k \in Keys : Waits(<<"handler", e, h>>, k))
             => \E i \in DOMAIN dispatched[e] : b + i < 1 /\ h = dispatched[e][i]
BlockRuns(e, b) ==
    b + Len(dispatched[e]) >= 1 =>
        \A h \in Handlers :
            /\ ~Woken(<<"handler", e, h>>)
            /\ \A k \in Keys : Waits(<<"handler", e, h>>, k) => ~InCache(k)

WokenFirst(e, i, j) ==
    \A q \in DOMAIN ready, o \in Over :
        ready[q] = <<"wake", HandlerTask(e, j), o>>
            => \/ IsPast(e, i)
               \/ \E p \in 1 .. q - 1, u \in Over : ready[p] = <<"wake", HandlerTask(e, i), u>>
WaitsFirst(e, i, j) ==
    \A k \in Keys : \A q \in DOMAIN waiters[k] :
        waiters[k][q] = HandlerTask(e, j)
            => \/ IsPast(e, i) \/ Woken(HandlerTask(e, i))
               \/ \E p \in 1 .. q - 1 : waiters[k][p] = HandlerTask(e, i)
Precedes(e, i, j) ==
    (IsPast(e, j) => IsPast(e, i)) /\ WokenFirst(e, i, j) /\ WaitsFirst(e, i, j)
InSequence(e) == \A i, j \in DOMAIN dispatched[e] : i < j => Precedes(e, i, j)

VerbsFirst(e) ==
    \A i, j \in DOMAIN dispatched[e] :
        /\ dispatched[e][i] = dispatched[e][j] => i = j
        /\ Topic[dispatched[e][i]] = "any" /\ i < j => Topic[dispatched[e][j]] = "any"

Blocks ==
    \A e \in Events :
        /\ VerbsFirst(e) /\ InSequence(e)
        /\ \E b \in -Len(dispatched[e]) .. Len(ready) - Len(dispatched[e]) :
             Queued(e, b) /\ HaveRun(e, b) /\ BlockRuns(e, b)

IInv ==
    /\ TypeOK /\ TablesHold /\ Arrived /\ SuccessIsCached
    /\ AnswersAwaited /\ KeyComesFirst /\ SeenOnce /\ Blocks
===============================================================================
