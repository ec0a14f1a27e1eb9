--------------------------- MODULE EncryptionClient ---------------------------
(***************************************************************************)
(* Key retrieval of EncryptionClient (encryption.py): get_key with its     *)
(* cache and its coalescing of calls, the retrieval task that a call       *)
(* starts, the ECDH session with KMS that all tasks share, the table of    *)
(* pending KMS requests and process_kms_messages, which Mercury calls with *)
(* the KMS messages that arrive over the websocket.                        *)
(*                                                                         *)
(* Everything runs on one asyncio loop, so an action is what one task does *)
(* from the point where it resumes to the point where it next suspends.    *)
(* A call that creates a retrieval task gives the task its own name: Calls *)
(* is also the set of tasks. A KMS key is identified with its URI, and an  *)
(* ECDH session with the create request that established it.               *)
(***************************************************************************)
EXTENDS Naturals, FiniteSets

(* An operator followed at once by one with the same parameters is a       *)
(* plausible bug in the second; the README says which property it breaks.  *)

CONSTANTS
    Calls,          \* the invocations of get_key; also the tasks they may start
    Uris,           \* the key URIs that callers ask for
    Malformed,      \* the URIs that parse_kms_uri rejects
    CacheEnabled,   \* not config.disable_key_cache
    MaxPushes,      \* bound: replies that KMS pushes to Mercury in a behaviour
    None            \* Python's None, and "no one"

ASSUME MalformedAssumption == Malformed \subseteq Uris
ASSUME CacheAssumption == CacheEnabled \in BOOLEAN
ASSUME MaxPushesAssumption == MaxPushes \in Nat
ASSUME NoneAssumption == None \notin Calls /\ None \notin Uris

(* A retrieval sends at most one create and one retrieve request in each   *)
(* of its two attempts; generate_request_id makes every request unique.    *)
Attempts == {1, 2}
Request == [task : Calls, attempt : Attempts, method : {"create", "retrieve"}]

(* What a KMS reply says: a key (the KMS-side EC key, for a create), a     *)
(* status that is not a success, or a success without a key.               *)
Bodies == {"key", "badStatus", "noKey"}
Sessions == [task : Calls, attempt : Attempts, method : {"create"}]
Reply == [request : Request, session : Sessions \cup {None}, body : Bodies]

ASSUME NoneIsNoRecord == None \notin Request /\ None \notin Reply

VARIABLES
    callPc,     \* where each get_key call is; "done": it returned its key
    callUri,    \* the URI it asks for
    callTask,   \* the task it awaits
    callKey,    \* the key it returned
    keyCache,   \* _key_cache
    inflight,   \* _inflight_keys
    taskPc,     \* where each retrieval task is
    attempt,    \* 1, or 2 once the first retrieve failed
    session,    \* the ecdh_context the task uses
    answer,     \* the result of the future of its outstanding request
    taskKey,    \* the key that the task returned
    pending,    \* _pending_requests
    current,    \* _ecdh_context
    expired,    \* ECDH_TTL_SECONDS have passed since current was created
    owner,      \* the task that holds _ecdh_lock across an exchange
    sent        \* the replies KMS has pushed to Mercury; never shrinks, so a
                \* reply is lost, delayed, duplicated or overtaken at will

callVars == <<callPc, callUri, callTask, callKey>>
taskVars == <<taskPc, attempt, session, answer, taskKey>>
ecdhVars == <<current, expired, owner>>
vars == <<callVars, keyCache, inflight, taskVars, pending, ecdhVars, sent>>

-----------------------------------------------------------------------------
(* Program counters of a task:                                             *)
(*   start     about to call _get_or_create_ecdh                           *)
(*   lock      waits there for _ecdh_lock                                  *)
(*   info      holds it; awaits user ID and KMS metadata                   *)
(*   xpost     create request registered, HTTP POST outstanding            *)
(*   xwait     POST got 202, awaits the future                             *)
(*   xtimeout  wait_for has timed out, the task has not resumed            *)
(*   user      has its session; awaits the user ID                         *)
(*   rpost, rwait, rtimeout   as above, for the retrieve request           *)
(*   inval     waits for _ecdh_lock in _invalidate_ecdh                    *)
Finished == {"done", "failed", "cancelled"}
Exchanging == {"info", "xpost", "xwait", "xtimeout"}
Posting == {"xpost", "rpost"}
Waiting == {"xwait", "rwait"}
TimedOut == {"xtimeout", "rtimeout"}
Requesting == Posting \cup Waiting \cup TimedOut
TaskPcs == {"none", "start", "lock", "user", "inval"} \cup Exchanging \cup Requesting \cup Finished

Live(t) == taskPc[t] \notin {"none"} \cup Finished
CreateRequest(t) == [task |-> t, attempt |-> attempt[t], method |-> "create"]
RetrieveRequest(t) == [task |-> t, attempt |-> attempt[t], method |-> "retrieve"]
OutstandingRequest(t) ==
    IF taskPc[t] \in Exchanging THEN CreateRequest(t) ELSE RetrieveRequest(t)

FutureDone(t) == answer[t] # None \/ taskPc[t] \in TimedOut

(* The task may resume from wait_for with an answer that has this body.    *)
(* After the timer fired, Python 3.11 still returns the answer and 3.12    *)
(* raises TimeoutError: both are possible.                                 *)
Answered(t, body) ==
    /\ taskPc[t] \in Waiting \cup TimedOut
    /\ answer[t] # None
    /\ answer[t].body = body

-----------------------------------------------------------------------------
Init ==
    /\ callPc = [c \in Calls |-> "idle"]
    /\ callUri = [c \in Calls |-> None]
    /\ callTask = [c \in Calls |-> None]
    /\ callKey = [c \in Calls |-> None]
    /\ keyCache = [u \in Uris |-> None]
    /\ inflight = [u \in Uris |-> None]
    /\ taskPc = [t \in Calls |-> "none"]
    /\ attempt = [t \in Calls |-> 1]
    /\ session = [t \in Calls |-> None]
    /\ answer = [t \in Calls |-> None]
    /\ taskKey = [t \in Calls |-> None]
    /\ pending = {}
    /\ current = None
    /\ expired = FALSE
    /\ owner = None
    /\ sent = {}

-----------------------------------------------------------------------------
(* get_key. Its locks are never held across a suspension, so the call runs *)
(* without interruption up to `await task`.                                *)

CacheHit(u) == CacheEnabled /\ keyCache[u] # None

ReturnCached(c, u) ==
    /\ CacheHit(u)
    /\ callPc' = [callPc EXCEPT ![c] = "done"]
    /\ callKey' = [callKey EXCEPT ![c] = keyCache[u]]
    /\ UNCHANGED <<callTask, inflight, taskPc>>

RejectUri(c, u) ==
    /\ ~CacheHit(u) /\ u \in Malformed
    /\ callPc' = [callPc EXCEPT ![c] = "failed"]
    /\ UNCHANGED <<callTask, callKey, inflight, taskPc>>

JoinTask(c, u) ==
    /\ ~CacheHit(u) /\ u \notin Malformed /\ inflight[u] # None
    /\ callPc' = [callPc EXCEPT ![c] = "await"]
    /\ callTask' = [callTask EXCEPT ![c] = inflight[u]]
    /\ UNCHANGED <<callKey, inflight, taskPc>>

StartTask(c, u) ==
    /\ ~CacheHit(u) /\ u \notin Malformed /\ inflight[u] = None
    /\ callPc' = [callPc EXCEPT ![c] = "await"]
    /\ callTask' = [callTask EXCEPT ![c] = c]
    /\ inflight' = [inflight EXCEPT ![u] = c]
    /\ taskPc' = [taskPc EXCEPT ![c] = "start"]
    /\ UNCHANGED callKey

GetKey(c, u) ==
    /\ callPc[c] = "idle"
    /\ callUri' = [callUri EXCEPT ![c] = u]
    /\ ReturnCached(c, u) \/ RejectUri(c, u) \/ JoinTask(c, u) \/ StartTask(c, u)
    /\ UNCHANGED <<keyCache, attempt, session, answer, taskKey, pending, ecdhVars, sent>>

(* The finally clause: forget the finished task, if it still is the one.   *)
ClearInflightOfOther(c) == inflight' = [inflight EXCEPT ![callUri[c]] = None]
KeepInflight(c) == UNCHANGED inflight
ClearInflight(c) ==
    inflight' = IF inflight[callUri[c]] = callTask[c]
                THEN [inflight EXCEPT ![callUri[c]] = None]
                ELSE inflight

(* A call resumes once its task has finished, and ends as the task did: it *)
(* returns the task's key, raises its exception or is cancelled with it.   *)
ResumeCall(c) ==
    /\ callPc[c] = "await"
    /\ taskPc[callTask[c]] \in Finished
    /\ callPc' = [callPc EXCEPT ![c] = taskPc[callTask[c]]]
    /\ callKey' = [callKey EXCEPT ![c] = taskKey[callTask[c]]]
    /\ ClearInflight(c)
    /\ UNCHANGED <<callUri, callTask, keyCache, taskVars, pending, ecdhVars, sent>>

-----------------------------------------------------------------------------
(* Outcomes shared by the steps of a task.                                 *)

(* finally: _unregister_pending_request                                    *)
KeepRegistered(t) == UNCHANGED pending
UnregisterAll(t) == pending' = {}
Unregister(t) == pending' = pending \ {OutstandingRequest(t)}

(* async with self._ecdh_lock: the lock is released on every way out.      *)
KeepLock(t) == UNCHANGED owner
ReleaseLock(t) == owner' = IF owner = t THEN None ELSE owner

(* Cancelling a call that awaits a running task cancels that task, for all *)
(* who share it: the CancelledError passes every `except Exception`. The   *)
(* call itself then resumes with ResumeCall. A call whose task has already *)
(* finished is cancelled on its own.                                       *)
CancelTaskRegistered(t) ==
    /\ Live(t)
    /\ taskPc' = [taskPc EXCEPT ![t] = "cancelled"]
    /\ answer' = [answer EXCEPT ![t] = None]
    /\ ReleaseLock(t)
    /\ UNCHANGED <<callVars, keyCache, inflight, attempt, session, taskKey, pending, current, expired, sent>>
CancelTask(t) ==
    /\ Live(t)
    /\ taskPc' = [taskPc EXCEPT ![t] = "cancelled"]
    /\ answer' = [answer EXCEPT ![t] = None]
    /\ Unregister(t)
    /\ ReleaseLock(t)
    /\ UNCHANGED <<callVars, keyCache, inflight, attempt, session, taskKey, current, expired, sent>>

CancelLate(c) ==
    /\ taskPc[callTask[c]] \in Finished
    /\ callPc' = [callPc EXCEPT ![c] = "cancelled"]
    /\ ClearInflight(c)
    /\ UNCHANGED <<callUri, callTask, callKey, keyCache, taskVars, pending, ecdhVars, sent>>

CancelCall(c) ==
    /\ callPc[c] = "await"
    /\ CancelTask(callTask[c]) \/ CancelLate(c)

-----------------------------------------------------------------------------
(* _get_or_create_ecdh, _perform_ecdh_exchange and _send_ecdh_request.     *)

(* asyncio.Lock.acquire suspends if the lock is held or others wait for    *)
(* it. Waiters get the lock in any order, which includes asyncio's first-in *)
(* first-out.                                                              *)
Contended(t) ==
    \/ owner # None
    \/ \E s \in Calls \ {t} : taskPc[s] \in {"lock", "inval"}

WaitForLock(t) ==
    /\ taskPc[t] = "start" /\ Contended(t)
    /\ taskPc' = [taskPc EXCEPT ![t] = "lock"]
    /\ UNCHANGED <<callVars, keyCache, inflight, attempt, session, answer, taskKey, pending, ecdhVars, sent>>

GetsHeldLock(t) == taskPc[t] \in {"start", "lock"}
GetsLock(t) ==
    \/ taskPc[t] = "start" /\ ~Contended(t)
    \/ taskPc[t] = "lock" /\ owner = None

(* A context that is still valid is used; the lock is released again       *)
(* without a suspension.                                                   *)
ReuseSession(t) ==
    /\ GetsLock(t)
    /\ current # None /\ ~expired
    /\ session' = [session EXCEPT ![t] = current]
    /\ taskPc' = [taskPc EXCEPT ![t] = "user"]
    /\ UNCHANGED <<callVars, keyCache, inflight, attempt, answer, taskKey, pending, ecdhVars, sent>>

(* No context, or an expired one: the lock is kept for the exchange.       *)
BeginExchange(t) ==
    /\ GetsLock(t)
    /\ current = None \/ expired
    /\ current' = None
    /\ expired' = FALSE
    /\ owner' = t
    /\ taskPc' = [taskPc EXCEPT ![t] = "info"]
    /\ UNCHANGED <<callVars, keyCache, inflight, attempt, session, answer, taskKey, pending, sent>>

(* The create request is registered before it is posted.                   *)
SendCreate(t) ==
    /\ taskPc[t] = "info"
    /\ pending' = pending \cup {CreateRequest(t)}
    /\ taskPc' = [taskPc EXCEPT ![t] = "xpost"]
    /\ UNCHANGED <<callVars, keyCache, inflight, attempt, session, answer, taskKey, ecdhVars, sent>>

(* The reply came with the HTTP response or was awaited; the shared secret *)
(* is derived and the context published.                                   *)
Establish(t) ==
    /\ taskPc[t] = "xpost" \/ (taskPc[t] \in Exchanging /\ Answered(t, "key"))
    /\ current' = CreateRequest(t)
    /\ expired' = FALSE
    /\ session' = [session EXCEPT ![t] = CreateRequest(t)]
    /\ answer' = [answer EXCEPT ![t] = None]
    /\ taskPc' = [taskPc EXCEPT ![t] = "user"]
    /\ Unregister(t)
    /\ ReleaseLock(t)
    /\ UNCHANGED <<callVars, keyCache, inflight, attempt, taskKey, sent>>

(* No metadata, an HTTP error, a reply without the EC key (whatever its    *)
(* status) or a timeout: _retrieve_key_via_ecdh does not catch it, in      *)
(* either attempt.                                                         *)
FailExchange(t) ==
    /\ \/ taskPc[t] \in {"info", "xpost", "xtimeout"}
       \/ taskPc[t] \in Exchanging /\ (Answered(t, "noKey") \/ Answered(t, "badStatus"))
    /\ taskPc' = [taskPc EXCEPT ![t] = "failed"]
    /\ answer' = [answer EXCEPT ![t] = None]
    /\ Unregister(t)
    /\ ReleaseLock(t)
    /\ UNCHANGED <<callVars, keyCache, inflight, attempt, session, taskKey, current, expired, sent>>

-----------------------------------------------------------------------------
(* _do_kms_retrieve and the retry in _retrieve_key_via_ecdh.               *)

SendRetrieve(t) ==
    /\ taskPc[t] = "user"
    /\ pending' = pending \cup {RetrieveRequest(t)}
    /\ taskPc' = [taskPc EXCEPT ![t] = "rpost"]
    /\ UNCHANGED <<callVars, keyCache, inflight, attempt, session, answer, taskKey, ecdhVars, sent>>

(* _send_kms_message: the POST of either request is answered with 202.     *)
KmsAccepts(t) ==
    /\ taskPc[t] \in Posting
    /\ taskPc' = [taskPc EXCEPT ![t] = IF @ = "xpost" THEN "xwait" ELSE "rwait"]
    /\ UNCHANGED <<callVars, keyCache, inflight, attempt, session, answer, taskKey, pending, ecdhVars, sent>>

(* The timer of wait_for fires. An unanswered future is cancelled by it;   *)
(* an answered one may not have been read yet.                             *)
TimerFires(t) ==
    /\ taskPc[t] \in Waiting
    /\ taskPc' = [taskPc EXCEPT ![t] = IF @ = "xwait" THEN "xtimeout" ELSE "rtimeout"]
    /\ UNCHANGED <<callVars, keyCache, inflight, attempt, session, answer, taskKey, pending, ecdhVars, sent>>

(* _retrieve_and_cache_key stores the key under the URI asked for.         *)
StoreUnlessEnabled(u, key) == keyCache' = IF CacheEnabled THEN keyCache ELSE [keyCache EXCEPT ![u] = key]
StoreKey(u, key) == keyCache' = IF CacheEnabled THEN [keyCache EXCEPT ![u] = key] ELSE keyCache

(* The key came with the HTTP response or was awaited.                     *)
Succeed(t) ==
    /\ taskPc[t] = "rpost" \/ (taskPc[t] \in Requesting \ Exchanging /\ Answered(t, "key"))
    /\ LET key == IF taskPc[t] = "rpost" THEN callUri[t] ELSE callUri[answer[t].request.task]
       IN  /\ taskKey' = [taskKey EXCEPT ![t] = key]
           /\ StoreKey(callUri[t], key)
    /\ taskPc' = [taskPc EXCEPT ![t] = "done"]
    /\ answer' = [answer EXCEPT ![t] = None]
    /\ Unregister(t)
    /\ UNCHANGED <<callVars, inflight, attempt, session, ecdhVars, sent>>

(* What the first and the second attempt do with an exception: the first   *)
(* goes on at `next`, the second surfaces it.                              *)
RetryAgain(t, next) ==
    /\ taskPc' = [taskPc EXCEPT ![t] = IF attempt[t] <= 2 THEN next ELSE "failed"]
    /\ attempt' = [attempt EXCEPT ![t] = @ + 1]
    /\ answer' = [answer EXCEPT ![t] = None]
    /\ Unregister(t)
    /\ UNCHANGED <<callVars, keyCache, inflight, session, taskKey, owner, sent>>
RetryOrFail(t, next) ==
    /\ taskPc' = [taskPc EXCEPT ![t] = IF attempt[t] = 1 THEN next ELSE "failed"]
    /\ attempt' = [attempt EXCEPT ![t] = 2]
    /\ answer' = [answer EXCEPT ![t] = None]
    /\ Unregister(t)
    /\ UNCHANGED <<callVars, keyCache, inflight, session, taskKey, owner, sent>>

(* _invalidate_ecdh clears whichever context is cached.                    *)
ForgetToClear == UNCHANGED <<current, expired>>
ClearSession == current' = None /\ expired' = FALSE
KeepSession == UNCHANGED <<current, expired>>

(* _is_ecdh_session_error: the HTTP status or the KMS status of the reply  *)
(* is not a success ("failed with status ..."). The first attempt goes on  *)
(* to _invalidate_ecdh, which may have to wait for _ecdh_lock.             *)
SessionError(t) ==
    /\ taskPc[t] = "rpost" \/ (taskPc[t] \in Requesting \ Exchanging /\ Answered(t, "badStatus"))
    /\ RetryOrFail(t, IF Contended(t) THEN "inval" ELSE "start")
    /\ IF attempt[t] = 1 /\ ~Contended(t) THEN ClearSession ELSE KeepSession

(* Any other exception: network, user ID, undecryptable or keyless reply,  *)
(* timeout. The retry reuses the same context.                             *)
OtherError(t) ==
    /\ \/ taskPc[t] \in {"user", "rpost", "rtimeout"}
       \/ taskPc[t] \in Requesting \ Exchanging /\ Answered(t, "noKey")
    /\ RetryOrFail(t, "user")
    /\ KeepSession

(* The same, once the lock is free.                                        *)
Invalidate(t) ==
    /\ taskPc[t] = "inval" /\ owner = None
    /\ ClearSession
    /\ taskPc' = [taskPc EXCEPT ![t] = "start"]
    /\ UNCHANGED <<callVars, keyCache, inflight, attempt, session, answer, taskKey, pending, owner, sent>>

-----------------------------------------------------------------------------
(* process_kms_messages, one message at a time. A create reply is sealed   *)
(* for the private key of its request, which is registered with it; any    *)
(* other message for the session that its request was wrapped with.        *)

Readable(m) ==
    IF m.request.method = "create"
    THEN m.request \in pending
    ELSE current # None /\ m.session = current

(* The registered requests whose future m resolves: its own, if the future *)
(* is not done.                                                            *)
ResolvesAnyPending(m) == {r \in pending : r.method = m.request.method /\ ~FutureDone(r.task)}
Resolves(m) == {r \in pending : r = m.request /\ ~FutureDone(r.task)}

(* The registration is popped. A reply that resolves no future is taken    *)
(* for an unsolicited message and its key cached.                          *)
Deliver(m) ==
    LET u == callUri[m.request.task]
        caches == Resolves(m) = {} /\ m.request.method = "retrieve" /\ m.body = "key"
    IN  /\ Readable(m)
        /\ pending' = pending \ {m.request}
        /\ answer' = [t \in Calls |-> IF \E r \in Resolves(m) : r.task = t THEN m ELSE answer[t]]
        /\ keyCache' = IF caches THEN [keyCache EXCEPT ![u] = u] ELSE keyCache
        /\ UNCHANGED <<callVars, inflight, taskPc, attempt, session, taskKey, ecdhVars, sent>>

(* An unsolicited message that the current context decrypts.               *)
CacheUnsolicited(u) ==
    /\ current # None
    /\ keyCache' = [keyCache EXCEPT ![u] = u]
    /\ UNCHANGED <<callVars, inflight, taskVars, pending, ecdhVars, sent>>

-----------------------------------------------------------------------------
(* The environment.                                                        *)

(* KMS has received an outstanding request, perhaps before the response to *)
(* the POST is back, and pushes a reply to Mercury. It answers a request   *)
(* with one body. Answering later than this is the same as this and a      *)
(* later Deliver.                                                          *)
KmsReplies(t, body) ==
    /\ taskPc[t] \in Requesting
    /\ \A m \in sent : m.request # OutstandingRequest(t)
    /\ Cardinality(sent) < MaxPushes
    /\ sent' = sent \cup {[request |-> OutstandingRequest(t),
                           session |-> IF taskPc[t] \in Exchanging THEN None ELSE session[t],
                           body    |-> body]}
    /\ UNCHANGED <<callVars, keyCache, inflight, taskVars, pending, ecdhVars>>

(* The TTL is only looked at in _get_or_create_ecdh.                       *)
ExpireSession ==
    /\ current # None /\ ~expired
    /\ expired' = TRUE
    /\ UNCHANGED <<callVars, keyCache, inflight, taskVars, pending, current, owner, sent>>

-----------------------------------------------------------------------------
(* What the task does when nothing but the loop and the HTTP client, whose *)
(* requests time out, is waited for.                                       *)
TaskStep(t) ==
    \/ WaitForLock(t) \/ ReuseSession(t) \/ BeginExchange(t)
    \/ SendCreate(t) \/ Establish(t) \/ FailExchange(t)
    \/ SendRetrieve(t) \/ KmsAccepts(t) \/ TimerFires(t)
    \/ Succeed(t) \/ SessionError(t) \/ OtherError(t) \/ Invalidate(t)

Environment ==
    \/ \E c \in Calls : CancelCall(c)
    \/ \E m \in sent : Deliver(m)
    \/ \E u \in Uris : CacheUnsolicited(u)
    \/ \E t \in Calls, b \in Bodies : KmsReplies(t, b)
    \/ ExpireSession

Next ==
    \/ \E c \in Calls, u \in Uris : GetKey(c, u)
    \/ \E c \in Calls : ResumeCall(c)
    \/ \E t \in Calls : TaskStep(t)
    \/ Environment

Spec == Init /\ [][Next]_vars

(* The loop runs every ready task, HTTP requests end (request_url has a    *)
(* timeout), and timers fire. Nothing is assumed of KMS, of Mercury or of  *)
(* the callers.                                                            *)
Fairness ==
    /\ \A t \in Calls : WF_vars(TaskStep(t))
    /\ \A c \in Calls : WF_vars(ResumeCall(c))

FairSpec == Spec /\ Fairness

-----------------------------------------------------------------------------
(* Properties.                                                             *)

(* The types of the state: a cached key and a call refer to URIs, tasks to *)
(* calls, sessions to the create requests that established them.           *)
TypeOK ==
    /\ callPc \in [Calls -> {"idle", "await", "done", "failed", "cancelled"}]
    /\ callUri \in [Calls -> Uris \cup {None}]
    /\ callTask \in [Calls -> Calls \cup {None}]
    /\ callKey \in [Calls -> Uris \cup {None}]
    /\ keyCache \in [Uris -> Uris \cup {None}]
    /\ inflight \in [Uris -> Calls \cup {None}]
    /\ taskPc \in [Calls -> TaskPcs]
    /\ attempt \in [Calls -> Attempts]
    /\ session \in [Calls -> Sessions \cup {None}]
    /\ answer \in [Calls -> Reply \cup {None}]
    /\ taskKey \in [Calls -> Uris \cup {None}]
    /\ pending \subseteq Request
    /\ current \in Sessions \cup {None}
    /\ expired \in BOOLEAN
    /\ owner \in Calls \cup {None}
    /\ sent \subseteq Reply

(* Coalescing: a URI has at most one retrieval under way, and it is the    *)
(* one that a new get_key would join, however calls end, are cancelled and *)
(* clear the entry (the `is task` test of get_key's finally clause).       *)
SingleFlight == \A t \in Calls : Live(t) => inflight[callUri[t]] = t

(* Late, duplicated and crossed replies never give a caller, or leave in   *)
(* the cache, the key of another URI.                                      *)
KeyMatchesUri ==
    /\ \A u \in Uris : keyCache[u] \in {None, u}
    /\ \A c \in Calls : callPc[c] = "done" => callKey[c] = callUri[c]

(* No way out of a request, be it a reply, an error, a timeout or a        *)
(* cancellation, leaves its registration behind in _pending_requests.      *)
PendingOwned ==
    \A r \in pending : taskPc[r.task] \in Requesting /\ r = OutstandingRequest(r.task)

(* A task that waits for KMS can be reached by the reply: its request      *)
(* is registered from before the POST until the future is done.            *)
AwaitedIsRegistered ==
    \A t \in Calls :
        taskPc[t] \in Posting \cup Waiting /\ ~FutureDone(t) => OutstandingRequest(t) \in pending

(* The future of a request is only resolved by the reply to that request,  *)
(* and never twice with different replies.                                 *)
AnswerCorrelated ==
    \A t \in Calls : answer[t] # None =>
        taskPc[t] \in Requesting /\ answer[t].request = OutstandingRequest(t)

(* _ecdh_lock is held exactly by the task that exchanges keys with KMS, so *)
(* there is one exchange at a time; meanwhile nobody can pick a context.   *)
ExchangeExclusive ==
    /\ \A t \in Calls : taskPc[t] \in Exchanging <=> owner = t
    /\ owner # None => current = None

(* After a session error the context that failed is gone for good: the     *)
(* retry of _retrieve_key_via_ecdh cannot pick it up again, whatever the   *)
(* other tasks established in between.                                     *)
FailedSessionGone ==
    \A t \in Calls : taskPc[t] \in {"start", "lock"} /\ attempt[t] = 2 => session[t] # current

(* With the cache on, a key that was retrieved once is not retrieved       *)
(* again: there is no moment between the end of a task and the next        *)
(* get_key in which neither the cache nor the inflight table knows it.     *)
NoRefetch ==
    [][\A s, t \in Calls :
         CacheEnabled /\ taskPc[s] = "done" /\ taskPc[t] = "none" /\ taskPc'[t] # "none"
            => callUri[s] # callUri'[t]]_vars

(* A call that waits comes to an end without any help from KMS or Mercury: *)
(* every timeout, retry and lock is released in the end.                   *)
EveryCallEnds == \A c \in Calls : callPc[c] = "await" ~> callPc[c] # "await"

-----------------------------------------------------------------------------
(* What makes the safety properties inductive.                             *)

(* A call that waits, and an entry of _inflight_keys, point to a task for  *)
(* their own URI; the call that started the task of an entry still waits   *)
(* (whoever ends first removes the entry). A finished task returned the    *)
(* key of its own URI and left a key for it in the cache.                  *)
CallsAttached ==
    /\ \A c \in Calls : callPc[c] = "idle" => taskPc[c] = "none"
    /\ \A c \in Calls : callPc[c] # "idle" => callUri[c] \in Uris
    /\ \A c \in Calls : callPc[c] = "await" =>
         /\ callTask[c] \in Calls
         /\ taskPc[callTask[c]] # "none"
         /\ callUri[callTask[c]] = callUri[c]
    /\ \A u \in Uris : inflight[u] # None =>
         /\ callUri[inflight[u]] = u
         /\ callPc[inflight[u]] = "await" /\ callTask[inflight[u]] = inflight[u]
    /\ \A c \in Calls : callPc[c] \in {"idle", "await"} => callKey[c] = None
    /\ \A t \in Calls : taskPc[t] # "done" => taskKey[t] = None
    /\ \A t \in Calls : taskPc[t] = "done" =>
         /\ taskKey[t] = callUri[t]
         /\ CacheEnabled => keyCache[callUri[t]] # None

(* The create request x is behind its task, so that no later request of    *)
(* the task can be taken for it.                                           *)
Past(x) ==
    \/ x.attempt = 1 /\ attempt[x.task] = 2
    \/ /\ x.attempt = attempt[x.task]
       /\ taskPc[x.task] \notin {"none", "start", "lock", "inval"} \cup Exchanging

(* Every context in use was established by a request of the past, and a    *)
(* task that sent a retrieve request has used one.                         *)
SessionsPast ==
    /\ current # None => Past(current)
    /\ \A t \in Calls : session[t] # None => Past(session[t])
    /\ \A t \in Calls :
         taskPc[t] \in {"user", "inval", "rpost", "rwait", "rtimeout"} \/ attempt[t] = 2
            => session[t] # None
    /\ \A t \in Calls : taskPc[t] = "inval" => attempt[t] = 2
    /\ \A t \in Calls : taskPc[t] = "none" => attempt[t] = 1

(* The inductive invariant.                                                *)
IInv ==
    /\ TypeOK /\ CallsAttached
    /\ PendingOwned /\ AwaitedIsRegistered /\ AnswerCorrelated
    /\ ExchangeExclusive
    /\ SingleFlight /\ KeyMatchesUri
    /\ SessionsPast /\ FailedSessionGone

-----------------------------------------------------------------------------
(* What the documents say, and the code does not do.                       *)

(* message-flows.svg: after a 202 the client waits for the requestId       *)
(* future and process_kms_messages resolves it. But only the current       *)
(* context is tried, so the reply to a registered retrieve request is      *)
(* dropped when its context expired or was invalidated in between.         *)
ReplyToPendingIsReadable ==
    \A m \in sent : m.request \in pending => Readable(m)

=============================================================================
