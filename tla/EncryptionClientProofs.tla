------------------------ MODULE EncryptionClientProofs ------------------------
(***************************************************************************)
(* The safety properties of EncryptionClient for any set of calls and URIs *)
(* and any number of KMS replies. IInv is inductive: one lemma per action  *)
(* shows that the action preserves it, in five steps:                      *)
(*   types and attachment of calls to tasks;                               *)
(*   the table of pending requests and the answers to them;                *)
(*   the lock and the exchange;                                            *)
(*   coalescing and keys, which rest on the first two;                     *)
(*   the sessions, which rest on the first and the third.                  *)
(***************************************************************************)
EXTENDS EncryptionClient, TLAPS

USE MalformedAssumption, CacheAssumption, NoneAssumption, NoneIsNoRecord
USE DEF Exchanging, Posting, Waiting, TimedOut, Requesting, Finished, callVars, taskVars, ecdhVars

(* get_key serves a cached key, which KeyMatchesUri says is the right      *)
(* one.                                                                    *)
LEMMA ReturnCachedStep ==
    ASSUME IInv, NEW c \in Calls, NEW u \in Uris, GetKey(c, u), ReturnCached(c, u)
    PROVE  IInv'
<1>. USE DEF IInv
<1>1. TypeOK' /\ CallsAttached'
  <2>1. TypeOK'
    BY DEF TypeOK, TaskPcs, GetKey, ReturnCached, CacheHit
  <2>2. CallsAttached'
    BY DEF TypeOK, CallsAttached, GetKey, ReturnCached, CacheHit
  <2>. QED BY <2>1, <2>2
<1>2. PendingOwned' /\ AwaitedIsRegistered' /\ AnswerCorrelated'
  BY DEF TypeOK, CallsAttached, PendingOwned, AwaitedIsRegistered, AnswerCorrelated,
     FutureDone, OutstandingRequest, CreateRequest, RetrieveRequest, Request, GetKey,
     ReturnCached, CacheHit
<1>3. ExchangeExclusive'
  BY DEF TypeOK, CallsAttached, ExchangeExclusive, GetKey, ReturnCached, CacheHit
<1>4. SingleFlight' /\ KeyMatchesUri'
  BY DEF TypeOK, CallsAttached, AnswerCorrelated, OutstandingRequest, RetrieveRequest,
     CreateRequest, SingleFlight, KeyMatchesUri, Live, GetKey, ReturnCached, CacheHit
<1>5. SessionsPast' /\ FailedSessionGone'
  BY DEF TypeOK, CallsAttached, ExchangeExclusive, SessionsPast, FailedSessionGone,
     Past, Sessions, CreateRequest, Attempts, GetKey, ReturnCached, CacheHit
<1>. QED BY <1>1, <1>2, <1>3, <1>4, <1>5

(* get_key raises for a malformed URI and starts nothing.                  *)
LEMMA RejectUriStep ==
    ASSUME IInv, NEW c \in Calls, NEW u \in Uris, GetKey(c, u), RejectUri(c, u)
    PROVE  IInv'
<1>. USE DEF IInv
<1>1. TypeOK' /\ CallsAttached'
  <2>1. TypeOK'
    BY DEF TypeOK, TaskPcs, GetKey, RejectUri
  <2>2. CallsAttached'
    BY DEF TypeOK, CallsAttached, GetKey, RejectUri
  <2>. QED BY <2>1, <2>2
<1>2. PendingOwned' /\ AwaitedIsRegistered' /\ AnswerCorrelated'
  BY DEF TypeOK, CallsAttached, PendingOwned, AwaitedIsRegistered, AnswerCorrelated,
     FutureDone, OutstandingRequest, CreateRequest, RetrieveRequest, Request, GetKey,
     RejectUri
<1>3. ExchangeExclusive'
  BY DEF TypeOK, CallsAttached, ExchangeExclusive, GetKey, RejectUri
<1>4. SingleFlight' /\ KeyMatchesUri'
  BY DEF TypeOK, CallsAttached, AnswerCorrelated, OutstandingRequest, RetrieveRequest,
     CreateRequest, SingleFlight, KeyMatchesUri, Live, GetKey, RejectUri
<1>5. SessionsPast' /\ FailedSessionGone'
  BY DEF TypeOK, CallsAttached, ExchangeExclusive, SessionsPast, FailedSessionGone,
     Past, Sessions, CreateRequest, Attempts, GetKey, RejectUri
<1>. QED BY <1>1, <1>2, <1>3, <1>4, <1>5

(* A joining call is attached to a task for its own URI.                   *)
LEMMA JoinTaskStep ==
    ASSUME IInv, NEW c \in Calls, NEW u \in Uris, GetKey(c, u), JoinTask(c, u)
    PROVE  IInv'
<1>. USE DEF IInv
<1>1. TypeOK' /\ CallsAttached'
  <2>1. TypeOK'
    BY DEF TypeOK, TaskPcs, GetKey, JoinTask
  <2>2. CallsAttached'
    BY DEF TypeOK, CallsAttached, GetKey, JoinTask
  <2>. QED BY <2>1, <2>2
<1>2. PendingOwned' /\ AwaitedIsRegistered' /\ AnswerCorrelated'
  BY DEF TypeOK, CallsAttached, PendingOwned, AwaitedIsRegistered, AnswerCorrelated,
     FutureDone, OutstandingRequest, CreateRequest, RetrieveRequest, Request, GetKey,
     JoinTask
<1>3. ExchangeExclusive'
  BY DEF TypeOK, CallsAttached, ExchangeExclusive, GetKey, JoinTask
<1>4. SingleFlight' /\ KeyMatchesUri'
  BY DEF TypeOK, CallsAttached, AnswerCorrelated, OutstandingRequest, RetrieveRequest,
     CreateRequest, SingleFlight, KeyMatchesUri, Live, GetKey, JoinTask
<1>5. SessionsPast' /\ FailedSessionGone'
  BY DEF TypeOK, CallsAttached, ExchangeExclusive, SessionsPast, FailedSessionGone,
     Past, Sessions, CreateRequest, Attempts, GetKey, JoinTask
<1>. QED BY <1>1, <1>2, <1>3, <1>4, <1>5

(* A new task is the only one of its URI: with no entry in the inflight    *)
(* table there is no live task (SingleFlight).                             *)
LEMMA StartTaskStep ==
    ASSUME IInv, NEW c \in Calls, NEW u \in Uris, GetKey(c, u), StartTask(c, u)
    PROVE  IInv'
<1>. USE DEF IInv
<1>1. TypeOK' /\ CallsAttached'
  <2>1. TypeOK'
    BY DEF TypeOK, TaskPcs, GetKey, StartTask
  <2>2. CallsAttached'
    BY DEF TypeOK, CallsAttached, GetKey, StartTask
  <2>. QED BY <2>1, <2>2
<1>2. PendingOwned' /\ AwaitedIsRegistered' /\ AnswerCorrelated'
  BY DEF TypeOK, CallsAttached, PendingOwned, AwaitedIsRegistered, AnswerCorrelated,
     FutureDone, OutstandingRequest, CreateRequest, RetrieveRequest, Request, GetKey,
     StartTask
<1>3. ExchangeExclusive'
  BY DEF TypeOK, CallsAttached, ExchangeExclusive, GetKey, StartTask
<1>4. SingleFlight' /\ KeyMatchesUri'
  BY DEF TypeOK, CallsAttached, AnswerCorrelated, OutstandingRequest, RetrieveRequest,
     CreateRequest, SingleFlight, KeyMatchesUri, Live, GetKey, StartTask
<1>5. SessionsPast' /\ FailedSessionGone'
  BY DEF TypeOK, CallsAttached, ExchangeExclusive, SessionsPast, FailedSessionGone,
     Past, Sessions, CreateRequest, Attempts, GetKey, StartTask
<1>. QED BY <1>1, <1>2, <1>3, <1>4, <1>5

(* The first call to resume clears the entry, later ones leave a newer     *)
(* task's entry alone.                                                     *)
LEMMA ResumeCallStep == ASSUME IInv, NEW c \in Calls, ResumeCall(c) PROVE IInv'
<1>. USE DEF IInv
<1>1. TypeOK' /\ CallsAttached'
  <2>1. TypeOK'
    BY DEF TypeOK, TaskPcs, CallsAttached, ResumeCall, ClearInflight
  <2>2. CallsAttached'
    BY DEF TypeOK, CallsAttached, ResumeCall, ClearInflight
  <2>. QED BY <2>1, <2>2
<1>2. PendingOwned' /\ AwaitedIsRegistered' /\ AnswerCorrelated'
  BY DEF TypeOK, CallsAttached, PendingOwned, AwaitedIsRegistered, AnswerCorrelated,
     FutureDone, OutstandingRequest, CreateRequest, RetrieveRequest, Request,
     ResumeCall, ClearInflight
<1>3. ExchangeExclusive'
  BY DEF TypeOK, CallsAttached, ExchangeExclusive, ResumeCall, ClearInflight
<1>4. SingleFlight' /\ KeyMatchesUri'
  BY DEF TypeOK, CallsAttached, AnswerCorrelated, OutstandingRequest, RetrieveRequest,
     CreateRequest, SingleFlight, KeyMatchesUri, Live, ResumeCall, ClearInflight
<1>5. SessionsPast' /\ FailedSessionGone'
  BY DEF TypeOK, CallsAttached, ExchangeExclusive, SessionsPast, FailedSessionGone,
     Past, Sessions, CreateRequest, Attempts, ResumeCall, ClearInflight
<1>. QED BY <1>1, <1>2, <1>3, <1>4, <1>5

(* A cancelled task takes its registration and the lock with it.           *)
LEMMA CancelTaskStep == ASSUME IInv, NEW t \in Calls, CancelTask(t) PROVE IInv'
<1>. USE DEF IInv
<1>1. TypeOK' /\ CallsAttached'
  <2>1. TypeOK'
    BY DEF TypeOK, TaskPcs, CancelTask, Unregister, ReleaseLock
  <2>2. CallsAttached'
    BY DEF TypeOK, CallsAttached, Live, CancelTask, Unregister, ReleaseLock
  <2>. QED BY <2>1, <2>2
<1>2. PendingOwned' /\ AwaitedIsRegistered' /\ AnswerCorrelated'
  BY DEF TypeOK, CallsAttached, PendingOwned, AwaitedIsRegistered, AnswerCorrelated,
     FutureDone, OutstandingRequest, CreateRequest, RetrieveRequest, Request,
     CancelTask, Unregister, ReleaseLock
<1>3. ExchangeExclusive'
  BY DEF TypeOK, CallsAttached, ExchangeExclusive, CancelTask, Unregister, ReleaseLock
<1>4. SingleFlight' /\ KeyMatchesUri'
  BY DEF TypeOK, CallsAttached, AnswerCorrelated, OutstandingRequest, RetrieveRequest,
     CreateRequest, SingleFlight, KeyMatchesUri, Live, CancelTask, Unregister,
     ReleaseLock
<1>5. SessionsPast' /\ FailedSessionGone'
  BY DEF TypeOK, CallsAttached, ExchangeExclusive, SessionsPast, FailedSessionGone,
     Past, Sessions, CreateRequest, Attempts, CancelTask, Unregister, ReleaseLock
<1>. QED BY <1>1, <1>2, <1>3, <1>4, <1>5

(* Cancelling a call whose task has finished clears the entry as           *)
(* ResumeCall does.                                                        *)
LEMMA CancelLateStep ==
    ASSUME IInv, NEW c \in Calls, CancelCall(c), CancelLate(c)
    PROVE  IInv'
<1>. USE DEF IInv
<1>1. TypeOK' /\ CallsAttached'
  <2>1. TypeOK'
    BY DEF TypeOK, TaskPcs, CallsAttached, CancelCall, CancelLate, ClearInflight
  <2>2. CallsAttached'
    BY DEF TypeOK, CallsAttached, CancelCall, CancelLate, ClearInflight
  <2>. QED BY <2>1, <2>2
<1>2. PendingOwned' /\ AwaitedIsRegistered' /\ AnswerCorrelated'
  BY DEF TypeOK, CallsAttached, PendingOwned, AwaitedIsRegistered, AnswerCorrelated,
     FutureDone, OutstandingRequest, CreateRequest, RetrieveRequest, Request,
     CancelCall, CancelLate, ClearInflight
<1>3. ExchangeExclusive'
  BY DEF TypeOK, CallsAttached, ExchangeExclusive, CancelCall, CancelLate,
     ClearInflight
<1>4. SingleFlight' /\ KeyMatchesUri'
  BY DEF TypeOK, CallsAttached, AnswerCorrelated, OutstandingRequest, RetrieveRequest,
     CreateRequest, SingleFlight, KeyMatchesUri, Live, CancelCall, CancelLate,
     ClearInflight
<1>5. SessionsPast' /\ FailedSessionGone'
  BY DEF TypeOK, CallsAttached, ExchangeExclusive, SessionsPast, FailedSessionGone,
     Past, Sessions, CreateRequest, Attempts, CancelCall, CancelLate, ClearInflight
<1>. QED BY <1>1, <1>2, <1>3, <1>4, <1>5

(* Waiting for the lock changes nothing that is shared.                    *)
LEMMA WaitForLockStep == ASSUME IInv, NEW t \in Calls, WaitForLock(t) PROVE IInv'
<1>. USE DEF IInv
<1>1. TypeOK' /\ CallsAttached'
  <2>1. TypeOK'
    BY DEF TypeOK, TaskPcs, WaitForLock
  <2>2. CallsAttached'
    BY DEF TypeOK, CallsAttached, WaitForLock
  <2>. QED BY <2>1, <2>2
<1>2. PendingOwned' /\ AwaitedIsRegistered' /\ AnswerCorrelated'
  BY DEF TypeOK, CallsAttached, PendingOwned, AwaitedIsRegistered, AnswerCorrelated,
     FutureDone, OutstandingRequest, CreateRequest, RetrieveRequest, Request,
     WaitForLock
<1>3. ExchangeExclusive'
  BY DEF TypeOK, CallsAttached, ExchangeExclusive, WaitForLock
<1>4. SingleFlight' /\ KeyMatchesUri'
  BY DEF TypeOK, CallsAttached, AnswerCorrelated, OutstandingRequest, RetrieveRequest,
     CreateRequest, SingleFlight, KeyMatchesUri, Live, WaitForLock
<1>5. SessionsPast' /\ FailedSessionGone'
  BY DEF TypeOK, CallsAttached, ExchangeExclusive, SessionsPast, FailedSessionGone,
     Past, Sessions, CreateRequest, Attempts, WaitForLock
<1>. QED BY <1>1, <1>2, <1>3, <1>4, <1>5

(* A retry that finds a context finds another one than the one that        *)
(* failed (FailedSessionGone).                                             *)
LEMMA ReuseSessionStep == ASSUME IInv, NEW t \in Calls, ReuseSession(t) PROVE IInv'
<1>. USE DEF IInv
<1>1. TypeOK' /\ CallsAttached'
  <2>1. TypeOK'
    BY DEF TypeOK, TaskPcs, ReuseSession, GetsLock
  <2>2. CallsAttached'
    BY DEF TypeOK, CallsAttached, ReuseSession, GetsLock
  <2>. QED BY <2>1, <2>2
<1>2. PendingOwned' /\ AwaitedIsRegistered' /\ AnswerCorrelated'
  BY DEF TypeOK, CallsAttached, PendingOwned, AwaitedIsRegistered, AnswerCorrelated,
     FutureDone, OutstandingRequest, CreateRequest, RetrieveRequest, Request,
     ReuseSession, GetsLock
<1>3. ExchangeExclusive'
  BY DEF TypeOK, CallsAttached, ExchangeExclusive, ReuseSession, GetsLock
<1>4. SingleFlight' /\ KeyMatchesUri'
  BY DEF TypeOK, CallsAttached, AnswerCorrelated, OutstandingRequest, RetrieveRequest,
     CreateRequest, SingleFlight, KeyMatchesUri, Live, ReuseSession, GetsLock
<1>5. SessionsPast' /\ FailedSessionGone'
  BY DEF TypeOK, CallsAttached, ExchangeExclusive, SessionsPast, FailedSessionGone,
     Past, Sessions, CreateRequest, Attempts, ReuseSession, GetsLock
<1>. QED BY <1>1, <1>2, <1>3, <1>4, <1>5

(* The lock was free, so nobody else exchanges; the cached context is      *)
(* dropped.                                                                *)
LEMMA BeginExchangeStep == ASSUME IInv, NEW t \in Calls, BeginExchange(t) PROVE IInv'
<1>. USE DEF IInv
<1>1. TypeOK' /\ CallsAttached'
  <2>1. TypeOK'
    BY DEF TypeOK, TaskPcs, BeginExchange, GetsLock, Contended
  <2>2. CallsAttached'
    BY DEF TypeOK, CallsAttached, BeginExchange, GetsLock, Contended
  <2>. QED BY <2>1, <2>2
<1>2. PendingOwned' /\ AwaitedIsRegistered' /\ AnswerCorrelated'
  BY DEF TypeOK, CallsAttached, PendingOwned, AwaitedIsRegistered, AnswerCorrelated,
     FutureDone, OutstandingRequest, CreateRequest, RetrieveRequest, Request,
     BeginExchange, GetsLock, Contended
<1>3. ExchangeExclusive'
  BY DEF TypeOK, CallsAttached, ExchangeExclusive, BeginExchange, GetsLock, Contended
<1>4. SingleFlight' /\ KeyMatchesUri'
  BY DEF TypeOK, CallsAttached, AnswerCorrelated, OutstandingRequest, RetrieveRequest,
     CreateRequest, SingleFlight, KeyMatchesUri, Live, BeginExchange, GetsLock,
     Contended
<1>5. SessionsPast' /\ FailedSessionGone'
  BY DEF TypeOK, CallsAttached, ExchangeExclusive, SessionsPast, FailedSessionGone,
     Past, Sessions, CreateRequest, Attempts, BeginExchange, GetsLock, Contended
<1>. QED BY <1>1, <1>2, <1>3, <1>4, <1>5

(* The create request is registered before it is posted.                   *)
LEMMA SendCreateStep == ASSUME IInv, NEW t \in Calls, SendCreate(t) PROVE IInv'
<1>. USE DEF IInv
<1>1. TypeOK' /\ CallsAttached'
  <2>1. TypeOK'
    BY DEF TypeOK, TaskPcs, Request, CreateRequest, SendCreate
  <2>2. CallsAttached'
    BY DEF TypeOK, CallsAttached, SendCreate
  <2>. QED BY <2>1, <2>2
<1>2. PendingOwned' /\ AwaitedIsRegistered' /\ AnswerCorrelated'
  BY DEF TypeOK, CallsAttached, PendingOwned, AwaitedIsRegistered, AnswerCorrelated,
     FutureDone, OutstandingRequest, CreateRequest, RetrieveRequest, Request,
     SendCreate
<1>3. ExchangeExclusive'
  BY DEF TypeOK, CallsAttached, ExchangeExclusive, SendCreate
<1>4. SingleFlight' /\ KeyMatchesUri'
  BY DEF TypeOK, CallsAttached, AnswerCorrelated, OutstandingRequest, RetrieveRequest,
     CreateRequest, SingleFlight, KeyMatchesUri, Live, SendCreate
<1>5. SessionsPast' /\ FailedSessionGone'
  BY DEF TypeOK, CallsAttached, ExchangeExclusive, SessionsPast, FailedSessionGone,
     Past, Sessions, CreateRequest, Attempts, SendCreate
<1>. QED BY <1>1, <1>2, <1>3, <1>4, <1>5

(* The new context is none that any task used before, for the requests of  *)
(* the past are over (SessionsPast).                                       *)
LEMMA EstablishStep == ASSUME IInv, NEW t \in Calls, Establish(t) PROVE IInv'
<1>. USE DEF IInv
<1>1. TypeOK' /\ CallsAttached'
  <2>1. TypeOK'
    BY DEF TypeOK, CallsAttached, TaskPcs, Sessions, CreateRequest, Establish,
       Unregister, ReleaseLock, Answered
  <2>2. CallsAttached'
    BY DEF TypeOK, CallsAttached, Establish, Unregister, ReleaseLock, Answered
  <2>. QED BY <2>1, <2>2
<1>2. PendingOwned' /\ AwaitedIsRegistered' /\ AnswerCorrelated'
  BY DEF TypeOK, CallsAttached, PendingOwned, AwaitedIsRegistered, AnswerCorrelated,
     FutureDone, OutstandingRequest, CreateRequest, RetrieveRequest, Request,
     Establish, Unregister, ReleaseLock, Answered
<1>3. ExchangeExclusive'
  BY DEF TypeOK, CallsAttached, ExchangeExclusive, Establish, Unregister, ReleaseLock,
     Answered
<1>4. SingleFlight' /\ KeyMatchesUri'
  BY DEF TypeOK, CallsAttached, AnswerCorrelated, OutstandingRequest, RetrieveRequest,
     CreateRequest, SingleFlight, KeyMatchesUri, Live, Establish, Unregister,
     ReleaseLock, Answered
<1>5. SessionsPast' /\ FailedSessionGone'
  <2>1. /\ taskPc[t] \in Exchanging /\ taskPc' = [taskPc EXCEPT ![t] = "user"]
        /\ current' = CreateRequest(t) /\ session' = [session EXCEPT ![t] = CreateRequest(t)]
        /\ attempt' = attempt
    BY DEF Establish
  <2>2. /\ CreateRequest(t) \in Sessions /\ CreateRequest(t) # None
        /\ CreateRequest(t).task = t /\ CreateRequest(t).attempt = attempt[t]
    BY DEF TypeOK, CreateRequest, Sessions, Request
  <2>3. SessionsPast'
    <3>1. Past(CreateRequest(t))'
      BY <2>1, <2>2 DEF Past, TypeOK, CreateRequest
    <3>2. ASSUME NEW x \in Sessions, Past(x) PROVE Past(x)'
      BY <2>1, <3>2 DEF Past, TypeOK, Sessions
    <3>. QED BY <2>1, <2>2, <3>1, <3>2 DEF SessionsPast, TypeOK, CreateRequest
  <2>4. FailedSessionGone'
    <3>1. ~Past(CreateRequest(t))
      BY <2>1, <2>2 DEF Past, TypeOK, Attempts
    <3>. QED BY <2>1, <2>2, <3>1 DEF FailedSessionGone, SessionsPast, TypeOK
  <2>. QED BY <2>3, <2>4
<1>. QED BY <1>1, <1>2, <1>3, <1>4, <1>5

(* A failed exchange releases the lock and the registration.               *)
LEMMA FailExchangeStep == ASSUME IInv, NEW t \in Calls, FailExchange(t) PROVE IInv'
<1>. USE DEF IInv
<1>1. TypeOK' /\ CallsAttached'
  <2>1. TypeOK'
    BY DEF TypeOK, TaskPcs, FailExchange, Unregister, ReleaseLock, Answered
  <2>2. CallsAttached'
    BY DEF TypeOK, CallsAttached, FailExchange, Unregister, ReleaseLock, Answered
  <2>. QED BY <2>1, <2>2
<1>2. PendingOwned' /\ AwaitedIsRegistered' /\ AnswerCorrelated'
  BY DEF TypeOK, CallsAttached, PendingOwned, AwaitedIsRegistered, AnswerCorrelated,
     FutureDone, OutstandingRequest, CreateRequest, RetrieveRequest, Request,
     FailExchange, Unregister, ReleaseLock, Answered
<1>3. ExchangeExclusive'
  BY DEF TypeOK, CallsAttached, ExchangeExclusive, FailExchange, Unregister,
     ReleaseLock, Answered
<1>4. SingleFlight' /\ KeyMatchesUri'
  BY DEF TypeOK, CallsAttached, AnswerCorrelated, OutstandingRequest, RetrieveRequest,
     CreateRequest, SingleFlight, KeyMatchesUri, Live, FailExchange, Unregister,
     ReleaseLock, Answered
<1>5. SessionsPast' /\ FailedSessionGone'
  BY DEF TypeOK, CallsAttached, ExchangeExclusive, SessionsPast, FailedSessionGone,
     Past, Sessions, CreateRequest, Attempts, FailExchange, Unregister, ReleaseLock,
     Answered
<1>. QED BY <1>1, <1>2, <1>3, <1>4, <1>5

(* The retrieve request is registered before it is posted.                 *)
LEMMA SendRetrieveStep == ASSUME IInv, NEW t \in Calls, SendRetrieve(t) PROVE IInv'
<1>. USE DEF IInv
<1>1. TypeOK' /\ CallsAttached'
  <2>1. TypeOK'
    BY DEF TypeOK, TaskPcs, Request, RetrieveRequest, SendRetrieve
  <2>2. CallsAttached'
    BY DEF TypeOK, CallsAttached, SendRetrieve
  <2>. QED BY <2>1, <2>2
<1>2. PendingOwned' /\ AwaitedIsRegistered' /\ AnswerCorrelated'
  BY DEF TypeOK, CallsAttached, PendingOwned, AwaitedIsRegistered, AnswerCorrelated,
     FutureDone, OutstandingRequest, CreateRequest, RetrieveRequest, Request,
     SendRetrieve
<1>3. ExchangeExclusive'
  BY DEF TypeOK, CallsAttached, ExchangeExclusive, SendRetrieve
<1>4. SingleFlight' /\ KeyMatchesUri'
  BY DEF TypeOK, CallsAttached, AnswerCorrelated, OutstandingRequest, RetrieveRequest,
     CreateRequest, SingleFlight, KeyMatchesUri, Live, SendRetrieve
<1>5. SessionsPast' /\ FailedSessionGone'
  BY DEF TypeOK, CallsAttached, ExchangeExclusive, SessionsPast, FailedSessionGone,
     Past, Sessions, CreateRequest, Attempts, SendRetrieve
<1>. QED BY <1>1, <1>2, <1>3, <1>4, <1>5

(* A 202 leaves the request registered.                                    *)
LEMMA KmsAcceptsStep == ASSUME IInv, NEW t \in Calls, KmsAccepts(t) PROVE IInv'
<1>. USE DEF IInv
<1>1. TypeOK' /\ CallsAttached'
  <2>1. TypeOK'
    BY DEF TypeOK, TaskPcs, KmsAccepts
  <2>2. CallsAttached'
    BY DEF TypeOK, CallsAttached, KmsAccepts
  <2>. QED BY <2>1, <2>2
<1>2. PendingOwned' /\ AwaitedIsRegistered' /\ AnswerCorrelated'
  BY DEF TypeOK, CallsAttached, PendingOwned, AwaitedIsRegistered, AnswerCorrelated,
     FutureDone, OutstandingRequest, CreateRequest, RetrieveRequest, Request,
     KmsAccepts
<1>3. ExchangeExclusive'
  BY DEF TypeOK, CallsAttached, ExchangeExclusive, KmsAccepts
<1>4. SingleFlight' /\ KeyMatchesUri'
  BY DEF TypeOK, CallsAttached, AnswerCorrelated, OutstandingRequest, RetrieveRequest,
     CreateRequest, SingleFlight, KeyMatchesUri, Live, KmsAccepts
<1>5. SessionsPast' /\ FailedSessionGone'
  BY DEF TypeOK, CallsAttached, ExchangeExclusive, SessionsPast, FailedSessionGone,
     Past, Sessions, CreateRequest, Attempts, KmsAccepts
<1>. QED BY <1>1, <1>2, <1>3, <1>4, <1>5

(* A timeout ends the future; the request stays registered until the task  *)
(* resumes.                                                                *)
LEMMA TimerFiresStep == ASSUME IInv, NEW t \in Calls, TimerFires(t) PROVE IInv'
<1>. USE DEF IInv
<1>1. TypeOK' /\ CallsAttached'
  <2>1. TypeOK'
    BY DEF TypeOK, TaskPcs, TimerFires
  <2>2. CallsAttached'
    BY DEF TypeOK, CallsAttached, TimerFires
  <2>. QED BY <2>1, <2>2
<1>2. PendingOwned' /\ AwaitedIsRegistered' /\ AnswerCorrelated'
  BY DEF TypeOK, CallsAttached, PendingOwned, AwaitedIsRegistered, AnswerCorrelated,
     FutureDone, OutstandingRequest, CreateRequest, RetrieveRequest, Request,
     TimerFires
<1>3. ExchangeExclusive'
  BY DEF TypeOK, CallsAttached, ExchangeExclusive, TimerFires
<1>4. SingleFlight' /\ KeyMatchesUri'
  BY DEF TypeOK, CallsAttached, AnswerCorrelated, OutstandingRequest, RetrieveRequest,
     CreateRequest, SingleFlight, KeyMatchesUri, Live, TimerFires
<1>5. SessionsPast' /\ FailedSessionGone'
  BY DEF TypeOK, CallsAttached, ExchangeExclusive, SessionsPast, FailedSessionGone,
     Past, Sessions, CreateRequest, Attempts, TimerFires
<1>. QED BY <1>1, <1>2, <1>3, <1>4, <1>5

(* The awaited answer is the reply to the task's own request               *)
(* (AnswerCorrelated), so its key is the one asked for.                    *)
LEMMA SucceedStep == ASSUME IInv, NEW t \in Calls, Succeed(t) PROVE IInv'
<1>. USE DEF IInv
<1>1. /\ callUri[t] \in Uris
      /\ taskKey' = [taskKey EXCEPT ![t] = callUri[t]]
      /\ keyCache' = IF CacheEnabled THEN [keyCache EXCEPT ![callUri[t]] = callUri[t]]
                                     ELSE keyCache
  <2>1. callUri[t] \in Uris
    BY DEF Succeed, CallsAttached, TypeOK
  <2>2. CASE taskPc[t] = "rpost"
    BY <2>1, <2>2 DEF Succeed, StoreKey
  <2>3. CASE taskPc[t] # "rpost" /\ answer[t] # None /\ taskPc[t] \in Requesting \ Exchanging
    <3>1. answer[t].request = RetrieveRequest(t)
      BY <2>3 DEF AnswerCorrelated, OutstandingRequest
    <3>2. answer[t].request.task = t
      BY <3>1 DEF RetrieveRequest
    <3>. QED BY <2>1, <2>3, <3>2 DEF Succeed, StoreKey
  <2>. QED BY <2>2, <2>3 DEF Succeed, StoreKey, Answered
<1>2. TypeOK' /\ CallsAttached'
  <2>1. TypeOK'
    BY <1>1 DEF TypeOK, CallsAttached, TaskPcs, Succeed, StoreKey, Unregister
  <2>2. CallsAttached'
    BY <1>1 DEF TypeOK, CallsAttached, Succeed, Answered
  <2>. QED BY <2>1, <2>2
<1>3. PendingOwned' /\ AwaitedIsRegistered' /\ AnswerCorrelated'
  BY DEF TypeOK, CallsAttached, PendingOwned, AwaitedIsRegistered, AnswerCorrelated,
     FutureDone, OutstandingRequest, CreateRequest, RetrieveRequest, Request, Succeed, StoreKey,
     Unregister, Answered
<1>4. ExchangeExclusive'
  BY DEF TypeOK, CallsAttached, ExchangeExclusive, Succeed
<1>5. SingleFlight' /\ KeyMatchesUri'
  BY <1>1 DEF TypeOK, CallsAttached, SingleFlight, KeyMatchesUri, Live, Succeed
<1>6. SessionsPast' /\ FailedSessionGone'
  BY DEF TypeOK, CallsAttached, ExchangeExclusive, SessionsPast, FailedSessionGone,
     Past, Sessions, CreateRequest, Attempts, Succeed, StoreKey, Unregister, Answered
<1>. QED BY <1>2, <1>3, <1>4, <1>5, <1>6

(* The failed context is forgotten, at once or by Invalidate.              *)
LEMMA SessionErrorStep == ASSUME IInv, NEW t \in Calls, SessionError(t) PROVE IInv'
<1>. USE DEF IInv
<1>1. TypeOK' /\ CallsAttached'
  <2>1. TypeOK'
    BY DEF TypeOK, TaskPcs, Attempts, SessionError, RetryOrFail, Unregister, Answered,
       ClearSession, KeepSession
  <2>2. CallsAttached'
    BY DEF TypeOK, CallsAttached, SessionError, RetryOrFail, Unregister, Answered,
       ClearSession, KeepSession
  <2>. QED BY <2>1, <2>2
<1>2. PendingOwned' /\ AwaitedIsRegistered' /\ AnswerCorrelated'
  BY DEF TypeOK, CallsAttached, PendingOwned, AwaitedIsRegistered, AnswerCorrelated,
     FutureDone, OutstandingRequest, CreateRequest, RetrieveRequest, Request,
     SessionError, RetryOrFail, Unregister, Answered, ClearSession, KeepSession
<1>3. ExchangeExclusive'
  BY DEF TypeOK, CallsAttached, ExchangeExclusive, SessionError, RetryOrFail,
     Unregister, Answered, ClearSession, KeepSession
<1>4. SingleFlight' /\ KeyMatchesUri'
  BY DEF TypeOK, CallsAttached, AnswerCorrelated, OutstandingRequest, RetrieveRequest,
     CreateRequest, SingleFlight, KeyMatchesUri, Live, SessionError, RetryOrFail,
     Unregister, Answered, ClearSession, KeepSession
<1>5. SessionsPast' /\ FailedSessionGone'
  BY DEF TypeOK, CallsAttached, ExchangeExclusive, SessionsPast, FailedSessionGone,
     Past, Sessions, CreateRequest, Attempts, SessionError, RetryOrFail, Unregister,
     Answered, ClearSession, KeepSession
<1>. QED BY <1>1, <1>2, <1>3, <1>4, <1>5

(* The retry is a new request on the same context.                         *)
LEMMA OtherErrorStep == ASSUME IInv, NEW t \in Calls, OtherError(t) PROVE IInv'
<1>. USE DEF IInv
<1>1. TypeOK' /\ CallsAttached'
  <2>1. TypeOK'
    BY DEF TypeOK, TaskPcs, Attempts, OtherError, RetryOrFail, Unregister, Answered,
       KeepSession
  <2>2. CallsAttached'
    BY DEF TypeOK, CallsAttached, OtherError, RetryOrFail, Unregister, Answered,
       KeepSession
  <2>. QED BY <2>1, <2>2
<1>2. PendingOwned' /\ AwaitedIsRegistered' /\ AnswerCorrelated'
  BY DEF TypeOK, CallsAttached, PendingOwned, AwaitedIsRegistered, AnswerCorrelated,
     FutureDone, OutstandingRequest, CreateRequest, RetrieveRequest, Request,
     OtherError, RetryOrFail, Unregister, Answered, KeepSession
<1>3. ExchangeExclusive'
  BY DEF TypeOK, CallsAttached, ExchangeExclusive, OtherError, RetryOrFail,
     Unregister, Answered, KeepSession
<1>4. SingleFlight' /\ KeyMatchesUri'
  BY DEF TypeOK, CallsAttached, AnswerCorrelated, OutstandingRequest, RetrieveRequest,
     CreateRequest, SingleFlight, KeyMatchesUri, Live, OtherError, RetryOrFail,
     Unregister, Answered, KeepSession
<1>5. SessionsPast' /\ FailedSessionGone'
  BY DEF TypeOK, CallsAttached, ExchangeExclusive, SessionsPast, FailedSessionGone,
     Past, Sessions, CreateRequest, Attempts, OtherError, RetryOrFail, Unregister,
     Answered, KeepSession
<1>. QED BY <1>1, <1>2, <1>3, <1>4, <1>5

(* After the lock is free, no context is cached at all.                    *)
LEMMA InvalidateStep == ASSUME IInv, NEW t \in Calls, Invalidate(t) PROVE IInv'
<1>. USE DEF IInv
<1>1. TypeOK' /\ CallsAttached'
  <2>1. TypeOK'
    BY DEF TypeOK, TaskPcs, Invalidate, ClearSession
  <2>2. CallsAttached'
    BY DEF TypeOK, CallsAttached, Invalidate, ClearSession
  <2>. QED BY <2>1, <2>2
<1>2. PendingOwned' /\ AwaitedIsRegistered' /\ AnswerCorrelated'
  BY DEF TypeOK, CallsAttached, PendingOwned, AwaitedIsRegistered, AnswerCorrelated,
     FutureDone, OutstandingRequest, CreateRequest, RetrieveRequest, Request,
     Invalidate, ClearSession
<1>3. ExchangeExclusive'
  BY DEF TypeOK, CallsAttached, ExchangeExclusive, Invalidate, ClearSession
<1>4. SingleFlight' /\ KeyMatchesUri'
  BY DEF TypeOK, CallsAttached, AnswerCorrelated, OutstandingRequest, RetrieveRequest,
     CreateRequest, SingleFlight, KeyMatchesUri, Live, Invalidate, ClearSession
<1>5. SessionsPast' /\ FailedSessionGone'
  BY DEF TypeOK, CallsAttached, ExchangeExclusive, SessionsPast, FailedSessionGone,
     Past, Sessions, CreateRequest, Attempts, Invalidate, ClearSession
<1>. QED BY <1>1, <1>2, <1>3, <1>4, <1>5

(* A reply resolves the one future registered for it, or is only cached.   *)
LEMMA DeliverStep == ASSUME IInv, NEW m \in sent, Deliver(m) PROVE IInv'
<1>. USE DEF IInv
<1>1. TypeOK' /\ CallsAttached'
  <2>1. TypeOK'
    BY DEF TypeOK, TaskPcs, Reply, Request, Deliver, Resolves, FutureDone
  <2>2. CallsAttached'
    BY DEF TypeOK, CallsAttached, Reply, Request, Deliver, Resolves, FutureDone
  <2>. QED BY <2>1, <2>2
<1>2. PendingOwned' /\ AwaitedIsRegistered' /\ AnswerCorrelated'
  <2>1. answer' = [t \in Calls |->
                     IF m.request \in pending /\ m.request.task = t /\ ~FutureDone(t)
                       THEN m ELSE answer[t]]
    BY DEF Deliver, Resolves
  <2>2. m.request \in Request /\ m.request.task \in Calls /\ m # None
    BY DEF TypeOK, Reply, Request
  <2>3. pending' = pending \ {m.request} /\ taskPc' = taskPc /\ attempt' = attempt
    BY DEF Deliver
  <2>4. \A t \in Calls : OutstandingRequest(t)' = OutstandingRequest(t)
    BY <2>3 DEF OutstandingRequest, CreateRequest, RetrieveRequest
  <2>5. PendingOwned'
    BY <2>3, <2>4 DEF TypeOK, PendingOwned, Request
  <2>6. AwaitedIsRegistered'
    BY <2>1, <2>2, <2>3, <2>4 DEF TypeOK, AwaitedIsRegistered, FutureDone,
       OutstandingRequest, CreateRequest, RetrieveRequest
  <2>7. AnswerCorrelated'
    BY <2>1, <2>2, <2>3, <2>4 DEF TypeOK, AnswerCorrelated, PendingOwned
  <2>. QED BY <2>5, <2>6, <2>7
<1>3. ExchangeExclusive'
  BY DEF TypeOK, CallsAttached, ExchangeExclusive, Deliver, Resolves, FutureDone
<1>4. SingleFlight' /\ KeyMatchesUri'
  BY DEF TypeOK, CallsAttached, AnswerCorrelated, OutstandingRequest, RetrieveRequest,
     CreateRequest, SingleFlight, KeyMatchesUri, Live, Deliver, Resolves, FutureDone
<1>5. SessionsPast' /\ FailedSessionGone'
  BY DEF TypeOK, CallsAttached, ExchangeExclusive, SessionsPast, FailedSessionGone,
     Past, Sessions, CreateRequest, Attempts, Deliver, Resolves, FutureDone
<1>. QED BY <1>1, <1>2, <1>3, <1>4, <1>5

(* An unsolicited key is cached under its own URI.                         *)
LEMMA CacheUnsolicitedStep ==
    ASSUME IInv, NEW u \in Uris, CacheUnsolicited(u)
    PROVE  IInv'
<1>. USE DEF IInv
<1>1. TypeOK' /\ CallsAttached'
  <2>1. TypeOK'
    BY DEF TypeOK, TaskPcs, CacheUnsolicited
  <2>2. CallsAttached'
    BY DEF TypeOK, CallsAttached, CacheUnsolicited
  <2>. QED BY <2>1, <2>2
<1>2. PendingOwned' /\ AwaitedIsRegistered' /\ AnswerCorrelated'
  BY DEF TypeOK, CallsAttached, PendingOwned, AwaitedIsRegistered, AnswerCorrelated,
     FutureDone, OutstandingRequest, CreateRequest, RetrieveRequest, Request,
     CacheUnsolicited
<1>3. ExchangeExclusive'
  BY DEF TypeOK, CallsAttached, ExchangeExclusive, CacheUnsolicited
<1>4. SingleFlight' /\ KeyMatchesUri'
  BY DEF TypeOK, CallsAttached, AnswerCorrelated, OutstandingRequest, RetrieveRequest,
     CreateRequest, SingleFlight, KeyMatchesUri, Live, CacheUnsolicited
<1>5. SessionsPast' /\ FailedSessionGone'
  BY DEF TypeOK, CallsAttached, ExchangeExclusive, SessionsPast, FailedSessionGone,
     Past, Sessions, CreateRequest, Attempts, CacheUnsolicited
<1>. QED BY <1>1, <1>2, <1>3, <1>4, <1>5

(* A push in flight changes nothing in the client.                         *)
LEMMA KmsRepliesStep ==
    ASSUME IInv, NEW t \in Calls, NEW b \in Bodies, KmsReplies(t, b)
    PROVE  IInv'
<1>. USE DEF IInv
<1>1. TypeOK' /\ CallsAttached'
  <2>1. TypeOK'
    BY DEF TypeOK, TaskPcs, Reply, Request, OutstandingRequest, CreateRequest,
       RetrieveRequest, KmsReplies
  <2>2. CallsAttached'
    BY DEF TypeOK, CallsAttached, KmsReplies
  <2>. QED BY <2>1, <2>2
<1>2. PendingOwned' /\ AwaitedIsRegistered' /\ AnswerCorrelated'
  BY DEF TypeOK, CallsAttached, PendingOwned, AwaitedIsRegistered, AnswerCorrelated,
     FutureDone, OutstandingRequest, CreateRequest, RetrieveRequest, Request,
     KmsReplies
<1>3. ExchangeExclusive'
  BY DEF TypeOK, CallsAttached, ExchangeExclusive, KmsReplies
<1>4. SingleFlight' /\ KeyMatchesUri'
  BY DEF TypeOK, CallsAttached, AnswerCorrelated, OutstandingRequest, RetrieveRequest,
     CreateRequest, SingleFlight, KeyMatchesUri, Live, KmsReplies
<1>5. SessionsPast' /\ FailedSessionGone'
  BY DEF TypeOK, CallsAttached, ExchangeExclusive, SessionsPast, FailedSessionGone,
     Past, Sessions, CreateRequest, Attempts, KmsReplies
<1>. QED BY <1>1, <1>2, <1>3, <1>4, <1>5

(* An expired context is looked at only by the next exchange.              *)
LEMMA ExpireSessionStep == ASSUME IInv, ExpireSession PROVE IInv'
<1>. USE DEF IInv
<1>1. TypeOK' /\ CallsAttached'
  <2>1. TypeOK'
    BY DEF TypeOK, TaskPcs, ExpireSession
  <2>2. CallsAttached'
    BY DEF TypeOK, CallsAttached, ExpireSession
  <2>. QED BY <2>1, <2>2
<1>2. PendingOwned' /\ AwaitedIsRegistered' /\ AnswerCorrelated'
  BY DEF TypeOK, CallsAttached, PendingOwned, AwaitedIsRegistered, AnswerCorrelated,
     FutureDone, OutstandingRequest, CreateRequest, RetrieveRequest, Request,
     ExpireSession
<1>3. ExchangeExclusive'
  BY DEF TypeOK, CallsAttached, ExchangeExclusive, ExpireSession
<1>4. SingleFlight' /\ KeyMatchesUri'
  BY DEF TypeOK, CallsAttached, AnswerCorrelated, OutstandingRequest, RetrieveRequest,
     CreateRequest, SingleFlight, KeyMatchesUri, Live, ExpireSession
<1>5. SessionsPast' /\ FailedSessionGone'
  BY DEF TypeOK, CallsAttached, ExchangeExclusive, SessionsPast, FailedSessionGone,
     Past, Sessions, CreateRequest, Attempts, ExpireSession
<1>. QED BY <1>1, <1>2, <1>3, <1>4, <1>5

-----------------------------------------------------------------------------
(* The client starts with nothing cached, requested or awaited.            *)
LEMMA InitIInv == Init => IInv
<1>. SUFFICES ASSUME Init PROVE IInv
  OBVIOUS
<1>1. TypeOK /\ CallsAttached
  BY DEF Init, TypeOK, CallsAttached, TaskPcs, Attempts
<1>2. PendingOwned /\ AwaitedIsRegistered /\ AnswerCorrelated /\ ExchangeExclusive
  BY DEF Init, PendingOwned, AwaitedIsRegistered, AnswerCorrelated, ExchangeExclusive
<1>3. SingleFlight /\ KeyMatchesUri
  BY DEF Init, SingleFlight, KeyMatchesUri, Live
<1>4. SessionsPast /\ FailedSessionGone
  BY DEF Init, SessionsPast, FailedSessionGone
<1>. QED BY <1>1, <1>2, <1>3, <1>4 DEF IInv

(* Every step of a task preserves the invariant.                           *)
LEMMA TaskStepIInv == ASSUME IInv, NEW t \in Calls, TaskStep(t) PROVE IInv'
BY WaitForLockStep, ReuseSessionStep, BeginExchangeStep, SendCreateStep,
   EstablishStep, FailExchangeStep, SendRetrieveStep, KmsAcceptsStep, TimerFiresStep,
   SucceedStep, SessionErrorStep, OtherErrorStep, InvalidateStep DEF TaskStep

(* Every step of the client and of its environment preserves it.           *)
LEMMA NextIInv == IInv /\ [Next]_vars => IInv'
<1>. SUFFICES ASSUME IInv, [Next]_vars PROVE IInv'
  OBVIOUS
<1>1. CASE \E c \in Calls, u \in Uris : GetKey(c, u)
  BY <1>1, ReturnCachedStep, RejectUriStep, JoinTaskStep, StartTaskStep DEF GetKey
<1>2. CASE \E c \in Calls : ResumeCall(c)
  BY <1>2, ResumeCallStep
<1>3. CASE \E t \in Calls : TaskStep(t)
  BY <1>3, TaskStepIInv
<1>4. CASE \E c \in Calls : CancelCall(c)
  <2>1. PICK c \in Calls : CancelCall(c)
    BY <1>4
  <2>2. callTask[c] \in Calls
    BY <2>1 DEF CancelCall, IInv, CallsAttached
  <2>. QED BY <2>1, <2>2, CancelTaskStep, CancelLateStep DEF CancelCall
<1>5. CASE \E m \in sent : Deliver(m)
  BY <1>5, DeliverStep
<1>6. CASE \E u \in Uris : CacheUnsolicited(u)
  BY <1>6, CacheUnsolicitedStep
<1>7. CASE \E t \in Calls, b \in Bodies : KmsReplies(t, b)
  BY <1>7, KmsRepliesStep
<1>8. CASE ExpireSession
  BY <1>8, ExpireSessionStep
<1>9. CASE UNCHANGED vars
  BY <1>9 DEF IInv, vars, TypeOK, CallsAttached, PendingOwned, AwaitedIsRegistered,
     AnswerCorrelated, ExchangeExclusive, SingleFlight, KeyMatchesUri, SessionsPast, Past,
     FailedSessionGone, Live, FutureDone, OutstandingRequest, CreateRequest, RetrieveRequest
<1>. QED BY <1>1, <1>2, <1>3, <1>4, <1>5, <1>6, <1>7, <1>8, <1>9 DEF Next, Environment

(* The strengthened invariant holds in every reachable state.              *)
THEOREM Invariance == Spec => []IInv
BY InitIInv, NextIInv, PTL DEF Spec

(* Every variable keeps its type.                                          *)
THEOREM TypeCorrect == Spec => []TypeOK
BY Invariance, PTL DEF IInv

(* get_key coalesces: at most one retrieval of a URI is under way.         *)
THEOREM Coalescing == Spec => []SingleFlight
BY Invariance, PTL DEF IInv

(* No caller and no cache entry gets the key of another URI, for any       *)
(* number of lost, late, duplicated and reordered replies.                 *)
THEOREM RightKey == Spec => []KeyMatchesUri
BY Invariance, PTL DEF IInv

(* _pending_requests: a registration belongs to the request that its task  *)
(* has sent and still has in hand.                                         *)
THEOREM PendingTable == Spec => []PendingOwned
BY Invariance, PTL DEF IInv

(* A task that waits for a reply is in the table, so that the reply can    *)
(* find it.                                                                *)
THEOREM WaitingRegistered == Spec => []AwaitedIsRegistered
BY Invariance, PTL DEF IInv

(* A future only gets the reply to its own request.                        *)
THEOREM OwnReply == Spec => []AnswerCorrelated
BY Invariance, PTL DEF IInv

(* One ECDH exchange at a time, by the holder of _ecdh_lock.               *)
THEOREM OneExchange == Spec => []ExchangeExclusive
BY Invariance, PTL DEF IInv

(* A retry after a session error never meets the failed context again.     *)
THEOREM FreshRetry == Spec => []FailedSessionGone
BY Invariance, PTL DEF IInv

-----------------------------------------------------------------------------
(* Only get_key starts a task.                                             *)
LEMMA OnlyGetKeyStarts ==
    ASSUME IInv, Next, NEW t \in Calls, taskPc[t] = "none", taskPc'[t] # "none"
    PROVE  \E u \in Uris : GetKey(t, u) /\ StartTask(t, u)
<1>. USE DEF IInv, TypeOK
<1>1. ASSUME NEW c \in Calls, NEW u \in Uris, GetKey(c, u)
      PROVE  c = t /\ StartTask(t, u)
  BY <1>1 DEF GetKey, ReturnCached, RejectUri, JoinTask, StartTask
<1>2. ASSUME NEW c \in Calls, ResumeCall(c) PROVE FALSE
  BY <1>2 DEF ResumeCall
<1>3. ASSUME NEW s \in Calls, TaskStep(s) PROVE FALSE
  <2>1. taskPc[s] # "none"
    BY <1>3 DEF TaskStep, WaitForLock, ReuseSession, BeginExchange, GetsLock, SendCreate,
       Establish, FailExchange, SendRetrieve, KmsAccepts, TimerFires, Succeed, SessionError,
       OtherError, Invalidate
  <2>2. \E pc \in TaskPcs : taskPc' = [taskPc EXCEPT ![s] = pc]
    BY <1>3 DEF TaskStep, TaskPcs, WaitForLock, ReuseSession, BeginExchange, SendCreate,
       Establish, FailExchange, SendRetrieve, KmsAccepts, TimerFires, Succeed, SessionError,
       OtherError, RetryOrFail, Invalidate
  <2>. QED BY <2>1, <2>2
<1>4. ASSUME Environment PROVE FALSE
  BY <1>4 DEF Environment, CancelCall, CancelTask, CancelLate, Live, Deliver,
     CacheUnsolicited, KmsReplies, ExpireSession
<1>. QED BY <1>1, <1>2, <1>3, <1>4 DEF Next

(* With the cache on, a key is retrieved at most once.                     *)
THEOREM RetrievedOnce == Spec => NoRefetch
<1>1. ASSUME IInv, [Next]_vars, NEW s \in Calls, NEW t \in Calls,
             CacheEnabled, taskPc[s] = "done", taskPc[t] = "none", taskPc'[t] # "none"
      PROVE  callUri[s] # callUri'[t]
  <2>1. Next
    BY <1>1 DEF vars
  <2>2. PICK u \in Uris : GetKey(t, u) /\ StartTask(t, u)
    BY <1>1, <2>1, OnlyGetKeyStarts
  <2>3. keyCache[u] = None /\ callUri'[t] = u
    BY <1>1, <2>2 DEF GetKey, StartTask, CacheHit, IInv, TypeOK
  <2>4. keyCache[callUri[s]] # None
    BY <1>1 DEF IInv, CallsAttached
  <2>. QED BY <2>3, <2>4
<1>2. IInv /\ [Next]_vars =>
        [\A s, t \in Calls :
           CacheEnabled /\ taskPc[s] = "done" /\ taskPc[t] = "none" /\ taskPc'[t] # "none"
              => callUri[s] # callUri'[t]]_vars
  BY <1>1
<1>. QED BY <1>2, Invariance, PTL DEF Spec, NoRefetch

=============================================================================
