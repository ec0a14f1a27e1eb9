---------------------- MODULE EncryptionRefinementProofs ----------------------
(***************************************************************************)
(* EncryptionClient implements the safety part of KeyRetrieval: it starts  *)
(* in an initial state of KeyRetrieval and each of its steps is one of     *)
(* KeyRetrieval or changes nothing that KeyRetrieval speaks of.            *)
(***************************************************************************)
EXTENDS EncryptionRefinement, EncryptionClientProofs

USE MalformedAssumption, CacheAssumption, NoneAssumption, NoneIsNoRecord
USE DEF Exchanging, Posting, Waiting, TimedOut, Requesting, Finished, callVars, taskVars, ecdhVars

Promised == Retrieval!Next \/ UNCHANGED Retrieval!vars

(* A task that goes on from one live state to another is not seen.         *)
LEMMA LiveStep ==
    ASSUME TypeOK, NEW t \in Calls, Live(t), UNCHANGED <<callVars, keyCache>>,
           NEW pc \in TaskPcs \ ({"none"} \cup Finished), taskPc' = [taskPc EXCEPT ![t] = pc]
    PROVE  Promised
<1>1. [s \in Calls |-> LoadOf(s)]' = [s \in Calls |-> LoadOf(s)]
  BY DEF TypeOK, LoadOf, Live
<1>. QED BY <1>1 DEF Promised, Retrieval!vars, Retrieval!callVars

(* A task that ends finishes the retrieval, and caches the key if it has   *)
(* one and caching is on.                                                  *)
LEMMA FinishStep ==
    ASSUME TypeOK, NEW t \in Calls, Live(t), UNCHANGED callVars,
           NEW pc \in Finished, taskPc' = [taskPc EXCEPT ![t] = pc],
           keyCache' = IF pc = "done" /\ CacheEnabled
                         THEN [keyCache EXCEPT ![callUri[t]] = callUri[t]] ELSE keyCache
    PROVE  Promised
<1>1. [s \in Calls |-> LoadOf(s)]' = [[s \in Calls |-> LoadOf(s)] EXCEPT ![t] = pc]
  BY DEF TypeOK, LoadOf, Live
<1>2. [s \in Calls |-> LoadOf(s)][t] = "running"
  BY DEF LoadOf
<1>3. Retrieval!Finish(t, pc)
  BY <1>1, <1>2 DEF Retrieval!Finish, Retrieval!callVars
<1>. QED BY <1>3 DEF Promised, Retrieval!Next, Retrieval!Outcomes

(* get_key's four ways to answer are the four of KeyRetrieval.             *)
LEMMA GetKeyPromised ==
    ASSUME IInv, NEW c \in Calls, NEW u \in Uris, GetKey(c, u)
    PROVE  Promised
<1>. USE DEF IInv, TypeOK, GetKey, Retrieval!Ask, CacheHit, Retrieval!CacheHit
<1>1. CASE ReturnCached(c, u)
  <2>1. Retrieval!ServeFromCache(c, u)
    BY <1>1 DEF ReturnCached, Retrieval!ServeFromCache, KeyMatchesUri, LoadOf, Live
  <2>. QED BY <2>1 DEF Promised, Retrieval!Next
<1>2. CASE RejectUri(c, u)
  <2>1. Retrieval!Reject(c, u)
    BY <1>2 DEF RejectUri, Retrieval!Reject, LoadOf, Live
  <2>. QED BY <2>1 DEF Promised, Retrieval!Next
<1>3. CASE JoinTask(c, u)
  <2>1. inflight[u] \in Calls /\ callUri[inflight[u]] = u /\ taskPc[inflight[u]] # "none"
        /\ callPc[inflight[u]] = "await" /\ callTask[inflight[u]] = inflight[u]
    BY <1>3 DEF JoinTask, CallsAttached
  <2>2. [s \in Calls |-> LoadOf(s)][inflight[u]] # "none"
    BY <2>1 DEF LoadOf
  <2>3. Retrieval!Attach(c, u, inflight[u])
    BY <1>3, <2>1, <2>2 DEF JoinTask, Retrieval!Attach, LoadOf, Live
  <2>. QED BY <2>1, <2>3 DEF Promised, Retrieval!Next
<1>4. CASE StartTask(c, u)
  <2>1. \A t \in Calls : callUri[t] = u => [s \in Calls |-> LoadOf(s)][t] # "running"
    BY <1>4 DEF StartTask, SingleFlight, LoadOf, Live
  <2>2. [s \in Calls |-> LoadOf(s)]' = [[s \in Calls |-> LoadOf(s)] EXCEPT ![c] = "running"]
    BY <1>4 DEF StartTask, LoadOf, Live
  <2>3. Retrieval!StartLoad(c, u)
    BY <1>4, <2>1, <2>2 DEF StartTask, Retrieval!StartLoad
  <2>. QED BY <2>3 DEF Promised, Retrieval!Next
<1>. QED BY <1>1, <1>2, <1>3, <1>4

(* A call ends as its retrieval did, also when it is cancelled.            *)
LEMMA ResumeCallPromised ==
    ASSUME IInv, NEW c \in Calls, ResumeCall(c)
    PROVE  Promised
<1>. USE DEF IInv, TypeOK
<1>1. callTask[c] \in Calls /\ callUri[callTask[c]] = callUri[c] /\ callKey[c] = None
  BY DEF ResumeCall, CallsAttached
<1>2. [s \in Calls |-> LoadOf(s)][callTask[c]] = taskPc[callTask[c]]
  BY <1>1 DEF ResumeCall, LoadOf, Live
<1>3. callKey' = IF taskPc[callTask[c]] = "done"
                   THEN [callKey EXCEPT ![c] = callUri[c]] ELSE callKey
  <2>1. CASE taskPc[callTask[c]] = "done"
    BY <1>1, <2>1 DEF ResumeCall, CallsAttached
  <2>2. CASE taskPc[callTask[c]] # "done"
    <3>1. taskKey[callTask[c]] = callKey[c]
      BY <1>1, <2>2 DEF CallsAttached
    <3>2. callKey' = [callKey EXCEPT ![c] = callKey[c]]
      BY <3>1 DEF ResumeCall
    <3>. QED BY <2>2, <3>2
  <2>. QED BY <2>1, <2>2
<1>4. [s \in Calls |-> LoadOf(s)]' = [s \in Calls |-> LoadOf(s)]
  BY DEF ResumeCall, LoadOf, Live
<1>5. Retrieval!Resume(c)
  BY <1>1, <1>2, <1>3, <1>4 DEF ResumeCall, Retrieval!Resume, Retrieval!Outcomes
<1>. QED BY <1>5 DEF Promised, Retrieval!Next

(* Cancelling a call cancels its retrieval, or the call alone when the     *)
(* retrieval is over.                                                      *)
LEMMA CancelCallPromised ==
    ASSUME IInv, NEW c \in Calls, CancelCall(c)
    PROVE  Promised
<1>. USE DEF IInv
<1>1. callPc[c] = "await" /\ callTask[c] \in Calls
  BY DEF CancelCall, CallsAttached
<1>2. CASE CancelTask(callTask[c])
  BY <1>1, <1>2, FinishStep DEF CancelTask
<1>3. CASE CancelLate(c)
  <2>1. [s \in Calls |-> LoadOf(s)][callTask[c]] \in Finished
    BY <1>1, <1>3 DEF CancelLate, LoadOf, Live
  <2>2. [s \in Calls |-> LoadOf(s)]' = [s \in Calls |-> LoadOf(s)]
    BY <1>3 DEF CancelLate, LoadOf, Live
  <2>3. Retrieval!Cancel(c)
    BY <1>1, <1>3, <2>1, <2>2 DEF CancelLate, Retrieval!Cancel, Retrieval!Outcomes
  <2>. QED BY <2>3 DEF Promised, Retrieval!Next
<1>. QED BY <1>2, <1>3 DEF CancelCall

(* Succeed finishes the retrieval with the key of its URI.                 *)
LEMMA SucceedPromised ==
    ASSUME IInv, NEW t \in Calls, Succeed(t)
    PROVE  Promised
<1>. USE DEF IInv
<1>1. Live(t)
  BY DEF Succeed, Live, Answered
<1>2. taskPc[t] # "rpost" => callUri[answer[t].request.task] = callUri[t]
  <2>1. SUFFICES ASSUME taskPc[t] # "rpost" PROVE answer[t].request.task = t
    OBVIOUS
  <2>2. answer[t].request = RetrieveRequest(t)
    BY <2>1 DEF Succeed, Answered, AnswerCorrelated, OutstandingRequest
  <2>. QED BY <2>2 DEF RetrieveRequest
<1>3. keyCache' = IF CacheEnabled THEN [keyCache EXCEPT ![callUri[t]] = callUri[t]] ELSE keyCache
  BY <1>2 DEF Succeed, StoreKey
<1>. QED BY <1>1, <1>3, FinishStep DEF Succeed

(* The other steps of a task go on, or end it without a key.               *)
LEMMA TaskStepPromised ==
    ASSUME IInv, NEW t \in Calls, TaskStep(t)
    PROVE  Promised
<1>. USE DEF IInv
<1>1. CASE Succeed(t)
  BY <1>1, SucceedPromised
<1>2. CASE FailExchange(t)
  <2>1. Live(t)
    BY <1>2 DEF FailExchange, Live
  <2>. QED BY <1>2, <2>1, FinishStep DEF FailExchange
<1>3. CASE SessionError(t) \/ OtherError(t)
  <2>1. Live(t) /\ UNCHANGED <<callVars, keyCache>>
    BY <1>3 DEF SessionError, OtherError, RetryOrFail, Live, Answered
  <2>2. PICK pc \in {"start", "inval", "user", "failed"} : taskPc' = [taskPc EXCEPT ![t] = pc]
    BY <1>3 DEF SessionError, OtherError, RetryOrFail
  <2>3. CASE pc = "failed"
    BY <2>1, <2>2, <2>3, FinishStep
  <2>4. CASE pc # "failed"
    BY <2>1, <2>2, <2>4, LiveStep DEF TaskPcs
  <2>. QED BY <2>3, <2>4
<1>4. CASE \/ WaitForLock(t) \/ ReuseSession(t) \/ BeginExchange(t) \/ SendCreate(t)
           \/ Establish(t) \/ SendRetrieve(t) \/ KmsAccepts(t) \/ TimerFires(t) \/ Invalidate(t)
  <2>1. Live(t) /\ UNCHANGED <<callVars, keyCache>>
    BY <1>4 DEF WaitForLock, ReuseSession, BeginExchange, GetsLock, SendCreate, Establish,
       SendRetrieve, KmsAccepts, TimerFires, Invalidate, Live, Answered
  <2>2. \E pc \in TaskPcs \ ({"none"} \cup Finished) : taskPc' = [taskPc EXCEPT ![t] = pc]
    BY <1>4 DEF WaitForLock, ReuseSession, BeginExchange, SendCreate, Establish, SendRetrieve,
       KmsAccepts, TimerFires, Invalidate, TaskPcs
  <2>. QED BY <2>1, <2>2, LiveStep
<1>. QED BY <1>1, <1>2, <1>3, <1>4 DEF TaskStep

(* A message that is cached is a key that is learned.                      *)
LEMMA DeliverPromised ==
    ASSUME IInv, NEW m \in sent, Deliver(m)
    PROVE  Promised
<1>. USE DEF IInv, TypeOK
<1>1. [s \in Calls |-> LoadOf(s)]' = [s \in Calls |-> LoadOf(s)] /\ UNCHANGED callVars
  BY DEF Deliver, LoadOf, Live
<1>2. CASE keyCache' = keyCache
  BY <1>1, <1>2 DEF Promised, Retrieval!vars, Retrieval!callVars
<1>3. CASE keyCache' # keyCache
  <2>1. m.request.task \in Calls
    BY DEF Reply, Request
  <2>2. keyCache' = [keyCache EXCEPT ![callUri[m.request.task]] = callUri[m.request.task]]
    BY <1>3 DEF Deliver
  <2>3. callUri[m.request.task] \in Uris
    BY <1>3, <2>1, <2>2
  <2>4. Retrieval!Learn(callUri[m.request.task])
    BY <1>1, <2>2 DEF Retrieval!Learn, Retrieval!callVars
  <2>. QED BY <2>3, <2>4 DEF Promised, Retrieval!Next
<1>. QED BY <1>2, <1>3

(* An unsolicited key is learned; KMS and the clock are not seen.          *)
LEMMA EnvironmentPromised == ASSUME IInv, Environment PROVE Promised
<1>. USE DEF IInv, TypeOK
<1>1. CASE \E c \in Calls : CancelCall(c)
  BY <1>1, CancelCallPromised
<1>2. CASE \E m \in sent : Deliver(m)
  BY <1>2, DeliverPromised
<1>3. CASE \E u \in Uris : CacheUnsolicited(u)
  <2>1. PICK u \in Uris : CacheUnsolicited(u)
    BY <1>3
  <2>2. [s \in Calls |-> LoadOf(s)]' = [s \in Calls |-> LoadOf(s)]
    BY <2>1 DEF CacheUnsolicited, LoadOf, Live
  <2>3. Retrieval!Learn(u)
    BY <2>1, <2>2 DEF CacheUnsolicited, Retrieval!Learn, Retrieval!callVars
  <2>. QED BY <2>3 DEF Promised, Retrieval!Next
<1>4. CASE ExpireSession \/ \E t \in Calls, b \in Bodies : KmsReplies(t, b)
  <2>1. UNCHANGED <<callVars, keyCache, taskPc>>
    BY <1>4 DEF ExpireSession, KmsReplies
  <2>2. [s \in Calls |-> LoadOf(s)]' = [s \in Calls |-> LoadOf(s)]
    BY <2>1 DEF LoadOf, Live
  <2>. QED BY <2>1, <2>2 DEF Promised, Retrieval!vars, Retrieval!callVars
<1>. QED BY <1>1, <1>2, <1>3, <1>4 DEF Environment

(* EncryptionClient implements what KeyRetrieval promises of safety.       *)
THEOREM Implements == Spec => Retrieval!Spec
<1>1. Init => Retrieval!Init
  BY DEF Init, Retrieval!Init, LoadOf, Live
<1>2. IInv /\ [Next]_vars => [Retrieval!Next]_Retrieval!vars
  <2>. SUFFICES ASSUME IInv, [Next]_vars PROVE Promised
    BY DEF Promised
  <2>1. CASE Next
    BY <2>1, GetKeyPromised, ResumeCallPromised, TaskStepPromised, EnvironmentPromised DEF Next
  <2>2. CASE UNCHANGED vars
    BY <2>2 DEF vars, Promised, Retrieval!vars, Retrieval!callVars, LoadOf, Live
  <2>. QED BY <2>1, <2>2
<1>. QED BY <1>1, <1>2, Invariance, PTL DEF Spec, Retrieval!Spec

=============================================================================
