----------------------------- MODULE KeyRetrieval -----------------------------
(***************************************************************************)
(* What EncryptionClient.get_key promises its callers, without sessions,   *)
(* requests, messages, retries or a table of tasks: a call is served from  *)
(* the cache, or attached to a retrieval of its URI, of which no two run   *)
(* at once, and shares the outcome of that retrieval.                      *)
(* EncryptionRefinement shows that EncryptionClient implements it.         *)
(***************************************************************************)
CONSTANTS Calls, Uris, Malformed, CacheEnabled, None

VARIABLES
    callPc,     \* "idle", "await", or one of Outcomes
    callUri,    \* the URI that a call asks for
    callTask,   \* the retrieval it is attached to, named after its first call
    callKey,    \* the key it returned
    keyCache,   \* the key known for a URI
    load        \* the state of each retrieval

callVars == <<callPc, callUri, callTask, callKey>>
vars == <<callVars, keyCache, load>>

Outcomes == {"done", "failed", "cancelled"}

Init ==
    /\ callPc = [c \in Calls |-> "idle"]
    /\ callUri = [c \in Calls |-> None]
    /\ callTask = [c \in Calls |-> None]
    /\ callKey = [c \in Calls |-> None]
    /\ keyCache = [u \in Uris |-> None]
    /\ load = [t \in Calls |-> "none"]

CacheHit(u) == CacheEnabled /\ keyCache[u] # None

Ask(c, u) ==
    /\ callPc[c] = "idle"
    /\ callUri' = [callUri EXCEPT ![c] = u]
    /\ UNCHANGED keyCache

ServeFromCache(c, u) ==
    /\ Ask(c, u)
    /\ CacheHit(u)
    /\ callPc' = [callPc EXCEPT ![c] = "done"]
    /\ callKey' = [callKey EXCEPT ![c] = u]
    /\ UNCHANGED <<callTask, load>>

Reject(c, u) ==
    /\ Ask(c, u)
    /\ ~CacheHit(u) /\ u \in Malformed
    /\ callPc' = [callPc EXCEPT ![c] = "failed"]
    /\ UNCHANGED <<callTask, callKey, load>>

(* t is the retrieval of u that runs, or one that has just finished and    *)
(* whose outcome not every call has seen.                                  *)
Attach(c, u, t) ==
    /\ Ask(c, u)
    /\ ~CacheHit(u) /\ u \notin Malformed
    /\ callUri[t] = u
    /\ load[t] # "none"
    /\ \E d \in Calls : callPc[d] = "await" /\ callTask[d] = t
    /\ callPc' = [callPc EXCEPT ![c] = "await"]
    /\ callTask' = [callTask EXCEPT ![c] = t]
    /\ UNCHANGED <<callKey, load>>

(* No retrieval of u runs.                                                 *)
StartLoad(c, u) ==
    /\ Ask(c, u)
    /\ ~CacheHit(u) /\ u \notin Malformed
    /\ \A t \in Calls : callUri[t] = u => load[t] # "running"
    /\ callPc' = [callPc EXCEPT ![c] = "await"]
    /\ callTask' = [callTask EXCEPT ![c] = c]
    /\ load' = [load EXCEPT ![c] = "running"]
    /\ UNCHANGED callKey

Finish(t, outcome) ==
    /\ load[t] = "running"
    /\ load' = [load EXCEPT ![t] = outcome]
    /\ keyCache' = IF outcome = "done" /\ CacheEnabled
                     THEN [keyCache EXCEPT ![callUri[t]] = callUri[t]]
                     ELSE keyCache
    /\ UNCHANGED callVars

(* Every attached call ends as the retrieval did: with the key of its own  *)
(* URI, with the error, or cancelled.                                      *)
Resume(c) ==
    /\ callPc[c] = "await"
    /\ load[callTask[c]] \in Outcomes
    /\ callPc' = [callPc EXCEPT ![c] = load[callTask[c]]]
    /\ callKey' = IF load[callTask[c]] = "done" THEN [callKey EXCEPT ![c] = callUri[c]] ELSE callKey
    /\ UNCHANGED <<callUri, callTask, keyCache, load>>

(* A call whose retrieval has finished is cancelled alone. Cancelling it   *)
(* earlier is Finish(callTask[c], "cancelled").                            *)
Cancel(c) ==
    /\ callPc[c] = "await"
    /\ load[callTask[c]] \in Outcomes
    /\ callPc' = [callPc EXCEPT ![c] = "cancelled"]
    /\ UNCHANGED <<callUri, callTask, callKey, keyCache, load>>

(* KMS has pushed the key of u.                                            *)
Learn(u) ==
    /\ keyCache' = [keyCache EXCEPT ![u] = u]
    /\ UNCHANGED <<callVars, load>>

Next ==
    \/ \E c \in Calls, u \in Uris : ServeFromCache(c, u) \/ Reject(c, u) \/ StartLoad(c, u)
    \/ \E c, t \in Calls, u \in Uris : Attach(c, u, t)
    \/ \E t \in Calls, o \in Outcomes : Finish(t, o)
    \/ \E c \in Calls : Resume(c) \/ Cancel(c)
    \/ \E u \in Uris : Learn(u)

Spec == Init /\ [][Next]_vars

(* A retrieval finishes and its calls get its outcome.                     *)
Fairness ==
    /\ \A t \in Calls : WF_vars(\E o \in Outcomes : Finish(t, o))
    /\ \A c \in Calls : WF_vars(Resume(c))

FairSpec == Spec /\ Fairness

=============================================================================
