---------------------------- MODULE CoreHTTPClient ----------------------------
(***************************************************************************)
(* CoreHTTPClient.request_url (core.py): a request that is answered with   *)
(* one of RETRYABLE_STATUSES is sent again after a sleep, whatever its     *)
(* method; any other answer is returned, and an exception of httpx is      *)
(* raised. The service may have carried an attempt out although its answer *)
(* says otherwise, or never comes.                                         *)
(*                                                                         *)
(* The module that uses it says what the service does (CarryOut) and what  *)
(* the caller does, in the same step, with what it gets (Returns, Raises). *)
(***************************************************************************)
EXTENDS Naturals

CONSTANTS
    Requests,   \* the invocations of request_url
    MaxRetries  \* config.max_retries

VARIABLES
    at,         \* where each request is
    attempt,    \* the number of its present attempt
    carried     \* external: the service has carried out the one on the wire

httpVars == <<at, attempt, carried>>

(* throttled: 423 and 429; gateway: 502, 503 and 504; refused: everything  *)
(* else that is not a success, a body that cannot be parsed included.      *)
Retryable == {"throttled", "gateway"}
Statuses == Retryable \cup {"success", "refused"}

HttpInit ==
    /\ at = [r \in Requests |-> "idle"]
    /\ attempt = [r \in Requests |-> 0]
    /\ carried = [r \in Requests |-> FALSE]

HttpTypeOK ==
    /\ at \in [Requests -> {"idle", "wire", "sleep", "over"}]
    /\ attempt \in [Requests -> 0 .. MaxRetries]
    /\ carried \in [Requests -> BOOLEAN]

Send(r) ==
    /\ at[r] = "idle"
    /\ at' = [at EXCEPT ![r] = "wire"]
    /\ UNCHANGED <<attempt, carried>>

CarryOut(r) ==
    /\ at[r] = "wire" /\ ~carried[r]
    /\ carried' = [carried EXCEPT ![r] = TRUE]
    /\ UNCHANGED <<at, attempt>>

Answers(r, status) ==
    /\ at[r] = "wire"
    /\ status = "success" => carried[r]
    /\ status = "throttled" => ~carried[r]

Leaves(r, place) ==
    /\ at' = [at EXCEPT ![r] = place]
    /\ carried' = [carried EXCEPT ![r] = FALSE]
    /\ UNCHANGED attempt

FinalOrBeyond(r, status) == status \notin Retryable \/ attempt[r] > MaxRetries
Final(r, status) == status \notin Retryable \/ attempt[r] = MaxRetries

Returns(r, status) ==
    /\ Answers(r, status) /\ Final(r, status)
    /\ Leaves(r, "over")

Raises(r) ==
    /\ at[r] = "wire"
    /\ Leaves(r, "over")

Sleeps(r) ==
    /\ \E status \in Statuses : Answers(r, status) /\ ~Final(r, status)
    /\ Leaves(r, "sleep")

Repeats(r) ==
    /\ at[r] = "sleep"
    /\ at' = [at EXCEPT ![r] = "wire"]
    /\ attempt' = [attempt EXCEPT ![r] = @ + 1]
    /\ UNCHANGED carried
===============================================================================
