------------------------- MODULE ThreadedClientProofs -------------------------
(***************************************************************************)
(* The safety properties of ThreadedClient for any number of threads: the  *)
(* types, OneCloser, UrlInForce, and NoLoopLeft, which follows from        *)
(* CloserOwnsLoop. Each action that can disturb IInv has a lemma.          *)
(***************************************************************************)
EXTENDS ThreadedClient, SequenceTheorems, TLAPS

USE OpsAssumption, NoneAssumption, StopAssumption
USE DEF Pcs, ClosePcs, BeforeStop, Tasks, Runs, Alive, Goto, Raise, urlVars, loopVars

-----------------------------------------------------------------------------
(* The queue of the loop: what a thread hands over stays of its kind, and  *)
(* so does what is left when the loop has taken its first callback.        *)
LEMMA HandOver ==
    ASSUME NEW S, NEW q \in Seq(S), NEW e \in S
    PROVE  Append(q, e) \in Seq(S)
BY AppendProperties

LEMMA TakeFirst ==
    ASSUME NEW S, NEW q \in Seq(S), q # <<>>
    PROVE  Head(q) \in S /\ Tail(q) \in Seq(S)
BY HeadTailProperties

-----------------------------------------------------------------------------
(* A URL is accepted only while there is no loop.                          *)
LEMMA SetCustomUrlStep == ASSUME IInv, NEW c \in Calls, SetCustomUrl(c) PROVE IInv'
<1>. USE DEF IInv, SetCustomUrl, UrlIsLate
<1>1. TypeOK'
  BY DEF TypeOK
<1>2. OneCloser'
  BY DEF TypeOK, OneCloser
<1>3. UrlInForce'
  BY DEF TypeOK, UrlInForce, CloserOwnsLoop
<1>4. CloserOwnsLoop'
  BY DEF TypeOK, CloserOwnsLoop
<1>. QED BY <1>1, <1>2, <1>3, <1>4

(* connect() starts a loop only if there is none and no close() has begun. *)
LEMMA ConnectStep == ASSUME IInv, NEW c \in Calls, Connect(c) PROVE IInv'
<1>. USE DEF IInv, Connect, Start, StartSucceeds, StartFailed, ThreadRefused, LoopRefused
<1>1. TypeOK'
  <2>1. pc' \in [Calls -> Pcs]
    BY DEF TypeOK
  <2>2. CASE UNCHANGED <<attached, loop, clientUrl>>
    <3>1. thread' = thread \/ thread' = TRUE
      BY Zenon DEF Connect
    <3>2. thread \in BOOLEAN /\ (attached => thread /\ loop # "none")
      BY DEF TypeOK
    <3>3. CASE thread' = thread
      BY <2>1, <2>2, <3>2, <3>3 DEF TypeOK
    <3>4. CASE thread' = TRUE
      BY <2>1, <2>2, <3>2, <3>4 DEF TypeOK
    <3>. QED BY <3>1, <3>3, <3>4
  <2>3. CASE StartSucceeds(c)
    BY <2>1, <2>3 DEF TypeOK
  <2>. QED BY <2>2, <2>3
<1>2. OneCloser'
  BY DEF TypeOK, OneCloser
<1>3. UrlInForce'
  BY DEF TypeOK, UrlInForce
<1>4. CloserOwnsLoop'
  BY DEF TypeOK, CloserOwnsLoop
<1>. QED BY <1>1, <1>2, <1>3, <1>4

(* What a call does up to its result, connect() having published that or   *)
(* not, takes nothing from the loop.                                       *)
LEMMA CheckStep == ASSUME IInv, NEW c \in Calls, Check(c) PROVE IInv'
<1>. USE DEF IInv, Check
<1>1. TypeOK'
  BY DEF TypeOK
<1>2. OneCloser'
  BY DEF TypeOK, OneCloser
<1>3. UrlInForce' /\ CloserOwnsLoop'
  BY DEF TypeOK, UrlInForce, CloserOwnsLoop
<1>. QED BY <1>1, <1>2, <1>3

LEMMA SubmitStep == ASSUME IInv, NEW c \in Calls, Submit(c) PROVE IInv'
<1>. USE DEF IInv, Submit
<1>1. \A S : queue \in Seq(S) /\ c \in S => queue' \in Seq(S)
  BY HandOver
<1>2. TypeOK'
  BY <1>1 DEF TypeOK
<1>3. OneCloser'
  BY DEF TypeOK, OneCloser
<1>4. UrlInForce' /\ CloserOwnsLoop'
  BY <1>1 DEF TypeOK, UrlInForce, CloserOwnsLoop
<1>. QED BY <1>2, <1>3, <1>4

LEMMA ResultStep == ASSUME IInv, NEW c \in Calls, Result(c) PROVE IInv'
<1>. USE DEF IInv, Result
<1>1. TypeOK'
  BY DEF TypeOK
<1>2. OneCloser'
  BY DEF TypeOK, OneCloser
<1>3. UrlInForce' /\ CloserOwnsLoop'
  BY DEF TypeOK, UrlInForce, CloserOwnsLoop
<1>. QED BY <1>1, <1>2, <1>3

LEMMA PublishStep == ASSUME IInv, NEW c \in Calls, Publish(c) PROVE IInv'
<1>. USE DEF IInv, Publish
<1>1. TypeOK'
  BY DEF TypeOK
<1>2. OneCloser'
  BY DEF TypeOK, OneCloser
<1>3. UrlInForce' /\ CloserOwnsLoop'
  BY DEF TypeOK, UrlInForce, CloserOwnsLoop
<1>. QED BY <1>1, <1>2, <1>3

-----------------------------------------------------------------------------
(* Of several that close, the first to take the lock goes on: as long as   *)
(* the client is not marked there is no closer.                            *)
LEMMA CloseStep == ASSUME IInv, NEW c \in Calls, Close(c) PROVE IInv'
<1>. USE DEF IInv, Close, EnterClose
<1>1. TypeOK'
  BY DEF TypeOK
<1>2. OneCloser'
  BY DEF TypeOK, OneCloser, CloserOwnsLoop
<1>3. UrlInForce' /\ CloserOwnsLoop'
  BY DEF TypeOK, UrlInForce, CloserOwnsLoop
<1>. QED BY <1>1, <1>2, <1>3

LEMMA SubmitShutdownStep == ASSUME IInv, NEW c \in Calls, SubmitShutdown(c) PROVE IInv'
<1>. USE DEF IInv, SubmitShutdown
<1>1. \A S : queue \in Seq(S) /\ c \in S => queue' \in Seq(S)
  BY HandOver
<1>2. TypeOK'
  BY <1>1 DEF TypeOK
<1>3. OneCloser'
  BY DEF TypeOK, OneCloser
<1>4. UrlInForce' /\ CloserOwnsLoop'
  BY <1>1 DEF TypeOK, UrlInForce, CloserOwnsLoop
<1>. QED BY <1>2, <1>3, <1>4

LEMMA ShutdownResultStep == ASSUME IInv, NEW c \in Calls, ShutdownResult(c) PROVE IInv'
<1>. USE DEF IInv, ShutdownResult
<1>1. TypeOK'
  BY DEF TypeOK
<1>2. OneCloser'
  BY DEF TypeOK, OneCloser
<1>3. UrlInForce' /\ CloserOwnsLoop'
  BY DEF TypeOK, UrlInForce, CloserOwnsLoop
<1>. QED BY <1>1, <1>2, <1>3

(* From here on the queue holds loop.stop; with it the only closer leaves  *)
(* BeforeStop.                                                             *)
LEMMA StopLoopStep == ASSUME IInv, NEW c \in Calls, StopLoop(c) PROVE IInv'
<1>. USE DEF IInv, StopLoop
<1>1. queue' \in Seq(Calls \cup {Stop})
  BY HandOver DEF TypeOK
<1>2. TypeOK'
  BY <1>1 DEF TypeOK
<1>3. OneCloser'
  BY DEF TypeOK, OneCloser
<1>4. UrlInForce' /\ CloserOwnsLoop'
  BY DEF TypeOK, OneCloser, UrlInForce, CloserOwnsLoop
<1>. QED BY <1>2, <1>3, <1>4

(* thread.join() returns when the loop has ended.                          *)
LEMMA JoinedStep == ASSUME IInv, NEW c \in Calls, Joined(c) PROVE IInv'
<1>. USE DEF IInv, Joined
<1>1. TypeOK'
  BY DEF TypeOK
<1>2. OneCloser'
  BY DEF TypeOK, OneCloser
<1>3. UrlInForce' /\ CloserOwnsLoop'
  BY DEF TypeOK, UrlInForce, CloserOwnsLoop
<1>. QED BY <1>1, <1>2, <1>3

LEMMA ClearStep == ASSUME IInv, NEW c \in Calls, Clear(c) PROVE IInv'
<1>. USE DEF IInv, Clear
<1>1. TypeOK'
  BY DEF TypeOK
<1>2. OneCloser'
  BY DEF TypeOK, OneCloser
<1>3. UrlInForce' /\ CloserOwnsLoop'
  BY DEF TypeOK, UrlInForce, CloserOwnsLoop
<1>. QED BY <1>1, <1>2, <1>3

-----------------------------------------------------------------------------
(* A queue without loop.stop cannot stop the loop, and stays without it.   *)
LEMMA RunCallbackStep == ASSUME IInv, RunCallback PROVE IInv'
<1>. USE DEF IInv, RunCallback
<1>1. Head(queue) \in Calls \cup {Stop} /\ queue' \in Seq(Calls \cup {Stop})
  BY TakeFirst DEF TypeOK
<1>2. ASSUME queue \in Seq(Calls) PROVE queue' \in Seq(Calls) /\ UNCHANGED loop
  BY <1>2, TakeFirst
<1>3. TypeOK'
  BY <1>1 DEF TypeOK
<1>4. OneCloser'
  BY <1>2 DEF TypeOK, OneCloser, CloserOwnsLoop
<1>5. UrlInForce'
  BY DEF TypeOK, UrlInForce
<1>6. CloserOwnsLoop'
  <2>1. ~closed => loop' = IF attached THEN "running" ELSE "none"
    BY <1>2 DEF CloserOwnsLoop
  <2>2. closed => \E c \in Calls : pc[c] \in BeforeStop \cup {"join", "brokenJoin"}
    BY DEF CloserOwnsLoop
  <2>. QED BY <1>2, <2>1, <2>2 DEF CloserOwnsLoop
<1>. QED BY <1>3, <1>4, <1>5, <1>6

(* The coroutines of the loop change tasks and Mercury only.               *)
LEMMA TaskStepStep == ASSUME IInv, NEW c \in Calls, TaskStep(c) PROVE IInv'
<1>. USE DEF IInv
<1>1. /\ UNCHANGED <<closed, connected, thread, attached, customUrl, clientUrl, loop, queue, op, pc>>
      /\ mercury' \in {"off", "connecting", "on"} /\ task' \in [Calls -> Tasks]
  BY DEF TypeOK, TaskStep, JoinMercury, MercuryAnswers, TaskEnds
<1>2. TypeOK'
  BY <1>1 DEF TypeOK
<1>3. OneCloser' /\ UrlInForce' /\ CloserOwnsLoop'
  BY <1>1 DEF OneCloser, UrlInForce, CloserOwnsLoop
<1>. QED BY <1>2, <1>3

(* The end of the loop: no closer is before its stop any more.             *)
LEMMA EndOfLoopStep == ASSUME IInv, Drain \/ Drained \/ CloseLoop PROVE IInv'
<1>. USE DEF IInv
<1>1. /\ UNCHANGED <<closed, connected, thread, attached, customUrl, clientUrl, mercury, op, pc>>
      /\ loop \in {"stopping", "draining", "drained"}
      /\ loop' \in {"draining", "drained", "closed"}
      /\ queue' \in {queue, <<>>} /\ task' \in [Calls -> Tasks]
  <2>1. CASE Drain
    <3>1. task' \in [Calls -> Tasks]
      BY <2>1 DEF TypeOK, Drain, CancelTasks, Tasks
    <3>. QED BY <2>1, <3>1 DEF Drain
  <2>2. CASE Drained
    BY <2>2 DEF TypeOK, Drained
  <2>3. CASE CloseLoop
    BY <2>3 DEF TypeOK, CloseLoop
  <2>. QED BY <2>1, <2>2, <2>3
<1>2. queue' \in Seq(Calls \cup {Stop})
  <2>1. queue \in Seq(Calls \cup {Stop}) /\ <<>> \in Seq(Calls \cup {Stop})
    BY EmptySeq DEF TypeOK
  <2>. QED BY <1>1, <2>1
<1>3. TypeOK'
  BY <1>1, <1>2 DEF TypeOK
<1>4. OneCloser' /\ UrlInForce' /\ CloserOwnsLoop'
  BY <1>1 DEF TypeOK, OneCloser, UrlInForce, CloserOwnsLoop
<1>. QED BY <1>3, <1>4

-----------------------------------------------------------------------------
LEMMA InitIInv == Init => IInv
<1>1. <<>> \in Seq(Calls) /\ <<>> \in Seq(Calls \cup {Stop})
  BY EmptySeq
<1>. QED
  BY <1>1 DEF Init, IInv, TypeOK, OneCloser, UrlInForce, CloserOwnsLoop

LEMMA Invariance == Spec => []IInv
<1>1. ASSUME IInv, [Next]_vars PROVE IInv'
  <2>1. CASE UNCHANGED vars
    BY <1>1, <2>1 DEF vars, IInv, TypeOK, OneCloser, UrlInForce, CloserOwnsLoop
  <2>2. CASE Next
    BY <1>1, <2>2, SetCustomUrlStep, ConnectStep, CheckStep, SubmitStep, ResultStep,
       PublishStep, CloseStep, SubmitShutdownStep, ShutdownResultStep, StopLoopStep,
       JoinedStep, ClearStep, RunCallbackStep, TaskStepStep, EndOfLoopStep
       DEF Next, CallStep
  <2>. QED BY <1>1, <2>1, <2>2
<1>. QED BY <1>1, InitIInv, PTL DEF Spec

-----------------------------------------------------------------------------
(* Every field, program counter and task keeps its type, and _loop and     *)
(* _client are set only with a thread that has run.                        *)
THEOREM TypeCorrect == Spec => []TypeOK
BY Invariance, PTL DEF IInv

(* However many threads call close(), and connects that fail call it, one  *)
(* of them only stops the loop, after the shutdown it has awaited.         *)
THEOREM SingleCloser == Spec => []OneCloser
BY Invariance, PTL DEF IInv

(* The custom URL that set_custom_websocket_url has accepted is the one    *)
(* that the client was started with.                                       *)
THEOREM AcceptedUrl == Spec => []UrlInForce
BY Invariance, PTL DEF IInv

(* A closed client with no call in progress has left no background thread. *)
THEOREM NoThreadLeft == Spec => []NoLoopLeft
<1>1. IInv => NoLoopLeft
  BY DEF IInv, CloserOwnsLoop, NoLoopLeft
<1>. QED BY <1>1, Invariance, PTL
=============================================================================
