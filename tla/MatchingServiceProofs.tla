------------------------ MODULE MatchingServiceProofs ------------------------
(***************************************************************************)
(* Theorems about MatchingService for every value of its constants: what    *)
(* the service answers is true when it is given and stays true, whatever    *)
(* the interleaving of handlers, claims, timers, sweeps and departures; the *)
(* same for a wall clock that is set (SteppedClock), where time is not part *)
(* of the statement; and that what clients see is the abstract Rendezvous.  *)
(***************************************************************************)
EXTENDS SteppedClock, ServiceRefinement, QueueRefinementProofs

-----------------------------------------------------------------------------
(* A step of the service is one of the queue, or leaves it alone *)

LEMMA ServiceStepIsQueueStep ==
    ASSUME [ServiceNext]_serviceVars PROVE [QueueNext]_queueVars
<1>1. ASSUME NEW r \in Request, NEW o \in Offer, NEW w \in Worker, Submit(r, o, w)
      PROVE  QueueNext
  BY <1>1 DEF Submit, QueueNext
<1>2. ASSUME NEW r \in Request, NEW o \in Offer, Reject(r, o) PROVE UNCHANGED queueVars
  BY <1>2 DEF Reject
<1>3. ASSUME NEW r \in Request, DropReceiver(r) PROVE QueueNext
  BY <1>3 DEF QueueNext
<1>4. ASSUME NEW r \in Request, Disconnect(r) PROVE QueueNext
  BY <1>3, <1>4 DEF Disconnect
<1>5. ASSUME NEW r \in Request, Add(r) PROVE QueueNext
  BY <1>5 DEF Add, QueueNext
<1>6. ASSUME NEW r \in Request,
             AnswerMatch(r) \/ AnswerFull(r) \/ Receive(r) \/ ChannelDropped(r) \/ TimeoutFires(r)
      PROVE  QueueNext
  BY <1>3, <1>6 DEF AnswerMatch, AnswerFull, Receive, ChannelDropped, TimeoutFires
<1>7. ASSUME NEW r \in Request, StartWaiting(r) PROVE UNCHANGED queueVars
  BY <1>7 DEF StartWaiting
<1>8. ASSUME NEW r \in Request, Withdraw(r) PROVE QueueNext \/ UNCHANGED queueVars
  BY <1>8 DEF Withdraw, QueueNext
<1>9. ASSUME Cleanup PROVE QueueNext
  BY <1>9 DEF Cleanup, QueueNext
<1>10. ASSUME ServiceTick PROVE QueueNext
  BY <1>10 DEF ServiceTick, QueueNext
<1>11. ASSUME UNCHANGED serviceVars PROVE UNCHANGED queueVars
  BY <1>11 DEF serviceVars
<1> QED
  BY <1>1, <1>2, <1>4, <1>5, <1>6, <1>7, <1>8, <1>9, <1>10, <1>11 DEF ServiceNext, Handle

-----------------------------------------------------------------------------
(* Where a handler is and where its call of the queue is *)

HandlerTypes ==
    /\ handler \in [Request -> Handler]
    /\ worker \in [Request -> Worker \union {NoWorker}]
    /\ deadline \in [Request -> Int]
    /\ answer \in [Request -> Answer \union {NoAnswer}]

\* A handler calls add_request once, listens from then on, waits only after it
\* returned None, and listens no more once it stops waiting.
StageOK(r) ==
    /\ handler[r] = "new" => step[r] = Idle /\ r \notin rx
    /\ handler[r] = "adding" => step[r] # Idle /\ r \in rx
    /\ handler[r] = "waiting" => step[r] = "pending" /\ r \in rx
    /\ handler[r] \in {"removing", "dropped"} => step[r] = "pending" /\ r \notin rx
    /\ handler[r] = "done" => step[r] \in {Idle} \union Returned /\ r \notin rx
    /\ handler[r] \in {"adding", "waiting", "removing"} => worker[r] \in Worker

StagesInv == \A r \in Request : StageOK(r)

\* A worker runs one handler at a time.
WorkersInv ==
    \A q, r \in Request : Running(q) /\ Running(r) /\ worker[q] = worker[r] => q = r

HandlerInv == HandlerTypes /\ StagesInv /\ WorkersInv

LEMMA HandlerInvInit == ServiceInit => HandlerInv
BY DEF ServiceInit, QueueInit, HandlerInv, HandlerTypes, Handler, StagesInv, StageOK, WorkersInv,
   Running, Idle

\* The answers the handlers give are answers.
LEMMA FailureType ==
    ASSUME NEW error \in {"ValidationError", "NotFound", "Timeout", "QueueFull"}
    PROVE  /\ Failure(error) \in Answer /\ Failure(error) # NoAnswer
           /\ Failure(error).with = NoRequest
           /\ Failure(error).status \in {400, 404, 408, 429}
BY ServiceAssumption DEF Failure, StatusOf, Answer

LEMMA MatchedType ==
    ASSUME NEW r \in Request, NEW pair \in Pair
    PROVE  /\ Matched(r, pair) \in Answer /\ Matched(r, pair) # NoAnswer
           /\ Matched(r, pair).status = 200
           /\ Matched(r, pair).with = Ours(r, pair).with
           /\ Ours(r, pair).with \in Request
BY ServiceAssumption DEF Matched, Ours, Pair, MatchResult, Answer

LEMMA HandlerInvStep ==
    TypeInv /\ SenderInv /\ HandlerInv /\ [ServiceNext]_serviceVars => HandlerInv'
<1> SUFFICES ASSUME TypeInv, SenderInv, HandlerInv, [ServiceNext]_serviceVars
             PROVE  HandlerInv'
  OBVIOUS
<1>t. /\ step \in [Request -> Step] /\ rx \subseteq Request
      /\ result \in [Request -> Pair \union {NoResult}]
      /\ inbox \in [Request -> Pair \union {NoResult}]
      /\ body \in [Request -> QueuedRequest \union {NoBody}]
      /\ handler \in [Request -> Handler]
      /\ worker \in [Request -> Worker \union {NoWorker}]
      /\ deadline \in [Request -> Int]
      /\ answer \in [Request -> Answer \union {NoAnswer}]
      /\ now \in Nat /\ BodyInv
  BY DEF TypeInv, TypeOK, HandlerInv, HandlerTypes
<1> USE DEF Goto, Idle, Handler
\* A step of the handler of r: no other handler, call or receiver is touched.
<1>0. ASSUME NEW r \in Request, HandlerTypes', StageOK(r)',
             \A q \in Request : q # r =>
                 /\ handler'[q] = handler[q] /\ worker'[q] = worker[q]
                 /\ step'[q] = step[q] /\ (q \in rx' <=> q \in rx),
             Running(r)' => \A q \in Request : q # r /\ Running(q) => worker[q] # worker'[r]
      PROVE  HandlerInv'
  <2>1. StagesInv'
    BY <1>0 DEF StageOK, StagesInv, HandlerInv
  <2>2. WorkersInv'
    BY <1>0 DEF StageOK, WorkersInv, Running, HandlerInv
  <2> QED BY <1>0, <2>1, <2>2 DEF HandlerInv
\* Steps of the queue alone.
<1>q. ASSUME UNCHANGED serviceOnlyVars, StagesInv' PROVE HandlerInv'
  BY <1>q DEF serviceOnlyVars, HandlerInv, HandlerTypes, WorkersInv, Running
<1>1. ASSUME NEW r \in Request, NEW o \in Offer, NEW w \in Worker, Submit(r, o, w)
      PROVE  HandlerInv'
  <2>1. /\ handler' = [handler EXCEPT ![r] = "adding"] /\ worker' = [worker EXCEPT ![r] = w]
        /\ step' = [step EXCEPT ![r] = "check"] /\ rx' = rx \union {r}
        /\ UNCHANGED <<deadline, answer>> /\ Free(w)
    BY <1>1 DEF Submit, AddRequest
  <2>2. HandlerTypes' /\ StageOK(r)'
    BY <2>1, <1>t DEF HandlerTypes, StageOK
  <2> QED BY <1>0, <1>t, <2>1, <2>2 DEF Free
\* An answer, and the end of its wait.
<1>a. ASSUME NEW r \in Request, NEW a \in Answer, Respond(r, a),
             step[r] \in {Idle} \union Returned, UNCHANGED step, rx' = rx \ {r}
      PROVE  HandlerInv'
  <2>1. /\ handler' = [handler EXCEPT ![r] = "done"] /\ answer' = [answer EXCEPT ![r] = a]
        /\ UNCHANGED <<worker, deadline>>
    BY <1>a DEF Respond
  <2>2. HandlerTypes' /\ StageOK(r)' /\ ~Running(r)'
    BY <2>1, <1>a, <1>t DEF HandlerTypes, StageOK, Running
  <2> QED BY <1>0, <1>a, <1>t, <2>1, <2>2
<1>2. ASSUME NEW r \in Request, NEW o \in Offer, Reject(r, o) PROVE HandlerInv'
  <2>1. handler[r] = "new" /\ UNCHANGED <<step, rx>> /\ Respond(r, Failure("ValidationError"))
    BY <1>2 DEF Reject, queueVars
  <2>2. step[r] = Idle /\ rx' = rx \ {r}
    BY <2>1 DEF HandlerInv, StagesInv, StageOK
  <2> QED BY <1>a, <2>1, <2>2, FailureType
<1>3. ASSUME NEW r \in Request, Disconnect(r) PROVE HandlerInv'
  <2>1. /\ handler[r] = "waiting" /\ handler' = [handler EXCEPT ![r] = "dropped"]
        /\ UNCHANGED <<worker, deadline, answer, step>> /\ rx' = rx \ {r}
    BY <1>3 DEF Disconnect, DropReceiver
  <2>2. step[r] = "pending"
    BY <2>1 DEF HandlerInv, StagesInv, StageOK
  <2>3. HandlerTypes' /\ StageOK(r)' /\ ~Running(r)'
    BY <2>1, <2>2, <1>t DEF HandlerTypes, StageOK, Running
  <2> QED BY <1>0, <1>t, <2>1, <2>3
<1>4. ASSUME NEW r \in Request, Add(r) PROVE HandlerInv'
  <2>1. /\ step[r] \in Inside /\ UNCHANGED rx /\ UNCHANGED serviceOnlyVars
        /\ \E s \in Inside \union Returned : step' = [step EXCEPT ![r] = s]
    BY <1>4 DEF Add, CheckCapacity, Insert, FindMatch, Exchange, Claim, Notify, Announce,
       Inside, Returned
  <2>2. step[r] \notin {Idle} \union Returned
    BY <2>1 DEF Inside, Returned
  <2>3. handler[r] = "adding"
    BY <2>2, <1>t DEF HandlerInv, StagesInv, StageOK, Returned
  <2>4. UNCHANGED <<handler, worker, rx>>
    BY <2>1 DEF serviceOnlyVars
  <2>5. StageOK(r)'
    BY <2>1, <2>3, <2>4, <1>t DEF HandlerInv, StagesInv, StageOK, Inside, Returned
  <2>6. ASSUME NEW q \in Request, q # r PROVE StageOK(q)'
    <3>1. StageOK(q) /\ step'[q] = step[q]
      BY <2>1, <2>6, <1>t DEF HandlerInv, StagesInv
    <3> QED BY <2>4, <3>1 DEF StageOK
  <2>7. StagesInv'
    BY <2>5, <2>6 DEF StagesInv
  <2> QED BY <1>q, <2>1, <2>7
<1>5. ASSUME NEW r \in Request, AnswerMatch(r) PROVE HandlerInv'
  <2>1. /\ step[r] = "matched" /\ UNCHANGED step /\ rx' = rx \ {r}
        /\ Respond(r, Matched(r, result[r]))
    BY <1>5 DEF AnswerMatch, DropReceiver
  <2>2. result[r] \in Pair
    BY <2>1 DEF SenderInv
  <2> QED BY <1>a, <2>1, <2>2, MatchedType DEF Returned
<1>6. ASSUME NEW r \in Request, AnswerFull(r) PROVE HandlerInv'
  <2>1. /\ step[r] = "full" /\ UNCHANGED step /\ rx' = rx \ {r}
        /\ Respond(r, Failure("QueueFull"))
    BY <1>6 DEF AnswerFull, DropReceiver
  <2> QED BY <1>a, <2>1, FailureType DEF Returned
<1>7. ASSUME NEW r \in Request, StartWaiting(r) PROVE HandlerInv'
  <2>1. /\ handler[r] = "adding" /\ step[r] = "pending"
        /\ handler' = [handler EXCEPT ![r] = "waiting"]
        /\ deadline' = [deadline EXCEPT ![r] = now + (body[r].expires - body[r].timestamp)]
        /\ UNCHANGED <<worker, answer, step, rx>>
    BY <1>7 DEF StartWaiting, queueVars
  <2>2. r \in rx /\ worker[r] \in Worker
    BY <2>1 DEF HandlerInv, StagesInv, StageOK
  <2>3. now + (body[r].expires - body[r].timestamp) \in Int
    <3>1. body[r] \in QueuedRequest
      BY <2>1, <1>t DEF BodyInv
    <3> QED BY <1>t, <3>1 DEF QueuedRequest
  <2>4. HandlerTypes' /\ StageOK(r)' /\ ~Running(r)'
    BY <2>1, <2>2, <2>3, <1>t DEF HandlerTypes, StageOK, Running
  <2> QED BY <1>0, <1>t, <2>1, <2>4
<1>8. ASSUME NEW r \in Request, Receive(r) PROVE HandlerInv'
  <2>1. /\ inbox[r] \in Pair /\ UNCHANGED step /\ rx' = rx \ {r} /\ step[r] \in Returned
        /\ Respond(r, Matched(r, inbox[r]))
    BY <1>8, <1>t DEF Receive, DropReceiver
  <2> QED BY <1>a, <2>1, MatchedType
<1>9. ASSUME NEW r \in Request, ChannelDropped(r) PROVE HandlerInv'
  <2>1. /\ UNCHANGED step /\ rx' = rx \ {r} /\ step[r] \in Returned
        /\ Respond(r, Failure("NotFound"))
    BY <1>9 DEF ChannelDropped, DropReceiver
  <2> QED BY <1>a, <2>1, FailureType
<1>10. ASSUME NEW r \in Request, TimeoutFires(r) PROVE HandlerInv'
  <2>1. /\ handler[r] = "waiting" /\ handler' = [handler EXCEPT ![r] = "removing"]
        /\ UNCHANGED <<worker, deadline, answer, step>> /\ rx' = rx \ {r} /\ Free(worker[r])
    BY <1>10 DEF TimeoutFires, DropReceiver
  <2>2. step[r] = "pending" /\ worker[r] \in Worker
    BY <2>1 DEF HandlerInv, StagesInv, StageOK
  <2>3. HandlerTypes' /\ StageOK(r)'
    BY <2>1, <2>2, <1>t DEF HandlerTypes, StageOK
  <2> QED BY <1>0, <1>t, <2>1, <2>3 DEF Free
<1>11. ASSUME NEW r \in Request, Withdraw(r) PROVE HandlerInv'
  <2>1. handler[r] = "removing" /\ UNCHANGED <<step, rx>> /\ Respond(r, Failure("Timeout"))
    BY <1>11 DEF Withdraw, RemoveRequest, queueVars
  <2>2. step[r] = "pending" /\ rx' = rx \ {r}
    BY <2>1 DEF HandlerInv, StagesInv, StageOK
  <2> QED BY <1>a, <2>1, <2>2, FailureType DEF Returned
<1>12. ASSUME UNCHANGED <<step, rx>>, UNCHANGED serviceOnlyVars PROVE HandlerInv'
  BY <1>q, <1>12 DEF HandlerInv, StagesInv, StageOK, serviceOnlyVars
<1>13. CASE Cleanup
  BY <1>12, <1>13 DEF Cleanup, CleanupScan, CleanupRemove, CleanupReport
<1>14. CASE ServiceTick
  BY <1>12, <1>14 DEF ServiceTick, Tick
<1>15. CASE UNCHANGED serviceVars
  BY <1>12, <1>15 DEF serviceVars, queueVars
<1> QED
  BY <1>1, <1>2, <1>3, <1>4, <1>5, <1>6, <1>7, <1>8, <1>9, <1>10, <1>11, <1>13, <1>14, <1>15
  DEF ServiceNext, Handle

-----------------------------------------------------------------------------
(* The queue never holds a handler back *)

\* Every call in progress has a worker of its own, so an idle worker leaves room
\* for one more.
LEMMA IdleWorkerMeansRoom ==
    ASSUME TypeOK, HandlerInv, NEW w \in Worker, Free(w)
    PROVE  Cardinality(Adding) < Callers
<1>1. \A r \in Adding : r \in Request /\ step[r] \in Inside
  BY DEF Adding
<1>2. \A r \in Adding : handler[r] = "adding"
  BY <1>1 DEF HandlerInv, HandlerTypes, Handler, StagesInv, StageOK, Inside, Returned, Idle
<1>3. \A r \in Adding : Running(r) /\ worker[r] \in Worker \ {w}
  BY <1>1, <1>2 DEF HandlerInv, StagesInv, StageOK, Running, Free
<1> DEFINE f == [r \in Adding |-> worker[r]]
<1>4. f \in Injection(Adding, Worker \ {w})
  BY <1>1, <1>3 DEF Injection, IsInjective, HandlerInv, WorkersInv
<1>5. IsFiniteSet(Worker \ {w}) /\ Cardinality(Worker \ {w}) = Callers - 1
  BY ServiceAssumption, FS_RemoveElement
<1>6. IsFiniteSet(Adding) /\ Cardinality(Adding) <= Callers - 1
  BY <1>4, <1>5, FS_Injection
<1>7. Cardinality(Adding) \in Nat /\ Callers \in Nat
  BY <1>6, FS_CardinalityType, QueueAssumption
<1> QED BY <1>6, <1>7

\* The queue's side of the handlers.
QueueInv == TypeInv /\ ClaimInv /\ SenderInv

-----------------------------------------------------------------------------
(* An answer is true when it is given, and stays true *)

\* What the queue says of a request that got the answer it got.
Truthful(r) ==
    \/ step[r] = Idle /\ answer[r] = Failure("ValidationError")
    \/ step[r] = "full" /\ answer[r] = Failure("QueueFull")
    \/ step[r] = "matched" /\ answer[r] = Matched(r, result[r])
    \/ step[r] = "pending" /\ inbox[r] # NoResult /\ answer[r] = Matched(r, inbox[r])
    \/ /\ step[r] = "pending" /\ r \notin requests
       /\ \/ answer[r] = Failure("Timeout")
          \/ answer[r] = Failure("NotFound") /\ \A c \in Request : ~Claimed(c, r)

AnswerInv ==
    \A r \in Request :
        /\ handler[r] = "done" => Truthful(r)
        /\ handler[r] # "done" => answer[r] = NoAnswer

LEMMA AnswerInvInit == ServiceInit => AnswerInv
BY DEF ServiceInit, AnswerInv

\* A handler answers once, in the step in which it ends.
LEMMA AnswersOnce ==
    ASSUME TypeOK, HandlerInv, [ServiceNext]_serviceVars, NEW r \in Request
    PROVE  /\ handler[r] = "done" => handler'[r] = "done" /\ answer'[r] = answer[r]
           /\ handler[r] = "done" /\ step[r] = Idle => step'[r] = Idle
           /\ handler'[r] # "done" => answer'[r] = answer[r]
           /\ handler[r] # "done" /\ handler'[r] = "done" =>
                 \/ \E o \in Offer : Reject(r, o)
                 \/ AnswerMatch(r) \/ AnswerFull(r) \/ Receive(r) \/ ChannelDropped(r)
                 \/ Withdraw(r)
<1>t. /\ handler \in [Request -> Handler] /\ answer \in [Request -> Answer \union {NoAnswer}]
      /\ step \in [Request -> Step]
  BY DEF HandlerInv, HandlerTypes, TypeOK
<1> DEFINE Ends ==
              \/ \E o \in Offer : Reject(r, o)
              \/ AnswerMatch(r) \/ AnswerFull(r) \/ Receive(r) \/ ChannelDropped(r)
              \/ Withdraw(r)
           \* r neither ended nor ends.
           Going == /\ handler[r] # "done" /\ handler'[r] # "done" /\ answer'[r] = answer[r]
           \* r is not concerned.
           Kept == /\ handler'[r] = handler[r] /\ answer'[r] = answer[r]
                   /\ step[r] = Idle => step'[r] = Idle
<1>1. ASSUME NEW q \in Request, NEW o \in Offer, NEW w \in Worker, Submit(q, o, w)
      PROVE  Kept \/ Going
  BY <1>1, <1>t DEF Submit, AddRequest, Goto
<1>2. ASSUME NEW q \in Request, NEW o \in Offer, Reject(q, o)
      PROVE  Kept \/ (handler[r] # "done" /\ handler'[r] = "done" /\ Ends)
  <2>1. CASE q = r
    BY <1>2, <2>1, <1>t DEF Reject, Respond
  <2>2. CASE q # r
    BY <1>2, <2>2, <1>t DEF Reject, Respond, queueVars
  <2> QED BY <2>1, <2>2
<1>3. ASSUME NEW q \in Request, Disconnect(q) \/ StartWaiting(q) \/ TimeoutFires(q)
      PROVE  Kept \/ Going
  BY <1>3, <1>t DEF Disconnect, StartWaiting, TimeoutFires, DropReceiver, queueVars
<1>4. ASSUME NEW q \in Request, Add(q) PROVE Kept
  <2>1. UNCHANGED <<handler, answer>>
    BY <1>4 DEF Add, serviceOnlyVars
  <2>2. step[q] \in Inside /\ \A p \in Request : p # q => step'[p] = step[p]
    BY <1>4, <1>t DEF Add, CheckCapacity, Insert, FindMatch, Exchange, Claim, Notify, Announce,
       Goto, Inside
  <2> QED BY <2>1, <2>2 DEF Inside, Idle
<1>5. ASSUME NEW q \in Request,
             AnswerMatch(q) \/ AnswerFull(q) \/ Receive(q) \/ ChannelDropped(q)
      PROVE  Kept \/ (handler[r] # "done" /\ handler'[r] = "done" /\ Ends)
  <2>1. CASE q = r
    BY <1>5, <2>1, <1>t
    DEF AnswerMatch, AnswerFull, Receive, ChannelDropped, DropReceiver, Respond
  <2>2. CASE q # r
    BY <1>5, <2>2, <1>t
    DEF AnswerMatch, AnswerFull, Receive, ChannelDropped, DropReceiver, Respond
  <2> QED BY <2>1, <2>2
<1>6. ASSUME NEW q \in Request, Withdraw(q)
      PROVE  Kept \/ (handler[r] # "done" /\ handler'[r] = "done" /\ Ends)
  <2>1. CASE q = r
    BY <1>6, <2>1, <1>t DEF Withdraw, Respond
  <2>2. CASE q # r
    BY <1>6, <2>2, <1>t DEF Withdraw, RemoveRequest, Respond, queueVars
  <2> QED BY <2>1, <2>2
<1>7. ASSUME Cleanup \/ ServiceTick \/ UNCHANGED serviceVars PROVE Kept
  BY <1>7 DEF Cleanup, CleanupScan, CleanupRemove, CleanupReport, ServiceTick, Tick,
     serviceVars, serviceOnlyVars, queueVars
<1>8. Kept \/ Going \/ (handler[r] # "done" /\ handler'[r] = "done" /\ Ends)
  <2> HIDE DEF Kept, Going, Ends
  <2> QED BY <1>1, <1>2, <1>3, <1>4, <1>5, <1>6, <1>7 DEF ServiceNext, Handle
<1> QED BY <1>8

LEMMA AnswerInvStep ==
    QueueInv /\ HandlerInv /\ AnswerInv /\ [ServiceNext]_serviceVars => AnswerInv'
<1> SUFFICES ASSUME QueueInv, HandlerInv, AnswerInv, [ServiceNext]_serviceVars,
                    NEW r \in Request
             PROVE  /\ handler'[r] = "done" => Truthful(r)'
                    /\ handler'[r] # "done" => answer'[r] = NoAnswer
  BY DEF AnswerInv
<1>t. /\ TypeOK /\ step \in [Request -> Step] /\ requests \subseteq Request
      /\ handler \in [Request -> Handler]
      /\ answer \in [Request -> Answer \union {NoAnswer}]
  BY DEF QueueInv, TypeInv, TypeOK, HandlerInv, HandlerTypes
<1>1. ASSUME handler'[r] # "done" PROVE answer'[r] = NoAnswer
  BY <1>1, <1>t, AnswersOnce DEF AnswerInv
\* What an answer rests on does not change any more.
<1>2. ASSUME handler[r] = "done" PROVE Truthful(r)'
  <2>1. Truthful(r) /\ answer'[r] = answer[r] /\ r \notin rx
        /\ step[r] \in {Idle} \union Returned
    BY <1>2, <1>t, AnswersOnce DEF AnswerInv, HandlerInv, StagesInv, StageOK
  <2>2. CASE step[r] = Idle
    <3>1. step'[r] = Idle /\ answer[r] = Failure("ValidationError")
      BY <1>2, <1>t, <2>1, <2>2, AnswersOnce DEF Truthful, Idle
    <3> QED BY <2>1, <3>1 DEF Truthful, Failure
  <2>3. CASE step[r] \in Returned
    <3>1. /\ step'[r] = step[r] /\ result'[r] = result[r] /\ body'[r] = body[r]
          /\ inbox'[r] = inbox[r]
          /\ r \notin requests => /\ r \notin requests'
                                  /\ \A c \in Request : Claimed(c, r)' => Claimed(c, r)
      BY <2>1, <2>3, ReturnedIsSettled, ServiceStepIsQueueStep DEF QueueInv
    <3>2. Matched(r, result[r])' = Matched(r, result[r])
          /\ Matched(r, inbox[r])' = Matched(r, inbox[r])
      BY <3>1 DEF Matched
    <3>3. \A e : Failure(e)' = Failure(e)
      BY DEF Failure
    <3> QED BY <2>1, <3>1, <3>2, <3>3 DEF Truthful
  <2> QED BY <2>1, <2>2, <2>3
<1>3. ASSUME handler[r] # "done", handler'[r] = "done" PROVE Truthful(r)'
  <2>1. ASSUME NEW o \in Offer, Reject(r, o) PROVE Truthful(r)'
    <3>1. step'[r] = Idle /\ answer'[r] = Failure("ValidationError")
      BY <1>t, <2>1 DEF Reject, Respond, queueVars, HandlerInv, StagesInv, StageOK
    <3> QED BY <3>1 DEF Truthful, Failure
  <2>2. CASE AnswerMatch(r)
    <3>1. step'[r] = "matched" /\ answer'[r] = Matched(r, result[r]) /\ UNCHANGED <<body, result>>
      BY <1>t, <2>2 DEF AnswerMatch, DropReceiver, Respond
    <3> QED BY <3>1 DEF Truthful, Matched
  <2>3. CASE AnswerFull(r)
    <3>1. step'[r] = "full" /\ answer'[r] = Failure("QueueFull")
      BY <1>t, <2>3 DEF AnswerFull, DropReceiver, Respond
    <3> QED BY <3>1 DEF Truthful, Failure
  <2>4. CASE Receive(r)
    <3>1. /\ step'[r] = "pending" /\ inbox'[r] # NoResult /\ answer'[r] = Matched(r, inbox[r])
          /\ UNCHANGED <<body, inbox>>
      BY <1>t, <2>4 DEF Receive, DropReceiver, Respond, HandlerInv, StagesInv, StageOK
    <3> QED BY <3>1 DEF Truthful, Matched
  \* The sender is gone and sent nothing: nobody has claimed the entry, and it
  \* is not in the map.
  <2>5. CASE ChannelDropped(r)
    <3>1. /\ handler[r] = "waiting" /\ inbox[r] = NoResult /\ sender[r] = "gone"
          /\ step[r] = "pending" /\ r \in rx
          /\ answer'[r] = Failure("NotFound")
          /\ UNCHANGED <<requests, step, candidate>>
      BY <1>t, <2>5 DEF ChannelDropped, DropReceiver, Respond, HandlerInv, StagesInv, StageOK
    <3>2. r \notin requests
      BY <3>1 DEF QueueInv, SenderInv
    <3>3. \A c \in Request : ~Claimed(c, r)
      BY <3>1 DEF QueueInv, SenderInv, Claimed
    <3> QED BY <3>1, <3>2, <3>3 DEF Truthful, Failure, Claimed
  <2>6. CASE Withdraw(r)
    <3>1. step'[r] = "pending" /\ answer'[r] = Failure("Timeout") /\ r \notin requests'
      BY <1>t, <2>6 DEF Withdraw, RemoveRequest, Respond, queueVars, HandlerInv, StagesInv,
         StageOK
    <3> QED BY <3>1 DEF Truthful, Failure
  <2> QED BY <1>3, <1>t, <2>1, <2>2, <2>3, <2>4, <2>5, <2>6, AnswersOnce
<1> QED BY <1>1, <1>2, <1>3

-----------------------------------------------------------------------------
(* Answers agree with each other *)

\* All that holds whatever the clock says.
CoreInv == QueueInv /\ DeliveryInv /\ SuitInv /\ HandlerInv /\ AnswerInv

LEMMA CoreInvInit == ServiceInit => CoreInv
BY TypeInvInit, ClaimInvInit, SenderInvInit, DeliveryInvInit, SuitInvInit, HandlerInvInit,
   AnswerInvInit
DEF ServiceInit, CoreInv, QueueInv

LEMMA CoreInvStep == CoreInv /\ [ServiceNext]_serviceVars => CoreInv'
BY ServiceStepIsQueueStep, TypeInvStep, ClaimInvStep, SenderInvStep, DeliveryInvStep,
   SuitInvStep, HandlerInvStep, AnswerInvStep
DEF CoreInv, QueueInv

LEMMA CoreInvHolds == ServiceSpec => []CoreInv
BY CoreInvInit, CoreInvStep, PTL DEF ServiceSpec

\* Setting the clock moves deadlines and nothing else.
LEMMA SetClockKeepsCore == ASSUME CoreInv, NEW d \in Jump, SetClock(d) PROVE CoreInv'
<1>1. /\ now' \in Nat /\ deadline' \in [Request -> Int]
      /\ UNCHANGED <<body, requests, step, candidate, result, sender, rx, inbox, events,
                     sweep, handler, worker, answer>>
  BY QueueAssumption, JumpAssumption DEF SetClock, CoreInv, HandlerInv, HandlerTypes
<1>2. QueueInv'
  BY <1>1 DEF CoreInv, QueueInv, TypeInv, TypeOK, BodyInv, EntriesPosted, ClaimInv, CandidateInv,
     ClaimedOnce, Claimed, SenderInv
<1>3. DeliveryInv' /\ SuitInv'
  BY <1>1 DEF CoreInv, DeliveryInv, Prepared, Content, Ours, SuitInv, BoardSuits, TypesMeet,
     Compatible
<1>4. HandlerInv'
  BY <1>1 DEF CoreInv, HandlerInv, HandlerTypes, StagesInv, StageOK, WorkersInv, Running
<1>5. AnswerInv'
  BY <1>1 DEF CoreInv, AnswerInv, Truthful, Failure, Matched, Ours, Claimed
<1> QED BY <1>2, <1>3, <1>4, <1>5 DEF CoreInv

LEMMA CoreInvHoldsStepped == SteppedSpec => []CoreInv
<1>1. SteppedInit => CoreInv
  BY CoreInvInit DEF SteppedInit
<1>2. CoreInv /\ [SteppedNext]_steppedVars => CoreInv'
  <2> SUFFICES ASSUME CoreInv, [SteppedNext]_steppedVars PROVE CoreInv'
    OBVIOUS
  <2>1. CASE ServiceNext
    BY <2>1, CoreInvStep
  <2>2. ASSUME NEW d \in Jump, SetClock(d) PROVE CoreInv'
    BY <2>2, SetClockKeepsCore
  <2>3. CASE UNCHANGED steppedVars
    BY <2>3, CoreInvStep DEF steppedVars
  <2> QED BY <2>1, <2>2, <2>3 DEF SteppedNext
<1> QED BY <1>1, <1>2, PTL DEF SteppedSpec

\* Setting the clock puts nothing into the map.
LEMMA OvershootHolds == (ServiceSpec \/ SteppedSpec) => []Overshoot
<1>1. SteppedInit => TypeInv /\ OvershootInv
  BY TypeInvInit, OvershootInit DEF SteppedInit, ServiceInit
<1>2. ServiceInit => TypeInv /\ OvershootInv
  BY TypeInvInit, OvershootInit DEF ServiceInit
<1>3. OvershootInv /\ CoreInv /\ [ServiceNext]_serviceVars => OvershootInv'
  BY ServiceStepIsQueueStep, OvershootStep DEF CoreInv, QueueInv
<1>4. OvershootInv /\ CoreInv /\ [SteppedNext]_steppedVars => OvershootInv'
  <2> SUFFICES ASSUME OvershootInv, CoreInv, [SteppedNext]_steppedVars PROVE OvershootInv'
    OBVIOUS
  <2>1. CASE [ServiceNext]_serviceVars
    BY <1>3, <2>1
  <2>2. ASSUME NEW d \in Jump, SetClock(d) PROVE OvershootInv'
    BY <2>2 DEF SetClock, OvershootInv, Overshoot, Adding
  <2> QED BY <2>1, <2>2 DEF SteppedNext, steppedVars
<1>5. OvershootInv => Overshoot
  BY DEF OvershootInv
<1> QED
  BY <1>1, <1>2, <1>3, <1>4, <1>5, CoreInvHolds, CoreInvHoldsStepped, PTL
  DEF ServiceSpec, SteppedSpec

\* What the queue guarantees without regard to time it guarantees the service too,
\* even on a machine whose clock is set: no entry is matched twice, the map
\* outgrows its capacity by the other workers at most, and each side of a match is
\* sent the other with its payload (q_impl.rs:20-53, q_matching.rs:177-417,
\* service.rs:209-268).
THEOREM ClaimsSurviveClock ==
    (ServiceSpec \/ SteppedSpec) => [](ClaimedOnce /\ Overshoot /\ DeliveryMatchesClaim)
<1>1. CoreInv => ClaimedOnce /\ DeliveryMatchesClaim
  BY DeliveryIsOfClaim DEF CoreInv, QueueInv, ClaimInv
<1> QED BY <1>1, OvershootHolds, CoreInvHolds, CoreInvHoldsStepped, PTL

\* The guards that the queue puts on its callers are met whenever a handler gets
\* to them, whether or not the clock is set, so they take no behaviour of the
\* service away (service.rs:209-268).
THEOREM QueueNeverRefuses == (ServiceSpec \/ SteppedSpec) => []CallsAreAllowed
<1>1. CoreInv => CallsAreAllowed
  <2> SUFFICES ASSUME QueueInv, HandlerInv PROVE CallsAreAllowed
    BY DEF CoreInv
  <2>1. (\E w \in Worker : Free(w)) => Cardinality(Adding) < Callers
    BY IdleWorkerMeansRoom DEF QueueInv, TypeInv
  <2>2. \A r \in Request :
          /\ handler[r] = "new" => step[r] = Idle
          /\ handler[r] \in {"adding", "waiting"} => r \in rx
          /\ handler[r] = "removing" => step[r] = "pending" /\ r \notin rx
    BY DEF HandlerInv, StagesInv, StageOK
  <2> QED BY <2>1, <2>2 DEF CallsAreAllowed
<1> QED BY <1>1, CoreInvHolds, CoreInvHoldsStepped, PTL

\* Whoever was told of a partner either made the claim itself, or read the
\* message of the call that claimed it.
LEMMA MatchIsAClaim ==
    ASSUME CoreInv, NEW r \in Request, Status(r) = 200
    PROVE  \/ /\ step[r] = "matched" /\ candidate[r] \in Request /\ candidate[r] # r
              /\ answer[r] = Matched(r, result[r]) /\ answer[r].with = candidate[r]
              /\ Content(r) /\ BoardSuits(body[r], body[candidate[r]])
           \/ /\ step[r] = "pending"
              /\ \E c \in Request :
                    /\ step[c] = "matched" /\ candidate[c] = r /\ c # r
                    /\ answer[r] = Matched(r, result[c]) /\ answer[r].with = c
                    /\ Content(c) /\ BoardSuits(body[c], body[r])
<1>1. answer[r] # NoAnswer /\ answer[r].status = 200
  BY DEF Status
<1>2. Truthful(r)
  BY <1>1 DEF CoreInv, AnswerInv
<1>3. answer[r] \notin {Failure("ValidationError"), Failure("QueueFull"), Failure("Timeout"),
                        Failure("NotFound")}
  BY <1>1, FailureType
<1>4. ASSUME NEW c \in Request, step[c] = "matched"
      PROVE  /\ candidate[c] \in Request /\ candidate[c] # c
             /\ Content(c) /\ BoardSuits(body[c], body[candidate[c]])
  BY <1>4 DEF CoreInv, QueueInv, TypeInv, BodyInv, ClaimInv, CandidateInv, DeliveryInv, Prepared,
     SuitInv
<1>5. CASE step[r] = "matched" /\ answer[r] = Matched(r, result[r])
  BY <1>4, <1>5 DEF Matched, Content
<1>6. CASE step[r] = "pending" /\ inbox[r] # NoResult /\ answer[r] = Matched(r, inbox[r])
  <2>1. PICK c \in Request : step[c] = "matched" /\ candidate[c] = r /\ inbox[r] = result[c]
    BY <1>6 DEF CoreInv, DeliveryInv
  <2>2. answer[r].with = c
    BY <1>4, <1>6, <2>1 DEF Matched, Content
  <2> QED BY <1>4, <1>6, <2>1, <2>2
<1> QED BY <1>2, <1>3, <1>5, <1>6 DEF Truthful

\* A request that waited is told of the very call that claimed it, and that call,
\* once it has answered, was told of the request (service.rs:230-259,
\* q_impl.rs:104).
THEOREM WaitersAndClaimersAgree == (ServiceSpec \/ SteppedSpec) => []WaiterAnswersAreMutual
<1>1. CoreInv => WaiterAnswersAreMutual
  <2> SUFFICES ASSUME CoreInv, NEW w \in Request, Status(w) = 200, step[w] = "pending"
               PROVE  LET c == answer[w].with
                      IN  /\ Claimed(c, w)
                          /\ Status(c) # 0 => Status(c) = 200 /\ answer[c].with = w
    BY DEF WaiterAnswersAreMutual
  <2>1. PICK c \in Request : step[c] = "matched" /\ candidate[c] = w /\ answer[w].with = c
    BY MatchIsAClaim
  <2>2. ASSUME Status(c) # 0 PROVE Status(c) = 200 /\ answer[c].with = w
    <3>1. answer[c] # NoAnswer
      BY <2>2 DEF Status
    <3>2. answer[c] = Matched(c, result[c])
      BY <2>1, <3>1 DEF CoreInv, AnswerInv, Truthful, Idle
    <3>3. Status(c) = 200
      BY <3>1, <3>2 DEF Matched, Status
    <3> QED BY <2>1, <3>3, MatchIsAClaim
  <2> QED BY <2>1, <2>2 DEF Claimed
<1> QED BY <1>1, CoreInvHolds, CoreInvHoldsStepped, PTL

\* Whoever is told of a partner suits it in both directions, however many critical
\* sections ago the search was (matching.rs:5-164).
LEMMA CoreSuits == CoreInv => MatchedAnswersSuit
<1> SUFFICES ASSUME CoreInv, NEW r \in Request, Status(r) = 200
             PROVE  LET p == answer[r].with
                    IN  /\ p # r
                        /\ TypesMeet(body[r], body[p]) /\ Compatible(body[r], body[p])
                        /\ TypesMeet(body[p], body[r]) /\ Compatible(body[p], body[r])
  BY DEF MatchedAnswersSuit
<1>1. ASSUME NEW c \in Request, step[c] = "matched", candidate[c] \in Request
      PROVE  body[c] \in QueuedRequest /\ body[candidate[c]] \in QueuedRequest
  BY <1>1 DEF CoreInv, QueueInv, TypeInv, BodyInv, ClaimInv, CandidateInv, Idle
<1>2. CASE step[r] = "matched"
  <2>1. /\ answer[r].with = candidate[r] /\ candidate[r] \in Request /\ candidate[r] # r
        /\ BoardSuits(body[r], body[candidate[r]])
    BY <1>2, MatchIsAClaim
  <2> QED BY <1>1, <1>2, <2>1, SuitsSymmetric DEF BoardSuits
<1>3. CASE step[r] = "pending"
  <2>1. PICK c \in Request : /\ answer[r].with = c /\ step[c] = "matched" /\ candidate[c] = r
                             /\ c # r /\ BoardSuits(body[c], body[r])
    BY <1>3, MatchIsAClaim
  <2> QED BY <1>1, <2>1, SuitsSymmetric DEF BoardSuits
<1> QED BY <1>2, <1>3, MatchIsAClaim

\* The same under a clock that is set: suitability rests on the two requests
\* alone.
THEOREM MatchesSuit == (ServiceSpec \/ SteppedSpec) => []MatchedAnswersSuit
BY CoreSuits, CoreInvHolds, CoreInvHoldsStepped, PTL

\* Data that is handed over is the partner's: what a side reads was put there for it
\* by the call that made the match, whose partner has the opposite type or is a
\* Bump too (service.rs:336-355, 431-480, q_matching.rs:177-222).
THEOREM PayloadsArrive == (ServiceSpec \/ SteppedSpec) => []PayloadsBelong
<1>1. CoreInv => PayloadsBelong
  <2> SUFFICES ASSUME CoreInv, NEW r \in Request, Status(r) = 200,
                      body[r].type = "Bump" \/ (body[r].type = "Receive" /\ step[r] = "pending")
               PROVE  answer[r].payload = body[answer[r].with].payload
    BY DEF PayloadsBelong
  \* The claimer's side.
  <2>1. CASE step[r] = "matched"
    <3>1. /\ body[r].type = "Bump" /\ answer[r] = Matched(r, result[r])
          /\ answer[r].with = candidate[r] /\ Content(r)
      BY <2>1, MatchIsAClaim
    <3> QED BY <3>1 DEF Matched, Content
  \* The side of the claimed request: its claimer is no Receive.
  <2>2. CASE step[r] = "pending"
    <3>1. PICK c \in Request : /\ answer[r] = Matched(r, result[c]) /\ answer[r].with = c
                               /\ candidate[c] = r /\ step[c] = "matched"
                               /\ Content(c) /\ BoardSuits(body[c], body[r])
      BY <2>2, MatchIsAClaim
    <3>2. body[c].type # "Receive"
      BY <3>1 DEF BoardSuits, TypesMeet, Compatible, Opposite
    <3> QED BY <3>1, <3>2 DEF Matched, Content
  <2> QED BY <2>1, <2>2, MatchIsAClaim
<1> QED BY <1>1, CoreInvHolds, CoreInvHoldsStepped, PTL

\* A request that was told that there is no match for it is out of the queue for
\* good, even if the clock is set (service.rs:257-267, q_impl.rs:126-168).
LEMMA CoreFailuresStayOut == CoreInv => FailuresStayOut
<1> SUFFICES ASSUME CoreInv, NEW r \in Request, Status(r) \in {404, 408}
             PROVE  /\ r \notin requests
                    /\ Status(r) = 404 => ~\E c \in Request : Claimed(c, r)
  BY DEF FailuresStayOut
<1>1. answer[r] # NoAnswer /\ Status(r) = answer[r].status /\ Truthful(r)
  BY DEF Status, CoreInv, AnswerInv
<1>2. /\ Failure("ValidationError").status = 400 /\ Failure("QueueFull").status = 429
      /\ Failure("Timeout").status = 408
  BY DEF Failure, StatusOf
<1>3. \A pair : Matched(r, pair).status = 200
  BY DEF Matched
<1> QED BY <1>1, <1>2, <1>3 DEF Truthful

THEOREM FailuresHold == (ServiceSpec \/ SteppedSpec) => []FailuresStayOut
BY CoreFailuresStayOut, CoreInvHolds, CoreInvHoldsStepped, PTL

-----------------------------------------------------------------------------
(* Time *)

\* A handler enters add_request while clients still submit, so what remains of
\* its request's time fits the bound; its timer ends no earlier than its request,
\* and it fails only when the request's time is up.
TimesInv ==
    \A r \in Request :
        /\ handler[r] = "adding" => now <= LastSubmit
        /\ deadline[r] \in 0..Horizon
        /\ handler[r] = "waiting" => deadline[r] >= body[r].expires
        /\ handler[r] = "removing" \/ Status(r) \in {404, 408} => body[r].expires <= now

LEMMA TimesInvInit == ServiceInit => TimesInv
BY QueueAssumption DEF ServiceInit, TimesInv, Status

\* The times of a body: when it came, its ttl, and both within the bounds.
LEMMA BodyTimes ==
    ASSUME TermsInv, OverlapInv, NEW r \in Request, step[r] # Idle
    PROVE  /\ body[r].timestamp \in 0..Horizon /\ body[r].expires \in Nat
           /\ body[r].timestamp <= now
           /\ body[r].timestamp <= body[r].expires
           /\ LastSubmit + (body[r].expires - body[r].timestamp) <= Horizon
<1>1. PICK o \in Offer, t \in 0..Horizon : body[r].timestamp = t /\ body[r].expires = t + o.ttl
  BY DEF TermsInv, BoardTerms
<1>2. o.ttl \in Nat /\ LastSubmit + o.ttl <= Horizon /\ LastSubmit \in Nat /\ Horizon \in Nat
  BY QueueAssumption, ServiceAssumption
<1> QED BY <1>1, <1>2 DEF OverlapInv

\* Whoever stops waiting or has failed did call add_request, and has its body.
LEMMA FailedHasBody ==
    ASSUME HandlerInv, AnswerInv, NEW r \in Request,
           handler[r] = "removing" \/ Status(r) \in {404, 408}
    PROVE  step[r] # Idle
<1>1. CASE handler[r] = "removing"
  BY <1>1 DEF HandlerInv, StagesInv, StageOK, Idle
<1>2. CASE Status(r) \in {404, 408}
  <2>1. Truthful(r) /\ answer[r].status \in {404, 408}
    BY <1>2 DEF AnswerInv, Status
  <2> QED BY <2>1 DEF Truthful, Failure, StatusOf, Idle
<1> QED BY <1>1, <1>2

LEMMA TimesInvStep ==
    /\ TypeInv /\ ChannelInv /\ OverlapInv /\ TermsInv
    /\ HandlerInv /\ AnswerInv /\ TimesInv
    /\ [ServiceNext]_serviceVars
    => TimesInv'
<1> SUFFICES ASSUME TypeInv, ChannelInv, OverlapInv, TermsInv, HandlerInv, AnswerInv, TimesInv,
                    [ServiceNext]_serviceVars, NEW r \in Request
             PROVE  /\ handler'[r] = "adding" => now' <= LastSubmit
                    /\ deadline'[r] \in 0..Horizon
                    /\ handler'[r] = "waiting" => deadline'[r] >= body'[r].expires
                    /\ handler'[r] = "removing" \/ Status(r)' \in {404, 408}
                          => body'[r].expires <= now'
  BY DEF TimesInv
<1>t. /\ handler \in [Request -> Handler] /\ deadline \in [Request -> Int]
      /\ answer \in [Request -> Answer \union {NoAnswer}]
      /\ body \in [Request -> QueuedRequest \union {NoBody}]
      /\ now \in Nat /\ Horizon \in Nat /\ LastSubmit \in Nat
  BY QueueAssumption, ServiceAssumption DEF HandlerInv, HandlerTypes, TypeInv, TypeOK
<1> DEFINE Goal == /\ handler'[r] = "adding" => now' <= LastSubmit
                   /\ deadline'[r] \in 0..Horizon
                   /\ handler'[r] = "waiting" => deadline'[r] >= body'[r].expires
                   /\ handler'[r] = "removing" \/ Status(r)' \in {404, 408}
                         => body'[r].expires <= now'
\* A step that is not of r's handler, at one instant.
<1>0. ASSUME handler'[r] = handler[r], deadline'[r] = deadline[r], answer'[r] = answer[r],
             body'[r] = body[r], now' = now
      PROVE  Goal
  BY <1>0 DEF TimesInv, Status
\* One that answers r.
<1>a. ASSUME NEW a, Respond(r, a), a # NoAnswer,
             a.status \in {404, 408} => body'[r].expires <= now'
      PROVE  Goal
  BY <1>a, <1>t DEF Respond, TimesInv, Status
\* One that answers another request.
<1>o. ASSUME NEW q \in Request, q # r, NEW a, Respond(q, a), UNCHANGED <<now, body>> PROVE Goal
  BY <1>o, <1>0, <1>t DEF Respond
<1>1. ASSUME NEW q \in Request, NEW o \in Offer, NEW w \in Worker, Submit(q, o, w)
      PROVE  Goal
  <2>1. /\ now <= LastSubmit /\ handler[q] = "new"
        /\ handler' = [handler EXCEPT ![q] = "adding"]
        /\ UNCHANGED <<now, deadline, answer>>
        /\ \A p \in Request : p # q => body'[p] = body[p]
    BY <1>1, <1>t DEF Submit, AddRequest
  <2>2. CASE q = r
    <3>1. answer[r] = NoAnswer
      BY <2>1, <2>2 DEF AnswerInv
    <3> QED BY <1>t, <2>1, <2>2, <3>1 DEF TimesInv, Status
  <2>3. CASE q # r
    BY <1>0, <1>t, <2>1, <2>3
  <2> QED BY <2>2, <2>3
<1>2. ASSUME NEW q \in Request, NEW o \in Offer, Reject(q, o) PROVE Goal
  <2>1. Respond(q, Failure("ValidationError")) /\ UNCHANGED <<now, body>>
    BY <1>2 DEF Reject, queueVars
  <2>2. Failure("ValidationError").status = 400 /\ Failure("ValidationError") # NoAnswer
    BY FailureType DEF Failure, StatusOf
  <2> QED BY <1>a, <1>o, <2>1, <2>2
<1>3. ASSUME NEW q \in Request, Disconnect(q) PROVE Goal
  BY <1>0, <1>3, <1>t DEF Disconnect, DropReceiver, TimesInv, Status
<1>4. ASSUME NEW q \in Request, Add(q) PROVE Goal
  BY <1>0, <1>4 DEF Add, serviceOnlyVars, CheckCapacity, Insert, FindMatch, Exchange, Claim,
     Notify, Announce
<1>5. ASSUME NEW q \in Request, AnswerMatch(q) \/ AnswerFull(q) \/ Receive(q) PROVE Goal
  <2>1. UNCHANGED <<now, body>>
    BY <1>5 DEF AnswerMatch, AnswerFull, Receive, DropReceiver
  <2>2. PICK a : Respond(q, a) /\ a.status \in {200, 429} /\ a # NoAnswer
    <3>1. CASE AnswerFull(q)
      <4>1. Failure("QueueFull").status = 429 /\ Failure("QueueFull") # NoAnswer
        BY FailureType DEF Failure, StatusOf
      <4> QED BY <3>1, <4>1 DEF AnswerFull
    <3>2. CASE AnswerMatch(q)
      <4>1. result[q] \in Pair
        BY <3>2 DEF AnswerMatch, ChannelInv
      <4> QED BY <3>2, <4>1, MatchedType DEF AnswerMatch
    <3>3. CASE Receive(q)
      <4>1. inbox[q] \in Pair
        BY <3>3 DEF Receive, TypeInv, TypeOK
      <4> QED BY <3>3, <4>1, MatchedType DEF Receive
    <3> QED BY <1>5, <3>1, <3>2, <3>3
  <2> QED BY <1>a, <1>o, <2>1, <2>2
\* The timer of a whole ttl starts at now, after the body was made.
<1>6. ASSUME NEW q \in Request, StartWaiting(q) PROVE Goal
  <2>1. /\ handler[q] = "adding" /\ step[q] = "pending"
        /\ handler' = [handler EXCEPT ![q] = "waiting"]
        /\ deadline' = [deadline EXCEPT ![q] = now + (body[q].expires - body[q].timestamp)]
        /\ UNCHANGED <<now, body, answer>>
    BY <1>6 DEF StartWaiting, queueVars
  <2>2. CASE q = r
    <3>1. /\ body[r].timestamp \in 0..Horizon /\ body[r].expires \in Nat
          /\ body[r].timestamp <= now
          /\ body[r].timestamp <= body[r].expires
          /\ LastSubmit + (body[r].expires - body[r].timestamp) <= Horizon
      BY <2>1, <2>2, BodyTimes DEF Idle
    <3>2. now <= LastSubmit /\ answer[r] = NoAnswer
      BY <2>1, <2>2 DEF TimesInv, AnswerInv
    <3> QED BY <1>t, <2>1, <2>2, <3>1, <3>2 DEF Status
  <2>3. CASE q # r
    BY <1>0, <1>t, <2>1, <2>3
  <2> QED BY <2>2, <2>3
\* Who still listens on a channel whose sender is gone has a message, or its time
\* is up.
<1>7. ASSUME NEW q \in Request, ChannelDropped(q) PROVE Goal
  <2>1. /\ handler[q] = "waiting" /\ inbox[q] = NoResult /\ sender[q] = "gone"
        /\ Respond(q, Failure("NotFound")) /\ UNCHANGED <<now, body>>
    BY <1>7 DEF ChannelDropped, DropReceiver
  <2>2. step[q] = "pending" /\ q \in rx
    BY <2>1 DEF HandlerInv, StagesInv, StageOK
  <2>3. body[q].expires <= now
    BY <2>1, <2>2 DEF ChannelInv, Outcome, Unposted
  <2> QED BY <1>a, <1>o, <2>1, <2>3, FailureType
<1>8. ASSUME NEW q \in Request, TimeoutFires(q) PROVE Goal
  <2>1. /\ handler[q] = "waiting" /\ now >= deadline[q]
        /\ handler' = [handler EXCEPT ![q] = "removing"]
        /\ UNCHANGED <<now, body, deadline, answer>>
    BY <1>8 DEF TimeoutFires, DropReceiver
  <2>2. CASE q = r
    <3>1. deadline[r] \in 0..Horizon /\ deadline[r] >= body[r].expires /\ answer[r] = NoAnswer
      BY <2>1, <2>2 DEF TimesInv, AnswerInv
    <3>2. body[r].expires \in Nat
      BY <2>1, <2>2, BodyTimes DEF HandlerInv, StagesInv, StageOK, Idle
    <3> QED BY <1>t, <2>1, <2>2, <3>1, <3>2
  <2>3. CASE q # r
    BY <1>0, <1>t, <2>1, <2>3
  <2> QED BY <2>2, <2>3
<1>9. ASSUME NEW q \in Request, Withdraw(q) PROVE Goal
  <2>1. handler[q] = "removing" /\ Respond(q, Failure("Timeout")) /\ UNCHANGED <<now, body>>
    BY <1>9 DEF Withdraw, RemoveRequest, queueVars
  <2>2. body[q].expires <= now
    BY <2>1 DEF TimesInv
  <2> QED BY <1>a, <1>o, <2>1, <2>2, FailureType
<1>10. ASSUME Cleanup PROVE Goal
  BY <1>0, <1>10 DEF Cleanup, CleanupScan, CleanupRemove, CleanupReport, serviceOnlyVars
<1>11. ASSUME ServiceTick PROVE Goal
  <2>1. /\ now' = now + 1 /\ UNCHANGED <<body, handler, deadline, answer>>
        /\ now >= LastSubmit => handler[r] # "adding"
    BY <1>11 DEF ServiceTick, Tick, serviceOnlyVars, Running
  <2>2. ASSUME handler[r] = "removing" \/ Status(r) \in {404, 408}
        PROVE  body[r].expires <= now + 1
    <3>1. body[r].expires \in Nat
      BY <2>2, FailedHasBody, BodyTimes
    <3>2. body[r].expires <= now
      BY <2>2 DEF TimesInv
    <3> QED BY <1>t, <3>1, <3>2
  <2> QED BY <1>t, <2>1, <2>2 DEF TimesInv, Status
<1>12. ASSUME UNCHANGED serviceVars PROVE Goal
  BY <1>0, <1>12 DEF serviceVars, serviceOnlyVars, queueVars
<1> QED
  <2> HIDE DEF Goal
  <2>1. Goal
    BY <1>1, <1>2, <1>3, <1>4, <1>5, <1>6, <1>7, <1>8, <1>9, <1>10, <1>11, <1>12
    DEF ServiceNext, Handle
  <2> QED BY <2>1 DEF Goal

\* All that holds of the service with the one clock of its module.
ServiceInv == CoreInv /\ ChannelInv /\ OverlapInv /\ TermsInv /\ TimesInv

LEMMA ServiceInvStep == ServiceInv /\ [ServiceNext]_serviceVars => ServiceInv'
<1> SUFFICES ASSUME ServiceInv, [ServiceNext]_serviceVars PROVE ServiceInv'
  OBVIOUS
<1>1. CoreInv'
  BY CoreInvStep DEF ServiceInv
<1>2. ChannelInv' /\ OverlapInv' /\ TermsInv'
  BY ServiceStepIsQueueStep, ChannelInvStep, OverlapInvStep, TermsInvStep
  DEF ServiceInv, CoreInv, QueueInv
<1>3. TimesInv'
  BY TimesInvStep DEF ServiceInv, CoreInv, QueueInv
<1> QED BY <1>1, <1>2, <1>3 DEF ServiceInv

LEMMA ServiceInvHolds == ServiceSpec => []ServiceInv
<1>1. ServiceInit => ServiceInv
  BY CoreInvInit, ChannelInvInit, OverlapInvInit, TermsInvInit, TimesInvInit
  DEF ServiceInit, ServiceInv
<1> QED BY <1>1, ServiceInvStep, PTL DEF ServiceSpec

\* Every variable has its type; deadlines stay within the bound, so the bound on
\* the clock hides no timeout.
THEOREM ServiceTypeCorrect == ServiceSpec => []ServiceTypeOK
<1>1. ServiceInv => ServiceTypeOK
  <2> SUFFICES ASSUME ServiceInv PROVE ServiceTypeOK
    OBVIOUS
  <2>1. TypeOK /\ HandlerTypes /\ TimesInv
    BY DEF ServiceInv, CoreInv, QueueInv, TypeInv, HandlerInv
  <2>2. deadline \in [Request -> 0..Horizon]
    BY <2>1 DEF HandlerTypes, TimesInv
  <2> QED BY <2>1, <2>2 DEF ServiceTypeOK, HandlerTypes
<1> QED BY <1>1, ServiceInvHolds, PTL

\* A request that failed for want of a match had its whole ttl, is out of the
\* queue, and nothing claims it any more: neither the timer nor the sweep cuts a
\* wait short (service.rs:257-267, q_impl.rs:126-179).
THEOREM FailuresComeLast == ServiceSpec => []FailuresAreFinal
<1>1. ServiceInv => FailuresAreFinal
  BY CoreFailuresStayOut DEF ServiceInv, TimesInv, FailuresStayOut, FailuresAreFinal
<1> QED BY <1>1, ServiceInvHolds, PTL

\* With one clock, and with handlers that time out, clients that go away and a
\* sweep beside them, no two waiting clients that suit each other are left apart,
\* none is matched with one that had ended before it came, and none listens in
\* vain (q_impl.rs:45-46 before 73, q_matching.rs:43, service.rs:92-103, 234-268).
THEOREM ServiceMissesNoMatch ==
    ServiceSpec => [](NoMissedMatch /\ PartnersOverlap /\ ListenerHasOutcome)
<1>1. NoMissedMatch /\ CoreInv /\ [ServiceNext]_serviceVars => NoMissedMatch'
  BY ServiceStepIsQueueStep, NoMissedMatchStep DEF CoreInv, QueueInv
<1>2. ServiceInit => NoMissedMatch
  BY NoMissedMatchInit DEF ServiceInit
<1>3. ServiceSpec => []NoMissedMatch
  BY <1>1, <1>2, CoreInvHolds, PTL DEF ServiceSpec
<1>4. ServiceInv => PartnersOverlap /\ ListenerHasOutcome
  BY DEF ServiceInv, CoreInv, QueueInv, TypeInv, TypeOK, OverlapInv, PartnersOverlap, Claimed,
     ChannelInv, Unposted, Outcome, ListenerHasOutcome
<1> QED BY <1>3, <1>4, ServiceInvHolds, PTL

-----------------------------------------------------------------------------
(* The service implements Rendezvous *)

LEMMA RendezvousInit == ServiceInit => Promise!Init
BY DEF ServiceInit, QueueInit, Promise!Init, serviceCall, serviceFound, servicePartner, Idle

\* What the mapping shows of a handler that has not answered, and of an answer.
LEMMA CallStages ==
    ASSUME HandlerInv, NEW r \in Request
    PROVE  /\ handler[r] = "new" => serviceCall[r] = "new"
           /\ handler[r] \in {"adding", "waiting", "removing"} => serviceCall[r] = "open"
           /\ handler[r] = "dropped" => serviceCall[r] = "left"
           /\ handler[r] = "done" =>
                 serviceCall[r] = IF answer[r].status = 200 THEN "told" ELSE "failed"
BY DEF HandlerInv, HandlerTypes, Handler, serviceCall

\* The mapped call of a handler and its answer.
CallOf(h, a) ==
    CASE h = "new" -> "new"
      [] h \in {"adding", "waiting", "removing"} -> "open"
      [] h = "dropped" -> "left"
      [] h = "done" -> IF a.status = 200 THEN "told" ELSE "failed"

LEMMA CallsOf ==
    /\ serviceCall = [r \in Request |-> CallOf(handler[r], answer[r])]
    /\ serviceCall' = [r \in Request |-> CallOf(handler'[r], answer'[r])]
BY DEF serviceCall, CallOf

\* A step that answers nobody, ends no handler, starts none and claims nothing.
LEMMA UnseenStep ==
    ASSUME UNCHANGED answer,
           \A r \in Request :
              \/ handler'[r] = handler[r]
              \/ {handler[r], handler'[r]} \subseteq {"adding", "waiting", "removing"},
           \A r \in Request :
              step'[r] \in {"notify", "matched"} <=> step[r] \in {"notify", "matched"},
           \A r \in Request : step[r] \in {"notify", "matched"} => candidate'[r] = candidate[r]
    PROVE  UNCHANGED <<serviceCall, serviceFound, servicePartner>>
<1>1. serviceCall' = serviceCall
  <2>1. ASSUME NEW r \in Request
        PROVE  CallOf(handler'[r], answer'[r]) = CallOf(handler[r], answer[r])
    <3>1. CASE handler'[r] = handler[r]
      BY <3>1
    <3>2. CASE {handler[r], handler'[r]} \subseteq {"adding", "waiting", "removing"}
      BY <3>2 DEF CallOf
    <3> QED BY <3>1, <3>2
  <2> QED BY <2>1, CallsOf
<1>2. serviceFound' = serviceFound
  BY DEF serviceFound
<1>3. servicePartner' = servicePartner
  BY DEF servicePartner
<1> QED BY <1>1, <1>2, <1>3

\* A step that concerns one handler.
LEMMA OneCallMoves ==
    ASSUME NEW r \in Request,
           \A q \in Request : q # r => handler'[q] = handler[q] /\ answer'[q] = answer[q]
    PROVE  /\ serviceCall' = [serviceCall EXCEPT ![r] = serviceCall'[r]]
           /\ servicePartner' = [servicePartner EXCEPT ![r] = servicePartner'[r]]
<1>1. serviceCall' = [serviceCall EXCEPT ![r] = serviceCall'[r]]
  BY CallsOf
<1>2. servicePartner' = [servicePartner EXCEPT ![r] = servicePartner'[r]]
  BY DEF servicePartner
<1> QED BY <1>1, <1>2

\* A handler that ends without a partner, and one that ends with one.
LEMMA FailureIsFail ==
    ASSUME HandlerInv, AnswerInv, NEW r \in Request,
           handler[r] # "done" /\ handler[r] # "dropped",
           NEW error \in {"ValidationError", "NotFound", "Timeout", "QueueFull"},
           Respond(r, Failure(error)), step[r] \notin {"notify", "matched"},
           UNCHANGED <<step, candidate>>
    PROVE  Promise!Fail(r)
<1>1. /\ handler' = [handler EXCEPT ![r] = "done"]
      /\ answer' = [answer EXCEPT ![r] = Failure(error)]
      /\ handler \in [Request -> Handler] /\ answer \in [Request -> Answer \union {NoAnswer}]
      /\ answer[r] = NoAnswer
  BY DEF Respond, HandlerInv, HandlerTypes, AnswerInv
<1>2. /\ Failure(error) # NoAnswer /\ Failure(error).with = NoRequest
      /\ Failure(error).status # 200
  BY FailureType
<1>3. serviceCall[r] \in {"new", "open"}
  BY <1>1, CallStages DEF Handler
<1>4. serviceCall'[r] = "failed" /\ servicePartner'[r] = NoRequest /\ servicePartner[r] = NoRequest
  BY <1>1, <1>2 DEF serviceCall, servicePartner
<1>5. serviceCall' = [serviceCall EXCEPT ![r] = "failed"]
      /\ servicePartner' = [servicePartner EXCEPT ![r] = NoRequest]
  BY <1>1, <1>4, OneCallMoves
<1>6. servicePartner' = servicePartner
  BY <1>4, <1>5 DEF servicePartner
<1>7. serviceFound' = serviceFound /\ serviceFound[r] = NoRequest
  BY DEF serviceFound
<1> QED BY <1>3, <1>5, <1>6, <1>7 DEF Promise!Fail, Promise!Become

LEMMA MatchedIsTell ==
    ASSUME HandlerInv, AnswerInv, NEW r \in Request, handler[r] \in {"adding", "waiting"},
           NEW pair \in Pair, Respond(r, Matched(r, pair)), UNCHANGED <<step, candidate>>,
           NEW p \in Request, Ours(r, pair).with = p,
           \/ serviceFound[r] = p
           \/ serviceFound[r] = NoRequest /\ serviceFound[p] = r
    PROVE  Promise!Tell(r, p)
<1>1. /\ handler' = [handler EXCEPT ![r] = "done"]
      /\ answer' = [answer EXCEPT ![r] = Matched(r, pair)]
      /\ handler \in [Request -> Handler] /\ answer \in [Request -> Answer \union {NoAnswer}]
  BY DEF Respond, HandlerInv, HandlerTypes
<1>2. /\ Matched(r, pair) # NoAnswer /\ Matched(r, pair).with = p
      /\ Matched(r, pair).status = 200
  BY MatchedType
<1>3. serviceCall[r] = "open"
  BY CallStages
<1>4. serviceCall'[r] = "told" /\ servicePartner'[r] = p
  BY <1>1, <1>2 DEF serviceCall, servicePartner
<1>5. serviceCall' = [serviceCall EXCEPT ![r] = "told"]
      /\ servicePartner' = [servicePartner EXCEPT ![r] = p]
  BY <1>1, <1>4, OneCallMoves
<1>6. serviceFound' = serviceFound
  BY DEF serviceFound
<1>7. p \in IF serviceFound[r] # NoRequest THEN {serviceFound[r]} ELSE Promise!FoundBy(r)
  BY QueueAssumption DEF Promise!FoundBy
<1> QED BY <1>3, <1>5, <1>6, <1>7 DEF Promise!Tell, Promise!Become

LEMMA RendezvousStep ==
    CoreInv /\ [ServiceNext]_serviceVars => [Promise!Next]_(Promise!rendezvousVars)
<1> SUFFICES ASSUME CoreInv, [ServiceNext]_serviceVars
             PROVE  \/ Promise!Next
                    \/ UNCHANGED <<serviceCall, serviceFound, servicePartner>>
  BY DEF Promise!rendezvousVars
<1>t. /\ step \in [Request -> Step] /\ requests \subseteq Request
      /\ candidate \in [Request -> Request \union {NoRequest}]
      /\ inbox \in [Request -> Pair \union {NoResult}]
      /\ NoRequest \notin Request
      /\ EntriesPosted /\ BodyInv /\ CandidateInv /\ ClaimedOnce /\ SenderInv /\ DeliveryInv
      /\ handler \in [Request -> Handler]
      /\ HandlerInv /\ StagesInv /\ AnswerInv
  BY QueueAssumption DEF CoreInv, QueueInv, TypeInv, TypeOK, ClaimInv, HandlerInv, HandlerTypes
<1> DEFINE Unseen == UNCHANGED <<serviceCall, serviceFound, servicePartner>>
<1> USE DEF Goto, Idle
<1>1. ASSUME NEW r \in Request, NEW o \in Offer, NEW w \in Worker, Submit(r, o, w)
      PROVE  Promise!Next
  <2>1. /\ handler[r] = "new" /\ handler' = [handler EXCEPT ![r] = "adding"]
        /\ step[r] = "idle" /\ step' = [step EXCEPT ![r] = "check"]
        /\ UNCHANGED <<candidate, answer>>
    BY <1>1 DEF Submit, AddRequest
  <2>2. serviceCall[r] = "new"
    BY <1>t, <2>1, CallStages
  <2>3. serviceCall'[r] = "open"
    BY <1>t, <2>1 DEF serviceCall
  <2>4. serviceCall' = [serviceCall EXCEPT ![r] = "open"]
    BY <1>t, <2>1, <2>3, OneCallMoves
  <2>5. serviceFound' = serviceFound /\ servicePartner' = servicePartner
    BY <1>t, <2>1 DEF serviceFound, servicePartner
  <2>6. Promise!Open(r)
    BY <2>2, <2>4, <2>5 DEF Promise!Open, Promise!Become
  <2> QED BY <2>6 DEF Promise!Next
<1>2. ASSUME NEW r \in Request, NEW o \in Offer, Reject(r, o) PROVE Promise!Next
  <2>1. handler[r] = "new" /\ Respond(r, Failure("ValidationError")) /\ UNCHANGED <<step, candidate>>
    BY <1>2 DEF Reject, queueVars
  <2>2. step[r] \notin {"notify", "matched"}
    BY <1>t, <2>1 DEF StagesInv, StageOK
  <2>3. Promise!Fail(r)
    BY <1>t, <2>1, <2>2, FailureIsFail
  <2> QED BY <2>3 DEF Promise!Next
<1>3. ASSUME NEW r \in Request, Disconnect(r) PROVE Promise!Next
  <2>1. /\ handler[r] = "waiting" /\ handler' = [handler EXCEPT ![r] = "dropped"]
        /\ UNCHANGED <<step, candidate, answer>>
    BY <1>3 DEF Disconnect, DropReceiver
  <2>2. serviceCall[r] = "open" /\ step[r] = "pending"
    BY <1>t, <2>1, CallStages DEF StagesInv, StageOK
  <2>3. serviceCall'[r] = "left"
    BY <1>t, <2>1 DEF serviceCall
  <2>4. serviceCall' = [serviceCall EXCEPT ![r] = "left"]
    BY <1>t, <2>1, <2>3, OneCallMoves
  <2>5. /\ serviceFound' = serviceFound /\ servicePartner' = servicePartner
        /\ serviceFound[r] = NoRequest
    BY <1>t, <2>1, <2>2 DEF serviceFound, servicePartner
  <2>6. Promise!Leave(r)
    BY <2>2, <2>4, <2>5 DEF Promise!Leave, Promise!Become
  <2> QED BY <2>6 DEF Promise!Next
\* A claim is a match: the claimed call is in the map, so it began and did not
\* fail, and nobody else found it.
<1>4. ASSUME NEW r \in Request, Claim(r), UNCHANGED serviceOnlyVars PROVE Promise!Next \/ Unseen
  <2>1. step[r] = "claim" /\ UNCHANGED <<candidate, handler, answer>>
    BY <1>4 DEF Claim, serviceOnlyVars
  <2>m. PICK m \in Request : m = candidate[r] /\ m # r
    BY <1>t, <2>1 DEF BodyInv, CandidateInv
  <2>2. CASE m \in requests
    <3>1. step' = [step EXCEPT ![r] = "notify"]
      BY <1>4, <2>2, <2>m DEF Claim
    <3>2. serviceCall' = serviceCall /\ servicePartner' = servicePartner
      BY <2>1 DEF serviceCall, servicePartner
    <3>3. serviceFound' = [serviceFound EXCEPT ![r] = m] /\ serviceFound[r] = NoRequest
      BY <1>t, <2>1, <2>m, <3>1 DEF serviceFound
    <3>4. Promise!FoundBy(m) = {}
      BY <1>t, <2>2, <2>m DEF Promise!FoundBy, serviceFound, ClaimedOnce, Claimed
    <3>5. serviceCall[r] = "open"
      BY <1>t, <2>1, CallStages DEF StagesInv, StageOK, Returned, Handler
    <3>6. serviceCall[m] \in {"open", "told", "left"}
      <4>1. step[m] \notin {"idle", "full"} /\ handler[m] # "new"
        BY <1>t, <2>2 DEF EntriesPosted, StagesInv, StageOK
      <4>2. ASSUME handler[m] = "done" PROVE answer[m].status = 200
        <5>1. \E pair : answer[m] = Matched(m, pair)
          BY <1>t, <2>2, <4>1, <4>2 DEF AnswerInv, Truthful
        <5> QED BY <5>1 DEF Matched
      <4> QED BY <1>t, <4>1, <4>2, CallStages DEF Handler
    <3>7. Promise!Match(r, m)
      BY <2>m, <3>2, <3>3, <3>4, <3>5, <3>6 DEF Promise!Match
    <3> QED BY <3>7 DEF Promise!Next
  <2>3. CASE m \notin requests
    <3>1. step' = [step EXCEPT ![r] = "announce"]
      BY <1>4, <2>3, <2>m DEF Claim
    <3> QED BY <1>t, <2>1, <3>1, UnseenStep
  <2> QED BY <2>2, <2>3
<1>5. ASSUME NEW r \in Request, UNCHANGED serviceOnlyVars,
             CheckCapacity(r) \/ Insert(r) \/ Exchange(r) \/ Notify(r) \/ Announce(r)
      PROVE  Unseen
  BY <1>t, <1>5, UnseenStep DEF CheckCapacity, Insert, Exchange, Notify, Announce,
     serviceOnlyVars
<1>6. ASSUME NEW r \in Request, UNCHANGED serviceOnlyVars, FindMatch(r) PROVE Unseen
  <2>1. /\ step[r] = "find" /\ \E s \in {"announce", "exchange"} : step' = [step EXCEPT ![r] = s]
        /\ \A c \in Request : c # r => candidate'[c] = candidate[c]
        /\ UNCHANGED <<handler, answer>>
    BY <1>6, <1>t DEF FindMatch, serviceOnlyVars
  <2> QED BY <1>t, <2>1, UnseenStep
<1>7. ASSUME NEW r \in Request, AnswerMatch(r) PROVE Promise!Next
  <2>1. /\ handler[r] = "adding" /\ step[r] = "matched" /\ UNCHANGED <<step, candidate>>
        /\ Respond(r, Matched(r, result[r]))
    BY <1>7 DEF AnswerMatch, DropReceiver
  <2>m. PICK m \in Request : m = candidate[r] /\ m # r
    BY <1>t, <2>1 DEF BodyInv, CandidateInv
  <2>2. result[r] \in Pair /\ Ours(r, result[r]).with = m /\ serviceFound[r] = m
    BY <1>t, <2>1, <2>m DEF SenderInv, DeliveryInv, Prepared, Content, serviceFound
  <2>3. Promise!Tell(r, m)
    BY <1>t, <2>1, <2>2, MatchedIsTell
  <2> QED BY <2>3 DEF Promise!Next
<1>8. ASSUME NEW r \in Request, Receive(r) PROVE Promise!Next
  <2>1. /\ handler[r] = "waiting" /\ inbox[r] \in Pair /\ UNCHANGED <<step, candidate>>
        /\ Respond(r, Matched(r, inbox[r])) /\ step[r] = "pending"
    BY <1>8, <1>t DEF Receive, DropReceiver, StagesInv, StageOK
  <2>2. inbox[r] # NoResult
    BY <2>1, QueueAssumption
  <2>3. PICK c \in Request : step[c] = "matched" /\ candidate[c] = r /\ inbox[r] = result[c]
    BY <1>t, <2>2 DEF DeliveryInv
  <2>4. Ours(r, inbox[r]).with = c
    BY <1>t, <2>3 DEF DeliveryInv, Prepared, Content
  <2>5. serviceFound[r] = NoRequest /\ serviceFound[c] = r
    BY <2>1, <2>3 DEF serviceFound
  <2>6. Promise!Tell(r, c)
    BY <1>t, <2>1, <2>4, <2>5, MatchedIsTell
  <2> QED BY <2>6 DEF Promise!Next
<1>9. ASSUME NEW r \in Request, AnswerFull(r) \/ ChannelDropped(r) \/ Withdraw(r)
      PROVE  Promise!Next
  <2>1. /\ handler[r] \notin {"done", "dropped"} /\ UNCHANGED <<step, candidate>>
        /\ \E error \in {"NotFound", "Timeout", "QueueFull"} : Respond(r, Failure(error))
    BY <1>9 DEF AnswerFull, ChannelDropped, Withdraw, DropReceiver, RemoveRequest, queueVars
  <2>2. step[r] \notin {"notify", "matched"}
    BY <1>9, <1>t DEF AnswerFull, ChannelDropped, Withdraw, StagesInv, StageOK
  <2>3. Promise!Fail(r)
    BY <1>t, <2>1, <2>2, FailureIsFail
  <2> QED BY <2>3 DEF Promise!Next
<1>10. ASSUME NEW r \in Request, StartWaiting(r) \/ TimeoutFires(r) PROVE Unseen
  BY <1>10, <1>t, UnseenStep DEF StartWaiting, TimeoutFires, DropReceiver, queueVars
<1>11. ASSUME Cleanup \/ ServiceTick \/ UNCHANGED serviceVars PROVE Unseen
  BY <1>11, UnseenStep DEF Cleanup, CleanupScan, CleanupRemove, CleanupReport, ServiceTick, Tick,
     serviceVars, serviceOnlyVars, queueVars
<1>12. ASSUME NEW r \in Request, Handle(r) PROVE Promise!Next \/ Unseen
  BY <1>4, <1>5, <1>6, <1>7, <1>8, <1>9, <1>10, <1>12 DEF Handle, Add
<1> QED
  BY <1>1, <1>2, <1>3, <1>11, <1>12 DEF ServiceNext

\* What clients see is a rendezvous, whatever the interleaving: a response names
\* the partner of a claim its own request made or suffered, no call fails or
\* leaves after its claim, and no call that failed is ever claimed; and that
\* stays so if the clock is set (service.rs:209-274, q_impl.rs:73-122,
\* q_matching.rs:237-256).
THEOREM ServiceIsRendezvous == (ServiceSpec \/ SteppedSpec) => ImplementsRendezvous
<1>1. SteppedInit => Promise!Init
  BY RendezvousInit DEF SteppedInit
<1>2. CoreInv /\ [SteppedNext]_steppedVars => [Promise!Next]_(Promise!rendezvousVars)
  <2> SUFFICES ASSUME CoreInv, [SteppedNext]_steppedVars
               PROVE  [Promise!Next]_(Promise!rendezvousVars)
    OBVIOUS
  <2>1. CASE [ServiceNext]_serviceVars
    BY <2>1, RendezvousStep
  <2>2. ASSUME NEW d \in Jump, SetClock(d) PROVE UNCHANGED Promise!rendezvousVars
    BY <2>2, UnseenStep DEF SetClock, Promise!rendezvousVars
  <2> QED BY <2>1, <2>2 DEF SteppedNext, steppedVars
<1> QED
  BY <1>1, <1>2, CoreInvHolds, CoreInvHoldsStepped, RendezvousInit, RendezvousStep, PTL
  DEF ServiceSpec, SteppedSpec, ImplementsRendezvous, Promise!Spec

=============================================================================
