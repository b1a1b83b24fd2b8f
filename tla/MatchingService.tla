-------------------------- MODULE MatchingService --------------------------
(***************************************************************************)
(* The service of src/src/service.rs on top of the queue: process_send,     *)
(* process_receive and process_bump (which differ in what they put into the *)
(* queue and in the payload of their response), the cleanup task, and the   *)
(* workers of the HTTP server they run on.                                  *)
(*                                                                          *)
(* A handler is pinned to one worker thread and leaves it only at its one   *)
(* await, the wait for a match: the call of add_request and what follows    *)
(* the wait are synchronous, so a worker runs one of them at a time.  A     *)
(* client that goes away drops its handler at that await.                   *)
(***************************************************************************)
EXTENDS UnifiedQueue

\* What the endpoints' JSON can say: /send has a payload, /receive has none, for
\* /bump it is optional.
WellFormed(o) ==
    /\ o.type = "Send" => o.payload # NoPayload
    /\ o.type = "Receive" => o.payload = NoPayload

CONSTANTS
    Worker,         \* threads of the HTTP server
    NoWorker,
    OutOfRange,     \* locations whose coordinates do not exist
    NoAnswer,       \* the handler has not answered
    LastSubmit      \* bound: clients submit up to this time

\* BumpError, and the status of its error_response.  The three handlers never
\* produce Internal.
StatusOf == [ValidationError |-> 400, NotFound |-> 404, Timeout |-> 408,
             QueueFull |-> 429, Internal |-> 500]

Answer == [status : {200, 400, 404, 408, 429},
           with : Request \union {NoRequest}, payload : Payload \union {NoPayload}]

ASSUME ServiceAssumption ==
    /\ IsFiniteSet(Worker) /\ Callers = Cardinality(Worker)
    /\ NoWorker \notin Worker
    /\ NoAnswer \notin Answer
    /\ OutOfRange \subseteq Location
    /\ LastSubmit \in Nat
    /\ \A o \in Offer : LastSubmit + o.ttl <= Horizon /\ WellFormed(o)

VARIABLES
    handler,        \* where the handler of each request is
    worker,         \* the worker it runs on
    deadline,       \* when its wait ends
    answer          \* the response

serviceOnlyVars == <<handler, worker, deadline, answer>>
serviceVars == <<queueVars, serviceOnlyVars>>

Handler == {"new", "adding", "waiting", "removing", "done", "dropped"}

\* A handler that holds its worker.
Running(r) == handler[r] \in {"adding", "removing"}

Free(w) == \A r \in Request : Running(r) => worker[r] # w

\* validate_matching_criteria
Valid(o) ==
    /\ o.location # NoLocation \/ o.key # NoKey
    /\ o.location \notin OutOfRange

Failure(error) == [status |-> StatusOf[error], with |-> NoRequest, payload |-> NoPayload]

\* Variant: no payload in any response.
MatchedWithoutPayload(r, pair) ==
    [status |-> 200, with |-> Ours(r, pair).with, payload |-> NoPayload]

\* A matched response shows the side that does not name the request itself; a
\* Send is never shown a payload (service.rs:226, 253), unlike in the sample of
\* docs/api-guide.md:126-133.
Matched(r, pair) ==
    [status |-> 200, with |-> Ours(r, pair).with,
     payload |-> IF body[r].type = "Send" THEN NoPayload ELSE Ours(r, pair).payload]

Respond(r, a) ==
    /\ answer' = [answer EXCEPT ![r] = a]
    /\ handler' = [handler EXCEPT ![r] = "done"]
    /\ UNCHANGED <<worker, deadline>>

ServiceInit ==
    /\ QueueInit
    /\ handler = [r \in Request |-> "new"]
    /\ worker = [r \in Request |-> NoWorker]
    /\ deadline = [r \in Request |-> 0]
    /\ answer = [r \in Request |-> NoAnswer]

-----------------------------------------------------------------------------
(* Clients *)

\* Variant: a worker takes a request while it runs the handler of another.
SubmitAnywhere(r, o, w) ==
    /\ now <= LastSubmit
    /\ handler[r] = "new"
    /\ Valid(o)
    /\ AddRequest(r, o)
    /\ handler' = [handler EXCEPT ![r] = "adding"]
    /\ worker' = [worker EXCEPT ![r] = w]
    /\ UNCHANGED <<deadline, answer>>

\* A valid request reaches an idle worker, which calls add_request.
Submit(r, o, w) ==
    /\ now <= LastSubmit
    /\ handler[r] = "new"
    /\ Valid(o)
    /\ Free(w)
    /\ AddRequest(r, o)
    /\ handler' = [handler EXCEPT ![r] = "adding"]
    /\ worker' = [worker EXCEPT ![r] = w]
    /\ UNCHANGED <<deadline, answer>>

\* A request without a location or a key, or at an impossible place.
Reject(r, o) ==
    /\ now <= LastSubmit
    /\ handler[r] = "new"
    /\ ~Valid(o)
    /\ Respond(r, Failure("ValidationError"))
    /\ UNCHANGED queueVars

\* The client goes away and its handler is dropped at the await: the receiver
\* goes, the entry stays.
Disconnect(r) ==
    /\ handler[r] = "waiting"
    /\ DropReceiver(r)
    /\ handler' = [handler EXCEPT ![r] = "dropped"]
    /\ UNCHANGED <<worker, deadline, answer>>

-----------------------------------------------------------------------------
(* Handlers *)

\* A critical section of add_request.
Add(r) ==
    /\ \/ CheckCapacity(r) \/ Insert(r) \/ FindMatch(r) \/ Exchange(r)
       \/ Claim(r) \/ Notify(r) \/ Announce(r)
    /\ UNCHANGED serviceOnlyVars

\* add_request returned an immediate match, or QueueFull.
AnswerMatch(r) ==
    /\ handler[r] = "adding" /\ step[r] = "matched"
    /\ DropReceiver(r)
    /\ Respond(r, Matched(r, result[r]))

AnswerFull(r) ==
    /\ handler[r] = "adding" /\ step[r] = "full"
    /\ DropReceiver(r)
    /\ Respond(r, Failure("QueueFull"))

\* Variant: the time of expiry taken for a duration.
StartWaitingTwice(r) ==
    /\ handler[r] = "adding" /\ step[r] = "pending"
    /\ handler' = [handler EXCEPT ![r] = "waiting"]
    /\ deadline' = [deadline EXCEPT ![r] = now + body[r].expires]
    /\ UNCHANGED <<queueVars, worker, answer>>

\* add_request returned None: the timer of the whole ttl starts only now.
StartWaiting(r) ==
    /\ handler[r] = "adding" /\ step[r] = "pending"
    /\ handler' = [handler EXCEPT ![r] = "waiting"]
    /\ deadline' = [deadline EXCEPT ![r] = now + (body[r].expires - body[r].timestamp)]
    /\ UNCHANGED <<queueVars, worker, answer>>

\* The wait is polled on the handler's worker, the channel before the timer.
Receive(r) ==
    /\ handler[r] = "waiting" /\ Free(worker[r])
    /\ inbox[r] # NoResult
    /\ DropReceiver(r)
    /\ Respond(r, Matched(r, inbox[r]))

ChannelDropped(r) ==
    /\ handler[r] = "waiting" /\ Free(worker[r])
    /\ inbox[r] = NoResult /\ sender[r] = "gone"
    /\ DropReceiver(r)
    /\ Respond(r, Failure("NotFound"))

TimeoutFires(r) ==
    /\ handler[r] = "waiting" /\ Free(worker[r])
    /\ inbox[r] = NoResult /\ sender[r] # "gone"
    /\ now >= deadline[r]
    /\ DropReceiver(r)
    /\ handler' = [handler EXCEPT ![r] = "removing"]
    /\ UNCHANGED <<worker, deadline, answer>>

\* Variant: the entry is left to the sweep.
WithdrawNothing(r) ==
    /\ handler[r] = "removing"
    /\ UNCHANGED queueVars
    /\ Respond(r, Failure("Timeout"))

\* remove_request, its result ignored.
Withdraw(r) ==
    /\ handler[r] = "removing"
    /\ IF r \in requests THEN RemoveRequest(r) ELSE UNCHANGED queueVars
    /\ Respond(r, Failure("Timeout"))

Handle(r) ==
    \/ Add(r) \/ AnswerMatch(r) \/ AnswerFull(r) \/ StartWaiting(r)
    \/ Receive(r) \/ ChannelDropped(r) \/ TimeoutFires(r) \/ Withdraw(r)

-----------------------------------------------------------------------------
(* Background *)

\* The cleanup task, started by MatchingService::new on the main thread.
Cleanup ==
    /\ CleanupScan \/ CleanupRemove \/ \E r \in Request : CleanupReport(r)
    /\ UNCHANGED serviceOnlyVars

\* Time passes at any point of a handler.  Bound: once clients stop submitting
\* it passes only between handlers, so that every deadline is within Horizon.
ServiceTick ==
    /\ now >= LastSubmit => \A r \in Request : ~Running(r)
    /\ Tick
    /\ UNCHANGED serviceOnlyVars

ServiceNext ==
    \/ \E r \in Request :
        \/ \E o \in Offer : (\E w \in Worker : Submit(r, o, w)) \/ Reject(r, o)
        \/ Disconnect(r)
        \/ Handle(r)
    \/ Cleanup
    \/ ServiceTick

\* Threads keep running, the cleanup interval keeps firing, time passes; clients
\* need neither come nor go.
ServiceFairness ==
    /\ \A r \in Request : WF_serviceVars(Handle(r))
    /\ WF_serviceVars(Cleanup)
    /\ WF_serviceVars(ServiceTick)

ServiceSpec == ServiceInit /\ [][ServiceNext]_serviceVars

-----------------------------------------------------------------------------
(* Properties *)

ServiceTypeOK ==
    /\ TypeOK
    /\ handler \in [Request -> Handler]
    /\ worker \in [Request -> Worker \union {NoWorker}]
    /\ deadline \in [Request -> 0..Horizon]
    /\ answer \in [Request -> Answer \union {NoAnswer}]

Status(r) == IF answer[r] = NoAnswer THEN 0 ELSE answer[r].status

\* A request that waited for its match is told of a partner that was, or is
\* about to be, told of it: no third request comes between the message and the
\* answer (service.rs:230-259, q_impl.rs:104).
WaiterAnswersAreMutual ==
    \A w \in Request : Status(w) = 200 /\ step[w] = "pending" =>
        LET c == answer[w].with
        IN  /\ Claimed(c, w)
            /\ Status(c) # 0 => Status(c) = 200 /\ answer[c].with = w

\* Whoever is told of a partner suits it, in either direction and however many
\* critical sections ago the match was found (matching.rs:5-164).
MatchedAnswersSuit ==
    \A r \in Request : Status(r) = 200 =>
        LET p == answer[r].with
        IN  /\ p # r
            /\ TypesMeet(body[r], body[p]) /\ Compatible(body[r], body[p])
            /\ TypesMeet(body[p], body[r]) /\ Compatible(body[p], body[r])

\* Data that is handed over is the partner's: a Bump is shown the payload of the
\* partner it is told of, whichever of the two made the claim, and so is a Receive
\* that waited (service.rs:336-355, 431-480, q_matching.rs:177-222).  The Receive
\* that finds its sender is shown none, see ReceiverGetsPayload.  Nothing is said
\* of a Send: it is shown no payload (Matched), where docs/api-guide.md:154 has the
\* data that was transferred.
PayloadsBelong ==
    \A r \in Request :
        /\ Status(r) = 200
        /\ body[r].type = "Bump" \/ (body[r].type = "Receive" /\ step[r] = "pending")
        => answer[r].payload = body[answer[r].with].payload

\* A request told that there is no match for it (408, 404) has waited its whole
\* ttl, and its entry is out of the queue for good: no later request can be
\* matched with it (service.rs:257-267, q_impl.rs:126-179).
FailuresAreFinal ==
    \A r \in Request : Status(r) \in {404, 408} =>
        /\ body[r].expires <= now
        /\ r \notin requests
        /\ Status(r) = 404 => ~\E c \in Request : Claimed(c, r)

\* What the queue asks of its callers never holds a handler back: whenever a
\* worker is idle there is room for one more call, a new request has not been
\* submitted, and who times out has a call that returned and listens no more
\* (service.rs:209-268).  So modelling a handler by steps of the queue
\* takes no behaviour of the program away.
CallsAreAllowed ==
    /\ (\E w \in Worker : Free(w)) => Cardinality(Adding) < Callers
    /\ \A r \in Request :
          /\ handler[r] = "new" => step[r] = Idle
          /\ handler[r] \in {"adding", "waiting"} => r \in rx
          /\ handler[r] = "removing" => step[r] = "pending" /\ r \notin rx

\* Once clients stop submitting, a time comes from which on no call is in
\* progress: each was answered, unless its client went away, and no interleaving
\* of matcher, timer and sweep leaves a handler waiting (service.rs:234-268).
EveryCallEnds ==
    <>[](\A r \in Request : handler[r] \in {"new", "done", "dropped"})

\* By then nothing stays in the map either, not even the entry of a client that
\* went away or of a request already matched: all are swept (q_impl.rs:148-179,
\* service.rs:92-103).
QueueDrains == <>[](requests = {})

-----------------------------------------------------------------------------
(* Statements of the documents that the code does not meet *)

\* "Both requests are atomically matched and removed"
\* (docs/matching-algorithm.md:156)
MatchedPairLeaves == \A r \in Request : Status(r) = 200 => r \notin requests

\* "Data payload if this was a receive request that matched" (models.rs:83), as
\* tests/integration/service_test.rs:49 expects
ReceiverGetsPayload ==
    \A r \in Request : Status(r) = 200 /\ body[r].type = "Receive" =>
        answer[r].payload = body[answer[r].with].payload

\* "No possibility of 'half-matched' states" (docs/matching-algorithm.md:185)
NoHalfMatch ==
    \A c, w \in Request : Status(c) = 200 /\ answer[c].with = w => Status(w) \in {0, 200}
=============================================================================
