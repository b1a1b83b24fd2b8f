---------------------------- MODULE UnifiedQueue ----------------------------
(***************************************************************************)
(* The in-memory request queue of src/src/queue (q_core, q_impl,            *)
(* q_matching): a HashMap behind a RwLock, a broadcast channel for events   *)
(* and, inside every entry, the sending end of the channel its caller       *)
(* waits on.                                                                *)
(*                                                                          *)
(* Calls run on several threads.  add_request has no await inside, but it   *)
(* takes the lock four or five times, and other calls run between two of    *)
(* its critical sections: step[r] says which section the call for r         *)
(* executes next, and each section is an action.  remove_request is one     *)
(* section, cleanup_expired three stages.  Callers are the environment      *)
(* here; MatchingService is the one the program has.                        *)
(***************************************************************************)
EXTENDS MatchScore, FiniteSets

CONSTANTS
    Request,        \* ids (UUIDs: one per call of add_request)
    NoRequest,
    NoBody,         \* the body of a request not submitted yet
    NoResult,       \* no pair of match results
    Offer,          \* what callers ask for: [type, key, location, payload, ttl]
    MaxSize,        \* max_size
    Callers,        \* threads that can be inside add_request at a time
    Horizon         \* bound on the clock

MatchResult == [with : Request, payload : Payload \union {NoPayload}]
Pair == [send : MatchResult, receive : MatchResult]

ASSUME QueueAssumption ==
    /\ IsFiniteSet(Request)
    /\ NoRequest \notin Request
    /\ NoBody \notin QueuedRequest
    /\ NoResult \notin Pair
    /\ MaxSize \in Nat \ {0}
    /\ Callers \in Nat \ {0}
    /\ Horizon \in Nat
    /\ Offer \subseteq [type : RequestType, key : Key \union {NoKey},
                        location : Location \union {NoLocation},
                        payload : Payload \union {NoPayload}, ttl : Nat]

VARIABLES
    now,        \* the clock
    body,       \* the immutable part of each QueuedRequest
    requests,   \* the keys of the map
    step,       \* progress of the add_request call of each request
    candidate,  \* the entry its search returned
    result,     \* the two MatchResults it computed before its write lock
    sender,     \* who owns the sending end of its response channel
    rx,         \* requests whose receiving end still exists
    inbox,      \* the message in its response channel
    events,     \* how many events of each kind have been broadcast about it
    sweep       \* progress of cleanup_expired

queueVars == <<now, body, requests, step, candidate, result, sender, rx, inbox,
               events, sweep>>

Idle == "idle"
Inside == {"check", "insert", "find", "exchange", "claim", "notify", "announce"}
Returned == {"full", "matched", "pending"}
Step == {Idle} \union Inside \union Returned

Sender == {"none", "call", "map", "taken", "gone"}
EventKind == {"Added", "Matched", "Removed", "Expired"}

\* Variant: the side that names r.
OursSwapped(r, pair) == IF r = pair.send.with THEN pair.send ELSE pair.receive

\* The side of a pair that request r reads: the one that does not name r.
Ours(r, pair) == IF r = pair.send.with THEN pair.receive ELSE pair.send

\* The calls in progress.
Adding == {r \in Request : step[r] \in Inside}

\* c has removed w from the map in order to match it.
Claimed(c, w) == step[c] \in {"notify", "matched"} /\ candidate[c] = w

\* Variants of the search: r finds itself; only announced entries are searched;
\* types and time suffice.
CandidatesWithSelf(r) ==
    {m \in requests : Admissible(body[r], body[m], now)}

CandidatesAnnounced(r) ==
    {m \in requests \ {r} : step[m] = "pending" /\ Admissible(body[r], body[m], now)}

CandidatesByType(r) ==
    {m \in requests \ {r} : body[m].expires > now /\ body[m].type = Opposite(body[r].type)}

\* Variant: the expiry test is left to the sweep.
CandidatesNotSwept(r) ==
    {m \in requests \ {r} : TypesMeet(body[r], body[m]) /\ Compatible(body[r], body[m])}

\* The entries the search of r accepts, and those of highest score.
Candidates(r) ==
    {m \in requests \ {r} : Admissible(body[r], body[m], now)}

BestCandidates(r) ==
    {m \in Candidates(r) :
        \A o \in Candidates(r) : Score(body[r], body[o]) <= Score(body[r], body[m])}

\* Variants of the sweep's test: one tick early; only requests still waited for.
ExpiredEarly == {r \in requests : body[r].expires <= now + 1}

ExpiredListening == {r \in requests \intersect rx : body[r].expires <= now}

\* What a sweep at this instant removes.
Expired == {r \in requests : body[r].expires <= now}

Emitted(log, kind, S) ==
    [r \in Request |->
        IF r \in S THEN [log[r] EXCEPT ![kind] = @ + 1] ELSE log[r]]

QueueInit ==
    /\ now = 0
    /\ body = [r \in Request |-> NoBody]
    /\ requests = {}
    /\ step = [r \in Request |-> Idle]
    /\ candidate = [r \in Request |-> NoRequest]
    /\ result = [r \in Request |-> NoResult]
    /\ sender = [r \in Request |-> "none"]
    /\ rx = {}
    /\ inbox = [r \in Request |-> NoResult]
    /\ events = [r \in Request |-> [k \in EventKind |-> 0]]
    /\ sweep = [stage |-> "idle", ids |-> {}]

-----------------------------------------------------------------------------
(* add_request *)

Goto(r, s) == step' = [step EXCEPT ![r] = s]

\* The caller makes a request with a fresh id and the server's time, creates
\* its channel and calls add_request.
AddRequest(r, o) ==
    /\ step[r] = Idle
    /\ Cardinality(Adding) < Callers
    /\ body' = [body EXCEPT ![r] =
                  [type |-> o.type, key |-> o.key, location |-> o.location,
                   payload |-> o.payload, timestamp |-> now,
                   expires |-> now + o.ttl]]
    /\ Goto(r, "check")
    /\ sender' = [sender EXCEPT ![r] = "call"]
    /\ rx' = rx \union {r}
    /\ UNCHANGED <<now, requests, candidate, result, inbox, events, sweep>>

\* Variant: one entry too many.
CheckCapacityOffByOne(r) ==
    /\ step[r] = "check"
    /\ IF Cardinality(requests) > MaxSize
       THEN Goto(r, "full") /\ sender' = [sender EXCEPT ![r] = "gone"]
       ELSE Goto(r, "insert") /\ UNCHANGED sender
    /\ UNCHANGED <<now, body, requests, candidate, result, rx, inbox, events, sweep>>

\* Read lock: the capacity test.  The request of a refused call is dropped.
CheckCapacity(r) ==
    /\ step[r] = "check"
    /\ IF Cardinality(requests) >= MaxSize
       THEN Goto(r, "full") /\ sender' = [sender EXCEPT ![r] = "gone"]
       ELSE Goto(r, "insert") /\ UNCHANGED sender
    /\ UNCHANGED <<now, body, requests, candidate, result, rx, inbox, events, sweep>>

\* Write lock: the request goes into the map with its channel.
Insert(r) ==
    /\ step[r] = "insert"
    /\ requests' = requests \union {r}
    /\ sender' = [sender EXCEPT ![r] = "map"]
    /\ Goto(r, "find")
    /\ UNCHANGED <<now, body, candidate, result, rx, inbox, events, sweep>>

\* Read lock: find_matching_request.
FindMatch(r) ==
    /\ step[r] = "find"
    /\ \/ /\ Candidates(r) = {}
          /\ Goto(r, "announce")
          /\ UNCHANGED candidate
       \/ \E m \in BestCandidates(r) :
          /\ candidate' = [candidate EXCEPT ![r] = m]
          /\ Goto(r, "exchange")
    /\ UNCHANGED <<now, body, requests, result, sender, rx, inbox, events, sweep>>

\* Variants: the two sides confused; a Bump's payload taken from the reference,
\* which has none, instead of the map.
MatchResultsConfused(r, m) ==
    LET old == IF body[r].type = "Receive" THEN NoPayload ELSE body[r].payload
    IN  [send |-> [with |-> r, payload |-> NoPayload],
         receive |-> [with |-> m, payload |-> old]]

MatchResultsFromReference(r, m) ==
    LET old == IF body[r].type = "Receive" THEN NoPayload ELSE body[r].payload
        forNew == [with |-> m, payload |-> NoPayload]
        forOld == [with |-> r, payload |-> old]
    IN  IF body[r].type = "Receive"
        THEN [send |-> forOld, receive |-> forNew]
        ELSE [send |-> forNew, receive |-> forOld]

\* The two results atomic_match(r, m) prepares.  Its reference to m carries no
\* payload, so a Receive that searches is given none; two Bumps exchange, with
\* m's payload read from the map.
MatchResults(r, m) ==
    LET fromMap == IF m \in requests THEN body[m].payload ELSE NoPayload
        toNew   == IF body[r].type = "Bump" THEN fromMap ELSE NoPayload
        toOld   == IF body[r].type = "Receive" THEN NoPayload ELSE body[r].payload
        forNew  == [with |-> m, payload |-> toNew]
        forOld  == [with |-> r, payload |-> toOld]
    IN  IF body[r].type = "Receive"
        THEN [send |-> forOld, receive |-> forNew]
        ELSE [send |-> forNew, receive |-> forOld]

\* Variant: one result is kept instead of both.
ExchangeOne(r) ==
    /\ step[r] = "exchange"
    /\ result' = [result EXCEPT ![r] = MatchResults(r, candidate[r]).send]
    /\ Goto(r, "claim")
    /\ UNCHANGED <<now, body, requests, candidate, sender, rx, inbox, events, sweep>>

\* Read lock (for a Bump; otherwise no lock): the results are computed.
Exchange(r) ==
    /\ step[r] = "exchange"
    /\ result' = [result EXCEPT ![r] = MatchResults(r, candidate[r])]
    /\ Goto(r, "claim")
    /\ UNCHANGED <<now, body, requests, candidate, sender, rx, inbox, events, sweep>>

\* Variants: the candidate is not looked up again; its channel is not taken out
\* of the entry; a lost candidate is waited for.
ClaimUnchecked(r) ==
    LET m == candidate[r]
    IN  /\ step[r] = "claim"
        /\ requests' = requests \ {m}
        /\ sender' = [sender EXCEPT ![m] = "taken"]
        /\ events' = Emitted(Emitted(events, "Matched", {r, m}), "Removed", {r, m})
        /\ Goto(r, "notify")
        /\ UNCHANGED <<now, body, candidate, result, rx, inbox, sweep>>

ClaimDropsChannel(r) ==
    LET m == candidate[r]
    IN  /\ step[r] = "claim"
        /\ IF m \in requests
           THEN /\ requests' = requests \ {m}
                /\ sender' = [sender EXCEPT ![m] = "gone"]
                /\ events' = Emitted(Emitted(events, "Matched", {r, m}), "Removed", {r, m})
                /\ Goto(r, "notify")
           ELSE /\ Goto(r, "announce")
                /\ UNCHANGED <<requests, sender, events>>
        /\ UNCHANGED <<now, body, candidate, result, rx, inbox, sweep>>

ClaimWaits(r) == candidate[r] \in requests /\ ClaimUnchecked(r)

\* Write lock: if the candidate is still in the map it is removed and its
\* channel taken; both requests are reported Matched and Removed.  The entry
\* of r itself stays.
Claim(r) ==
    LET m == candidate[r]
    IN  /\ step[r] = "claim"
        /\ IF m \in requests
           THEN /\ requests' = requests \ {m}
                /\ sender' = [sender EXCEPT ![m] = "taken"]
                /\ events' = Emitted(Emitted(events, "Matched", {r, m}), "Removed", {r, m})
                /\ Goto(r, "notify")
           ELSE /\ Goto(r, "announce")
                /\ UNCHANGED <<requests, sender, events>>
        /\ UNCHANGED <<now, body, candidate, result, rx, inbox, sweep>>

\* Variant: the claimer's own channel is used.
NotifyOwnChannel(r) ==
    LET m == candidate[r]
    IN  /\ step[r] = "notify"
        /\ inbox' = [inbox EXCEPT ![r] = result[r]]
        /\ sender' = [sender EXCEPT ![m] = "gone"]
        /\ Goto(r, "matched")
        /\ UNCHANGED <<now, body, requests, candidate, result, rx, events, sweep>>

\* After the lock: the results go down the channel of the claimed request, or
\* nowhere if nobody listens; add_request returns them.
Notify(r) ==
    LET m == candidate[r]
    IN  /\ step[r] = "notify"
        /\ inbox' = IF m \in rx THEN [inbox EXCEPT ![m] = result[r]] ELSE inbox
        /\ sender' = [sender EXCEPT ![m] = "gone"]
        /\ Goto(r, "matched")
        /\ UNCHANGED <<now, body, requests, candidate, result, rx, events, sweep>>

\* No match: the Added event, and add_request returns None.
Announce(r) ==
    /\ step[r] = "announce"
    /\ events' = Emitted(events, "Added", {r})
    /\ Goto(r, "pending")
    /\ UNCHANGED <<now, body, requests, candidate, result, sender, rx, inbox, sweep>>

-----------------------------------------------------------------------------
(* The receiving end, remove_request, cleanup_expired, the clock *)

\* A caller whose add_request has returned drops its receiver.
DropReceiver(r) ==
    /\ step[r] \in Returned
    /\ r \in rx
    /\ rx' = rx \ {r}
    /\ UNCHANGED <<now, body, requests, step, candidate, result, sender, inbox,
                   events, sweep>>

\* remove_request(r), which callers use for a request of their own that found
\* no match, once they no longer listen.
RemoveRequest(r) ==
    /\ step[r] = "pending"
    /\ r \notin rx
    /\ r \in requests
    /\ requests' = requests \ {r}
    /\ sender' = [sender EXCEPT ![r] = "gone"]
    /\ events' = Emitted(events, "Removed", {r})
    /\ UNCHANGED <<now, body, step, candidate, result, rx, inbox, sweep>>

\* cleanup_expired, read lock: the ids of the expired entries.  (A sweep that
\* finds none changes nothing.)
CleanupScan ==
    /\ sweep.stage = "idle"
    /\ Expired # {}
    /\ sweep' = [stage |-> "remove", ids |-> Expired]
    /\ UNCHANGED <<now, body, requests, step, candidate, result, sender, rx, inbox,
                   events>>

\* cleanup_expired, write lock: those that are still there go, channel and all.
CleanupRemove ==
    /\ sweep.stage = "remove"
    /\ requests' = requests \ sweep.ids
    /\ sender' = [r \in Request |->
                    IF r \in sweep.ids \intersect requests THEN "gone" ELSE sender[r]]
    /\ sweep' = [sweep EXCEPT !.stage = "report"]
    /\ UNCHANGED <<now, body, step, candidate, result, rx, inbox, events>>

\* cleanup_expired, no lock: an Expired event for every id of the scan, one by
\* one, whoever removed the entry.
CleanupReport(r) ==
    /\ sweep.stage = "report"
    /\ r \in sweep.ids
    /\ events' = Emitted(events, "Expired", {r})
    /\ sweep' = IF sweep.ids = {r}
                THEN [stage |-> "idle", ids |-> {}]
                ELSE [sweep EXCEPT !.ids = @ \ {r}]
    /\ UNCHANGED <<now, body, requests, step, candidate, result, sender, rx, inbox>>

Tick ==
    /\ now < Horizon
    /\ now' = now + 1
    /\ UNCHANGED <<body, requests, step, candidate, result, sender, rx, inbox,
                   events, sweep>>

QueueNext ==
    \/ \E r \in Request :
        \/ \E o \in Offer : AddRequest(r, o)
        \/ CheckCapacity(r) \/ Insert(r) \/ FindMatch(r) \/ Exchange(r)
        \/ Claim(r) \/ Notify(r) \/ Announce(r)
        \/ DropReceiver(r) \/ RemoveRequest(r) \/ CleanupReport(r)
    \/ CleanupScan
    \/ CleanupRemove
    \/ Tick

QueueSpec == QueueInit /\ [][QueueNext]_queueVars

-----------------------------------------------------------------------------
(* Properties *)

TypeOK ==
    /\ now \in Nat
    /\ body \in [Request -> QueuedRequest \union {NoBody}]
    /\ requests \subseteq Request
    /\ step \in [Request -> Step]
    /\ candidate \in [Request -> Request \union {NoRequest}]
    /\ result \in [Request -> Pair \union {NoResult}]
    /\ sender \in [Request -> Sender]
    /\ rx \subseteq Request
    /\ inbox \in [Request -> Pair \union {NoResult}]
    /\ events \in [Request -> [EventKind -> Nat]]
    /\ sweep \in [stage : {"idle", "remove", "report"}, ids : SUBSET Request]

\* An entry is claimed by one call at most, never by its own, and is in the
\* map no more: the search and the claim are separate critical sections, and
\* several searches may return the same entry (q_matching.rs:237-256).
ClaimedOnce ==
    \A c, w \in Request : Claimed(c, w) =>
        /\ c # w
        /\ w \notin requests
        /\ \A d \in Request : Claimed(d, w) => d = c

\* The capacity test and the insertion are separate critical sections, so the
\* map can outgrow max_size, but only by the number of other threads that were
\* between the two (q_impl.rs:20-53).
Overshoot ==
    Cardinality(requests \union {r \in Request : step[r] = "insert"})
        <= MaxSize + Callers - 1

\* Two live entries that suit each other do not both sit in the map after each
\* has searched and found nothing: insertion comes before the search
\* (q_impl.rs:45-46 before 73).
NoMissedMatch ==
    \A a, b \in requests :
        (a # b /\ {step[a], step[b]} \subseteq {"announce", "pending"}
               /\ candidate[a] = NoRequest /\ candidate[b] = NoRequest
               /\ body[a].expires > now)
            => ~Admissible(body[a], body[b], now)

\* A message in a channel comes from the one call that claimed its owner, tells
\* the owner that call's request, and for two Bumps each side reads the payload
\* of the other, although the payload is read, the entry claimed and the
\* message sent in three separate sections (q_matching.rs:177-417).
DeliveryMatchesClaim ==
    /\ \A w \in Request : inbox[w] # NoResult =>
        \E c \in Request : Claimed(c, w) /\ inbox[w] = result[c]
    /\ \A c, w \in Request : Claimed(c, w) =>
        /\ Ours(c, result[c]).with = w
        /\ Ours(w, result[c]).with = c
        /\ Ours(w, result[c]).payload =
              IF body[c].type = "Receive" THEN NoPayload ELSE body[c].payload
        /\ body[c].type = "Bump" => Ours(c, result[c]).payload = body[w].payload

\* A caller that listens is never left on a channel nobody will use: while its
\* entry is in the map so is its sender; once the entry is gone a claimer is
\* about to send, or has sent, or the request has expired and the sweep has
\* dropped the sender (q_matching.rs:237-417, q_impl.rs:163-168).
ListenerHasOutcome ==
    \A w \in rx : step[w] \in {"announce", "pending"} =>
        \/ w \in requests /\ sender[w] = "map"
        \/ sender[w] = "taken" /\ \E c \in Request : step[c] = "notify" /\ candidate[c] = w
        \/ sender[w] = "gone" /\ inbox[w] # NoResult
        \/ sender[w] = "gone" /\ body[w].expires <= now

\* Whoever is matched was there at the same time as its partner: the search
\* tests the expiry of an entry, and the entry is claimed in a later critical
\* section, when it may have expired, but never after being dead before the
\* claimer came (q_matching.rs:43, 249).
PartnersOverlap ==
    \A c, w \in Request : Claimed(c, w) => body[c].timestamp < body[w].expires

\* Expired is reported once per entry at most, and only of an entry that is out
\* of the map and past its time; Matched once for a claim made and once for a
\* claim suffered (q_impl.rs:148-179, q_matching.rs:344-352).
EventsAreAccurate ==
    \A r \in Request :
        /\ events[r]["Expired"] <= 1
        /\ events[r]["Expired"] = 1 => r \notin requests /\ body[r].expires <= now
        /\ events[r]["Matched"] =
              Cardinality({p \in Request \X Request : Claimed(p[1], p[2]) /\ r = p[1]}) +
              Cardinality({p \in Request \X Request : Claimed(p[1], p[2]) /\ r = p[2]})
=============================================================================
