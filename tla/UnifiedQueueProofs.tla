------------------------- MODULE UnifiedQueueProofs -------------------------
(***************************************************************************)
(* Theorems about UnifiedQueue for every value of its constants: type       *)
(* correctness, that an entry is claimed once, that the map outgrows its    *)
(* capacity only by the callers in flight, and that the order of insertion  *)
(* and search leaves no pair of live partners behind.                       *)
(***************************************************************************)
EXTENDS UnifiedQueue, MatchScoreProofs, FiniteSetTheorems, TLAPS

-----------------------------------------------------------------------------
(* Type correctness *)

\* An offer submitted at time t makes a QueuedRequest (service.rs:181-205).
LEMMA OfferBody ==
    ASSUME NEW o \in Offer, NEW t \in Nat
    PROVE  [type |-> o.type, key |-> o.key, location |-> o.location,
            payload |-> o.payload, timestamp |-> t, expires |-> t + o.ttl]
              \in QueuedRequest
BY QueueAssumption DEF QueuedRequest

\* Requests past the search have a body; a candidate is a request.
BodyInv ==
    \A r \in Request :
        /\ step[r] # Idle => body[r] \in QueuedRequest
        /\ step[r] \in {"exchange", "claim", "notify", "matched"} => candidate[r] \in Request

\* What atomic_match computes is a pair of match results (q_matching.rs:111-234).
LEMMA MatchResultsType ==
    ASSUME NEW r \in Request, NEW m \in Request, body[r] \in QueuedRequest,
           m \in requests => body[m] \in QueuedRequest
    PROVE  MatchResults(r, m) \in Pair
<1>1. body[r].payload \in Payload \union {NoPayload}
  BY DEF QueuedRequest
<1>2. m \in requests => body[m].payload \in Payload \union {NoPayload}
  BY DEF QueuedRequest
<1> QED
  BY <1>1, <1>2 DEF MatchResults, Pair, MatchResult

\* Only a request whose insertion has happened is in the map.
EntriesPosted ==
    \A r \in requests : step[r] \notin {Idle, "check", "insert", "full"}

TypeInv == TypeOK /\ BodyInv /\ EntriesPosted

LEMMA EmittedType ==
    ASSUME NEW log \in [Request -> [EventKind -> Nat]], NEW kind \in EventKind, NEW S
    PROVE  Emitted(log, kind, S) \in [Request -> [EventKind -> Nat]]
BY DEF Emitted

LEMMA TypeInvInit == QueueInit => TypeInv
BY QueueAssumption DEF QueueInit, TypeInv, TypeOK, BodyInv, EntriesPosted, Step, Idle,
   Inside, Returned, Sender

LEMMA TypeInvStep == TypeInv /\ [QueueNext]_queueVars => TypeInv'
<1> SUFFICES ASSUME TypeInv, [QueueNext]_queueVars PROVE TypeInv'
  OBVIOUS
<1> USE DEF TypeInv, TypeOK, BodyInv, EntriesPosted, Step, Idle, Inside, Returned, Sender, Goto
<1>1. ASSUME NEW r \in Request, NEW o \in Offer, AddRequest(r, o) PROVE TypeInv'
  <2>1. body'[r] \in QueuedRequest
    BY <1>1, OfferBody DEF AddRequest
  <2> QED BY <1>1, <2>1 DEF AddRequest
<1>2. ASSUME NEW r \in Request, CheckCapacity(r) PROVE TypeInv'
  <2>1. CASE Cardinality(requests) >= MaxSize
    <3>1. step' = [step EXCEPT ![r] = "full"] /\ sender' = [sender EXCEPT ![r] = "gone"]
          /\ UNCHANGED <<now, body, requests, candidate, result, rx, inbox, events, sweep>>
      BY <1>2, <2>1 DEF CheckCapacity
    <3>2. step[r] = "check" /\ r \notin requests
      BY <1>2 DEF CheckCapacity
    <3> QED BY <3>1, <3>2
  <2>2. CASE ~(Cardinality(requests) >= MaxSize)
    BY <1>2, <2>2 DEF CheckCapacity
  <2> QED BY <2>1, <2>2
<1>3. ASSUME NEW r \in Request, Insert(r) PROVE TypeInv'
  BY <1>3 DEF Insert
<1>4. ASSUME NEW r \in Request, FindMatch(r) PROVE TypeInv'
  <2>1. CASE Candidates(r) = {} /\ Goto(r, "announce") /\ UNCHANGED candidate
    BY <1>4, <2>1 DEF FindMatch
  <2>2. ASSUME NEW m \in BestCandidates(r), Goto(r, "exchange"),
               candidate' = [candidate EXCEPT ![r] = m]
        PROVE  TypeInv'
    <3>1. m \in Request
      BY <2>2 DEF BestCandidates, Candidates
    <3> QED BY <1>4, <2>2, <3>1 DEF FindMatch
  <2> QED BY <1>4, <2>1, <2>2 DEF FindMatch
<1>5. ASSUME NEW r \in Request, Exchange(r) PROVE TypeInv'
  <2>1. MatchResults(r, candidate[r]) \in Pair
    BY <1>5, MatchResultsType DEF Exchange
  <2> QED BY <1>5, <2>1 DEF Exchange
<1>6. ASSUME NEW r \in Request, Claim(r) PROVE TypeInv'
  <2>1. events' \in [Request -> [EventKind -> Nat]]
    <3> DEFINE once == Emitted(events, "Matched", {r, candidate[r]})
    <3>1. once \in [Request -> [EventKind -> Nat]]
      BY EmittedType DEF EventKind
    <3>2. Emitted(once, "Removed", {r, candidate[r]}) \in [Request -> [EventKind -> Nat]]
      BY <3>1, EmittedType DEF EventKind
    <3> QED BY <1>6, <3>2 DEF Claim
  <2>2. CASE candidate[r] \in requests
    <3>1. step' = [step EXCEPT ![r] = "notify"]
          /\ sender' = [sender EXCEPT ![candidate[r]] = "taken"]
          /\ requests' = requests \ {candidate[r]}
          /\ UNCHANGED <<now, body, candidate, result, rx, inbox, sweep>>
      BY <1>6, <2>2 DEF Claim
    <3>2. step[r] = "claim" /\ candidate[r] \in Request
      BY <1>6 DEF Claim
    <3>3. TypeOK'
      BY <2>1, <3>1, <3>2
    <3>4. BodyInv'
      BY <3>1, <3>2
    <3>5. EntriesPosted'
      BY <3>1, <3>2
    <3> QED BY <3>3, <3>4, <3>5
  <2>3. CASE candidate[r] \notin requests
    BY <1>6, <2>1, <2>3 DEF Claim
  <2> QED BY <2>2, <2>3
<1>7. ASSUME NEW r \in Request, Notify(r) PROVE TypeInv'
  BY <1>7 DEF Notify
<1>8. ASSUME NEW r \in Request, Announce(r) PROVE TypeInv'
  <2>1. events' \in [Request -> [EventKind -> Nat]]
    BY <1>8, EmittedType DEF Announce, EventKind
  <2> QED BY <1>8, <2>1 DEF Announce
<1>9. ASSUME NEW r \in Request, DropReceiver(r) PROVE TypeInv'
  BY <1>9 DEF DropReceiver
<1>10. ASSUME NEW r \in Request, RemoveRequest(r) PROVE TypeInv'
  <2>1. events' \in [Request -> [EventKind -> Nat]]
    BY <1>10, EmittedType DEF RemoveRequest, EventKind
  <2> QED BY <1>10, <2>1 DEF RemoveRequest
<1>11. ASSUME NEW r \in Request, CleanupReport(r) PROVE TypeInv'
  <2>1. events' \in [Request -> [EventKind -> Nat]]
    BY <1>11, EmittedType DEF CleanupReport, EventKind
  <2> QED BY <1>11, <2>1 DEF CleanupReport
<1>12. CASE CleanupScan
  BY <1>12 DEF CleanupScan, Expired
<1>13. CASE CleanupRemove
  BY <1>13 DEF CleanupRemove
<1>14. CASE Tick
  BY <1>14 DEF Tick
<1>15. CASE UNCHANGED queueVars
  BY <1>15 DEF queueVars
<1> QED
  BY <1>1, <1>2, <1>3, <1>4, <1>5, <1>6, <1>7, <1>8, <1>9, <1>10, <1>11,
     <1>12, <1>13, <1>14, <1>15 DEF QueueNext

\* The variables keep their types, and an entry of the map always has a body.
THEOREM TypeCorrect == QueueSpec => []TypeOK
<1>1. QueueSpec => []TypeInv
  BY TypeInvInit, TypeInvStep, PTL DEF QueueSpec
<1>2. TypeInv => TypeOK
  BY DEF TypeInv
<1> QED BY <1>1, <1>2, PTL

-----------------------------------------------------------------------------
(* An entry is claimed once *)

\* A call has a candidate only after its search, never itself, and only a
\* request that has been inserted; so no request is inserted after it is found.
CandidateInv ==
    \A r \in Request :
        /\ step[r] \in {Idle, "check", "insert", "find", "full"} => candidate[r] = NoRequest
        /\ candidate[r] \in Request =>
              candidate[r] # r /\ step[candidate[r]] \notin {Idle, "check", "insert", "full"}

ClaimInv == CandidateInv /\ ClaimedOnce

LEMMA ClaimInvInit == QueueInit => ClaimInv
BY QueueAssumption DEF QueueInit, ClaimInv, CandidateInv, ClaimedOnce, Claimed, Idle

LEMMA ClaimInvStep == TypeInv /\ ClaimInv /\ [QueueNext]_queueVars => ClaimInv'
<1> SUFFICES ASSUME TypeInv, ClaimInv, [QueueNext]_queueVars PROVE ClaimInv'
  OBVIOUS
<1>t. /\ step \in [Request -> Step]
      /\ candidate \in [Request -> Request \union {NoRequest}]
      /\ requests \subseteq Request
      /\ EntriesPosted /\ BodyInv
      /\ NoRequest \notin Request
  BY QueueAssumption DEF TypeInv, TypeOK
<1> USE DEF ClaimInv, CandidateInv, ClaimedOnce, Claimed, Goto, Idle
\* A step that only moves r forward, without a claim, and adds nothing to the map.
<1>0. ASSUME NEW r \in Request, NEW s, step' = [step EXCEPT ![r] = s],
             UNCHANGED candidate, requests' \subseteq requests,
             step[r] \notin {"notify", "matched"} => s \notin {"notify", "matched"},
             s \notin {"idle", "check", "insert", "full"} \/ step[r] \in {"idle", "check", "insert"},
             s \in {"idle", "check", "insert", "find", "full"} =>
                step[r] \in {"idle", "check", "insert", "find", "full"}
      PROVE  ClaimInv'
  BY <1>0, <1>t
<1>1. ASSUME NEW r \in Request, NEW o \in Offer, AddRequest(r, o) PROVE ClaimInv'
  BY <1>1, <1>0 DEF AddRequest
<1>2. ASSUME NEW r \in Request, CheckCapacity(r) PROVE ClaimInv'
  BY <1>2, <1>0 DEF CheckCapacity
<1>3. ASSUME NEW r \in Request, Insert(r) PROVE ClaimInv'
  <2>1. \A c \in Request : ~Claimed(c, r)
    BY <1>3, <1>t DEF Insert
  <2> QED BY <1>3, <1>t, <2>1 DEF Insert
<1>4. ASSUME NEW r \in Request, FindMatch(r) PROVE ClaimInv'
  <2>1. CASE Goto(r, "announce") /\ UNCHANGED candidate
    BY <1>4, <2>1, <1>0 DEF FindMatch
  <2>2. ASSUME NEW m \in BestCandidates(r), Goto(r, "exchange"),
               candidate' = [candidate EXCEPT ![r] = m]
        PROVE  ClaimInv'
    <3>1. m \in requests /\ m # r
      BY <2>2 DEF BestCandidates, Candidates
    <3>2. step[r] = "find" /\ UNCHANGED requests
      BY <1>4 DEF FindMatch
    <3> QED BY <2>2, <3>1, <3>2, <1>t DEF EntriesPosted
  <2> QED BY <1>4, <2>1, <2>2 DEF FindMatch
<1>5. ASSUME NEW r \in Request, Exchange(r) PROVE ClaimInv'
  BY <1>5, <1>0 DEF Exchange
<1>6. ASSUME NEW r \in Request, Claim(r) PROVE ClaimInv'
  <2>1. CASE candidate[r] \in requests
    <3>1. /\ step[r] = "claim" /\ step' = [step EXCEPT ![r] = "notify"]
          /\ requests' = requests \ {candidate[r]}
          /\ UNCHANGED candidate
      BY <1>6, <2>1 DEF Claim
    <3>2. \A d \in Request : ~Claimed(d, candidate[r])
      BY <2>1, <1>t
    <3> QED BY <2>1, <3>1, <3>2, <1>t
  <2>2. CASE candidate[r] \notin requests
    BY <1>6, <2>2, <1>0 DEF Claim
  <2> QED BY <2>1, <2>2
<1>7. ASSUME NEW r \in Request, Notify(r) PROVE ClaimInv'
  BY <1>7, <1>0 DEF Notify
<1>8. ASSUME NEW r \in Request, Announce(r) PROVE ClaimInv'
  BY <1>8, <1>0 DEF Announce
<1>9. ASSUME UNCHANGED <<step, candidate>>, requests' \subseteq requests PROVE ClaimInv'
  BY <1>9
<1>10. ASSUME NEW r \in Request,
              DropReceiver(r) \/ RemoveRequest(r) \/ CleanupReport(r)
       PROVE  ClaimInv'
  BY <1>9, <1>10 DEF DropReceiver, RemoveRequest, CleanupReport
<1>11. CASE CleanupScan \/ CleanupRemove \/ Tick
  BY <1>9, <1>11 DEF CleanupScan, CleanupRemove, Tick
<1>12. CASE UNCHANGED queueVars
  BY <1>9, <1>12 DEF queueVars
<1> QED
  BY <1>1, <1>2, <1>3, <1>4, <1>5, <1>6, <1>7, <1>8, <1>10, <1>11, <1>12 DEF QueueNext

\* No entry is claimed by two calls, whatever the interleaving of their searches
\* and claims (q_matching.rs:237-256).
THEOREM ClaimsAreExclusive == QueueSpec => []ClaimedOnce
<1>1. QueueInit => TypeInv /\ ClaimInv
  BY TypeInvInit, ClaimInvInit
<1>2. TypeInv /\ ClaimInv /\ [QueueNext]_queueVars => (TypeInv /\ ClaimInv)'
  BY TypeInvStep, ClaimInvStep
<1>3. ClaimInv => ClaimedOnce
  BY DEF ClaimInv
<1> QED BY <1>1, <1>2, <1>3, PTL DEF QueueSpec

-----------------------------------------------------------------------------
(* The map outgrows max_size by the callers in flight at most *)

Inserting == {r \in Request : step[r] = "insert"}

OvershootInv ==
    /\ Cardinality(Adding) <= Callers
    /\ Overshoot

LEMMA CardinalityMonotone ==
    ASSUME NEW S, NEW T \in SUBSET S, IsFiniteSet(S), NEW n \in Int, Cardinality(S) <= n
    PROVE  Cardinality(T) <= n
<1>1. IsFiniteSet(T) /\ Cardinality(T) <= Cardinality(S)
  BY FS_Subset
<1>2. Cardinality(S) \in Nat /\ Cardinality(T) \in Nat
  BY <1>1, FS_CardinalityType
<1> QED BY <1>1, <1>2

LEMMA OvershootInit == QueueInit => OvershootInv
<1> SUFFICES ASSUME QueueInit PROVE OvershootInv
  OBVIOUS
<1>1. Adding = {} /\ requests \union {r \in Request : step[r] = "insert"} = {}
  BY DEF QueueInit, Adding, Idle, Inside
<1>2. Cardinality({}) = 0
  BY FS_EmptySet
<1>3. Callers \in Nat \ {0} /\ MaxSize \in Nat \ {0}
  BY QueueAssumption
<1>4. 0 <= Callers /\ 0 <= MaxSize + Callers - 1
  BY <1>3
<1>5. Cardinality(Adding) <= Callers
  BY <1>1, <1>2, <1>4
<1> QED BY <1>1, <1>2, <1>4, <1>5 DEF OvershootInv, Overshoot

\* What the capacity test establishes: fewer than max_size entries, and every
\* other inserting call is one of the callers (q_impl.rs:20-25).
LEMMA CapacityTestBounds ==
    ASSUME TypeOK, OvershootInv, NEW r \in Request, step[r] = "check",
           ~(Cardinality(requests) >= MaxSize)
    PROVE  Cardinality(requests \union (Inserting \union {r})) <= MaxSize + Callers - 1
<1> DEFINE I == Inserting \union {r}
<1>1. IsFiniteSet(requests) /\ IsFiniteSet(Adding)
  BY QueueAssumption, FS_Subset DEF TypeOK, Adding
<1>2. I \subseteq Adding
  BY DEF Inserting, Adding, Inside
<1>3. IsFiniteSet(I)
  BY <1>1, <1>2, FS_Subset
<1>4. Cardinality(I) <= Callers
  BY <1>1, <1>2, CardinalityMonotone, QueueAssumption DEF OvershootInv
<1>5. /\ Cardinality(requests) \in Nat
      /\ Cardinality(I) \in Nat
      /\ Cardinality(requests \intersect I) \in Nat
  BY <1>1, <1>3, FS_CardinalityType, FS_Intersection
<1>6. Cardinality(requests \union I)
        = Cardinality(requests) + Cardinality(I) - Cardinality(requests \intersect I)
  BY <1>1, <1>3, FS_Union
<1> HIDE DEF I
<1>7. Cardinality(requests \union I) <= MaxSize + Callers - 1
  BY <1>4, <1>5, <1>6, QueueAssumption
<1> QED BY <1>7 DEF I

LEMMA OvershootStep == TypeInv /\ OvershootInv /\ [QueueNext]_queueVars => OvershootInv'
<1> SUFFICES ASSUME TypeInv, OvershootInv, [QueueNext]_queueVars PROVE OvershootInv'
  OBVIOUS
<1>t. /\ TypeOK /\ step \in [Request -> Step] /\ requests \subseteq Request
      /\ IsFiniteSet(Request) /\ Callers \in Nat /\ MaxSize \in Nat
  BY QueueAssumption DEF TypeInv, TypeOK
<1> DEFINE Held == requests \union Inserting
<1>f. IsFiniteSet(Held) /\ IsFiniteSet(Adding)
  BY <1>t, FS_Subset DEF Adding, Inserting
\* Most steps put no request among the callers or on its way into the map.
<1>0. ASSUME Adding' \subseteq Adding, Held' \subseteq Held PROVE OvershootInv'
  <2>1. Cardinality(Adding') <= Callers
    BY <1>0, <1>f, <1>t, CardinalityMonotone DEF OvershootInv
  <2>2. MaxSize + Callers - 1 \in Int
    BY <1>t
  <2>3. Cardinality(Held') <= MaxSize + Callers - 1
    BY <1>0, <1>f, <2>2, CardinalityMonotone DEF OvershootInv, Overshoot, Inserting
  <2> QED BY <2>1, <2>3 DEF OvershootInv, Overshoot, Inserting
<1> USE DEF Goto, Idle, Inside
<1>1. ASSUME NEW r \in Request, NEW o \in Offer, AddRequest(r, o) PROVE OvershootInv'
  <2>1. Adding' = Adding \union {r} /\ r \notin Adding
    BY <1>1, <1>t DEF AddRequest, Adding
  <2>2. Cardinality(Adding') = Cardinality(Adding) + 1
    BY <2>1, <1>f, FS_AddElement
  <2>3. Cardinality(Adding) < Callers
    BY <1>1 DEF AddRequest
  <2>4. Cardinality(Adding) \in Nat
    BY <1>f, FS_CardinalityType
  <2>5. Cardinality(Adding') <= Callers
    BY <2>2, <2>3, <2>4, <1>t
  <2>6. Held' \subseteq Held
    BY <1>1, <1>t DEF AddRequest, Inserting
  <2>7. MaxSize + Callers - 1 \in Int
    BY <1>t
  <2>8. Cardinality(Held') <= MaxSize + Callers - 1
    BY <2>6, <2>7, <1>f, CardinalityMonotone DEF OvershootInv, Overshoot, Inserting
  <2> QED BY <2>5, <2>8 DEF OvershootInv, Overshoot, Inserting
<1>2. ASSUME NEW r \in Request, CheckCapacity(r) PROVE OvershootInv'
  <2>1. CASE Cardinality(requests) >= MaxSize
    <3>1. step' = [step EXCEPT ![r] = "full"] /\ requests' = requests
      BY <1>2, <2>1 DEF CheckCapacity
    <3> QED BY <3>1, <1>0, <1>t DEF Adding, Inserting
  <2>2. CASE ~(Cardinality(requests) >= MaxSize)
    <3>1. step[r] = "check" /\ step' = [step EXCEPT ![r] = "insert"] /\ requests' = requests
      BY <1>2, <2>2 DEF CheckCapacity
    <3>2. Adding' \subseteq Adding /\ Inserting' = Inserting \union {r}
      BY <3>1, <1>t DEF Adding, Inserting
    <3>3. Cardinality(Adding') <= Callers
      BY <3>2, <1>f, <1>t, CardinalityMonotone DEF OvershootInv
    <3>4. Cardinality(Held') <= MaxSize + Callers - 1
      BY <3>1, <3>2, <2>2, <1>t, CapacityTestBounds
    <3> QED BY <3>3, <3>4 DEF OvershootInv, Overshoot, Inserting
  <2> QED BY <2>1, <2>2
<1>3. ASSUME NEW r \in Request, Insert(r) PROVE OvershootInv'
  BY <1>3, <1>0, <1>t DEF Insert, Adding, Inserting
<1>4. ASSUME NEW r \in Request, FindMatch(r) \/ Exchange(r) PROVE OvershootInv'
  BY <1>4, <1>0, <1>t DEF FindMatch, Exchange, Adding, Inserting
<1>5. ASSUME NEW r \in Request, Claim(r) PROVE OvershootInv'
  BY <1>5, <1>0, <1>t DEF Claim, Adding, Inserting
<1>6. ASSUME NEW r \in Request, Notify(r) \/ Announce(r) PROVE OvershootInv'
  BY <1>6, <1>0, <1>t DEF Notify, Announce, Adding, Inserting
<1>7. ASSUME NEW r \in Request,
             DropReceiver(r) \/ RemoveRequest(r) \/ CleanupReport(r)
      PROVE  OvershootInv'
  BY <1>7, <1>0 DEF DropReceiver, RemoveRequest, CleanupReport, Adding, Inserting
<1>8. CASE CleanupScan \/ CleanupRemove \/ Tick
  BY <1>8, <1>0 DEF CleanupScan, CleanupRemove, Tick, Adding, Inserting
<1>9. CASE UNCHANGED queueVars
  BY <1>9, <1>0 DEF queueVars, Adding, Inserting
<1> QED
  BY <1>1, <1>2, <1>3, <1>4, <1>5, <1>6, <1>7, <1>8, <1>9 DEF QueueNext

\* The overshoot of the map's capacity is bounded by the number of threads, for
\* any capacity, any number of threads and any load (q_impl.rs:20-53).
THEOREM OvershootBounded == QueueSpec => []Overshoot
<1>1. QueueInit => TypeInv /\ OvershootInv
  BY TypeInvInit, OvershootInit
<1>2. TypeInv /\ OvershootInv /\ [QueueNext]_queueVars => (TypeInv /\ OvershootInv)'
  BY TypeInvStep, OvershootStep
<1>3. OvershootInv => Overshoot
  BY DEF OvershootInv
<1> QED BY <1>1, <1>2, <1>3, PTL DEF QueueSpec

-----------------------------------------------------------------------------
(* No two live partners are left behind *)

\* r has searched, found nothing and returned, or is about to.
Settled(r) == step[r] \in {"announce", "pending"} /\ candidate[r] = NoRequest

LEMMA NoMissedMatchInit == QueueInit => NoMissedMatch
BY DEF QueueInit, NoMissedMatch

\* A step after which no more entries are settled, and which changes neither
\* their bodies nor makes time run backwards, keeps the property.
LEMMA NoMissedMatchKept ==
    ASSUME TypeInv, NoMissedMatch, now' \in Nat, now' >= now, requests' \subseteq Request,
           \A r \in requests' : Settled(r)' => r \in requests /\ Settled(r) /\ body'[r] = body[r]
    PROVE  NoMissedMatch'
<1> SUFFICES ASSUME NEW a \in requests', NEW b \in requests', a # b,
                    Settled(a)', Settled(b)', body'[a].expires > now',
                    Admissible(body'[a], body'[b], now')
             PROVE  FALSE
  BY DEF NoMissedMatch, Settled
<1>1. /\ a \in requests /\ b \in requests /\ Settled(a) /\ Settled(b)
      /\ body'[a] = body[a] /\ body'[b] = body[b]
  OBVIOUS
<1>2. body[a] \in QueuedRequest /\ body[b] \in QueuedRequest /\ now \in Nat
  BY <1>1 DEF TypeInv, TypeOK, BodyInv, Settled, Idle
<1>3. body[a].expires > now /\ body[b].expires > now
  BY <1>1, <1>2 DEF QueuedRequest, Admissible
<1>4. Admissible(body[a], body[b], now)
  BY <1>1, <1>3 DEF Admissible
<1> QED BY <1>1, <1>3, <1>4 DEF NoMissedMatch, Settled

LEMMA NoMissedMatchStep ==
    TypeInv /\ ClaimInv /\ NoMissedMatch /\ [QueueNext]_queueVars => NoMissedMatch'
<1> SUFFICES ASSUME TypeInv, ClaimInv, NoMissedMatch, [QueueNext]_queueVars
             PROVE  NoMissedMatch'
  OBVIOUS
<1>t. /\ step \in [Request -> Step] /\ requests \subseteq Request /\ now \in Nat
      /\ candidate \in [Request -> Request \union {NoRequest}]
      /\ body \in [Request -> QueuedRequest \union {NoBody}]
      /\ NoRequest \notin Request
      /\ EntriesPosted /\ BodyInv
  BY QueueAssumption DEF TypeInv, TypeOK
<1>tp. TypeOK' /\ now' \in Nat /\ requests' \subseteq Request
  BY TypeInvStep DEF TypeInv, TypeOK
<1> DEFINE Kept == \A r \in requests' :
                      Settled(r)' => r \in requests /\ Settled(r) /\ body'[r] = body[r]
<1>k. ASSUME now' >= now, Kept PROVE NoMissedMatch'
  BY <1>k, <1>tp, NoMissedMatchKept
<1> USE DEF Goto, Idle
<1>1. ASSUME NEW r \in Request, NEW o \in Offer, AddRequest(r, o) PROVE NoMissedMatch'
  <2>1. r \notin requests
    BY <1>1, <1>t DEF AddRequest, EntriesPosted
  <2> QED BY <1>1, <2>1, <1>t, <1>k DEF AddRequest, Settled
<1>2. ASSUME NEW r \in Request, CheckCapacity(r) PROVE NoMissedMatch'
  BY <1>2, <1>t, <1>k DEF CheckCapacity, Settled
<1>3. ASSUME NEW r \in Request, Insert(r) PROVE NoMissedMatch'
  BY <1>3, <1>t, <1>k DEF Insert, Settled
<1>4. ASSUME NEW r \in Request, FindMatch(r) PROVE NoMissedMatch'
  <2>1. CASE Candidates(r) = {} /\ Goto(r, "announce") /\ UNCHANGED candidate
    <3> SUFFICES ASSUME NEW a \in requests', NEW b \in requests', a # b,
                        Settled(a)', Settled(b)', body'[a].expires > now',
                        Admissible(body'[a], body'[b], now')
                 PROVE  FALSE
      BY DEF NoMissedMatch, Settled
    <3>1. UNCHANGED <<now, body, requests>> /\ step' = [step EXCEPT ![r] = "announce"]
          /\ step[r] = "find"
      BY <1>4, <2>1 DEF FindMatch
    <3>2. a \in Request /\ b \in Request /\ body[a] \in QueuedRequest /\ body[b] \in QueuedRequest
      BY <3>1, <1>t DEF EntriesPosted, BodyInv
    <3>3. \A m \in requests : m # r => ~Admissible(body[r], body[m], now)
      BY <2>1 DEF Candidates
    <3>4. a # r
      BY <3>1, <3>3
    <3>5. b # r
      <4>1. Admissible(body[b], body[a], now)
        BY <3>1, <3>2, <1>t, AdmissibleSymmetric
      <4> QED BY <4>1, <3>1, <3>3
    <3>6. Settled(a) /\ Settled(b)
      BY <2>1, <3>1, <3>2, <3>4, <3>5, <1>t DEF Settled
    <3> QED BY <3>1, <3>6 DEF NoMissedMatch, Settled
  <2>2. ASSUME Goto(r, "exchange") PROVE NoMissedMatch'
    <3>1. step' = [step EXCEPT ![r] = "exchange"] /\ UNCHANGED <<now, body, requests>>
          /\ \A x \in Request : x # r => candidate'[x] = candidate[x]
      BY <1>4, <2>2, <1>t DEF FindMatch
    <3> QED BY <3>1, <1>t, <1>k DEF Settled
  <2> QED BY <1>4, <2>1, <2>2 DEF FindMatch
<1>5. ASSUME NEW r \in Request, Exchange(r) PROVE NoMissedMatch'
  BY <1>5, <1>t, <1>k DEF Exchange, Settled
<1>6. ASSUME NEW r \in Request, Claim(r) PROVE NoMissedMatch'
  <2>1. candidate[r] \in Request
    BY <1>6, <1>t DEF Claim, BodyInv
  <2>2. requests' \subseteq requests /\ UNCHANGED <<now, body, candidate>>
        /\ \A x \in Request : x # r => step'[x] = step[x]
    BY <1>6, <1>t DEF Claim
  <2>3. ~Settled(r)'
    BY <2>1, <2>2, <1>t DEF Settled
  <2> QED BY <2>2, <2>3, <1>t, <1>k DEF Settled
<1>7. ASSUME NEW r \in Request, Notify(r) PROVE NoMissedMatch'
  BY <1>7, <1>t, <1>k DEF Notify, Settled
<1>8. ASSUME NEW r \in Request, Announce(r) PROVE NoMissedMatch'
  BY <1>8, <1>t, <1>k DEF Announce, Settled
<1>9. ASSUME UNCHANGED <<step, candidate, body>>, requests' \subseteq requests, now' >= now
      PROVE  NoMissedMatch'
  BY <1>9, <1>k DEF Settled
<1>10. ASSUME NEW r \in Request,
              DropReceiver(r) \/ RemoveRequest(r) \/ CleanupReport(r)
       PROVE  NoMissedMatch'
  BY <1>9, <1>10, <1>t DEF DropReceiver, RemoveRequest, CleanupReport
<1>11. CASE CleanupScan \/ CleanupRemove \/ Tick
  BY <1>9, <1>11, <1>t DEF CleanupScan, CleanupRemove, Tick
<1>12. CASE UNCHANGED queueVars
  BY <1>9, <1>12, <1>t DEF queueVars
<1> QED
  BY <1>1, <1>2, <1>3, <1>4, <1>5, <1>6, <1>7, <1>8, <1>10, <1>11, <1>12 DEF QueueNext

\* Inserting before searching is enough: of two live entries that suit each
\* other, the one that searched second found a candidate, so they cannot both
\* have searched in vain (q_impl.rs:45-46 before 73).
THEOREM NoMatchMissed == QueueSpec => []NoMissedMatch
<1>1. QueueInit => TypeInv /\ ClaimInv /\ NoMissedMatch
  BY TypeInvInit, ClaimInvInit, NoMissedMatchInit
<1>2. TypeInv /\ ClaimInv /\ NoMissedMatch /\ [QueueNext]_queueVars
        => (TypeInv /\ ClaimInv /\ NoMissedMatch)'
  BY TypeInvStep, ClaimInvStep, NoMissedMatchStep
<1> QED BY <1>1, <1>2, PTL DEF QueueSpec

-----------------------------------------------------------------------------
(* Whoever is matched was alive when its partner came *)

\* No request comes from the future, and from the search on the candidate is one
\* that was alive when the call began.
OverlapInv ==
    \A r \in Request :
        /\ step[r] # Idle => body[r].timestamp <= now
        /\ step[r] \in {"exchange", "claim", "notify", "matched"} =>
              body[r].timestamp < body[candidate[r]].expires

LEMMA OverlapInvInit == QueueInit => OverlapInv
BY DEF QueueInit, OverlapInv, Idle

LEMMA OverlapInvStep ==
    TypeInv /\ ClaimInv /\ OverlapInv /\ [QueueNext]_queueVars => OverlapInv'
<1> SUFFICES ASSUME TypeInv, ClaimInv, OverlapInv, [QueueNext]_queueVars
             PROVE  OverlapInv'
  OBVIOUS
<1>t. /\ step \in [Request -> Step] /\ requests \subseteq Request /\ now \in Nat
      /\ candidate \in [Request -> Request \union {NoRequest}]
      /\ body \in [Request -> QueuedRequest \union {NoBody}]
      /\ EntriesPosted /\ BodyInv /\ CandidateInv
  BY DEF TypeInv, TypeOK, ClaimInv
<1> USE DEF OverlapInv, Goto, Idle
\* Time only goes on, and a step of a call that has begun and does not end a
\* search changes nothing the invariant speaks of.
<1>0. ASSUME UNCHANGED <<body, candidate>>, now' \in Nat, now' >= now,
             \A r \in Request : step'[r] # "idle" => step[r] # "idle",
             \A r \in Request : step'[r] \in {"exchange", "claim", "notify", "matched"} =>
                 step[r] \in {"exchange", "claim", "notify", "matched"}
      PROVE  OverlapInv'
  <2>1. ASSUME NEW r \in Request, step'[r] # "idle" PROVE body[r].timestamp <= now'
    <3>1. body[r] \in QueuedRequest /\ body[r].timestamp <= now
      BY <1>0, <1>t, <2>1 DEF BodyInv
    <3> QED BY <1>0, <1>t, <3>1 DEF QueuedRequest
  <2> QED BY <1>0, <2>1
<1>1. ASSUME NEW r \in Request, NEW o \in Offer, AddRequest(r, o) PROVE OverlapInv'
  <2>1. /\ step[r] = "idle" /\ step' = [step EXCEPT ![r] = "check"]
        /\ body'[r].timestamp = now
        /\ \A w \in Request : w # r => body'[w] = body[w]
        /\ UNCHANGED <<now, candidate>>
    BY <1>1, <1>t DEF AddRequest
  <2>2. \A c \in Request : step[c] \in {"exchange", "claim", "notify", "matched"} =>
                             candidate[c] # r /\ candidate[c] \in Request
    BY <1>t, <2>1 DEF CandidateInv, BodyInv
  <2> QED BY <1>t, <2>1, <2>2
<1>2. ASSUME NEW r \in Request, FindMatch(r) PROVE OverlapInv'
  <2>1. CASE Goto(r, "announce") /\ UNCHANGED candidate
    BY <1>0, <1>2, <1>t, <2>1 DEF FindMatch
  <2>2. ASSUME NEW m \in BestCandidates(r), Goto(r, "exchange"),
               candidate' = [candidate EXCEPT ![r] = m]
        PROVE  OverlapInv'
    <3>1. m \in requests /\ body[m].expires > now
      BY <2>2 DEF BestCandidates, Candidates, Admissible
    <3>2. step[r] = "find" /\ UNCHANGED <<now, body>>
      BY <1>2 DEF FindMatch
    <3>3. body[r] \in QueuedRequest /\ body[m] \in QueuedRequest
      BY <3>1, <3>2, <1>t DEF BodyInv, EntriesPosted
    <3>4. body[r].timestamp < body[m].expires
      BY <3>1, <3>2, <3>3, <1>t DEF QueuedRequest
    <3> QED BY <2>2, <3>2, <3>4, <1>t
  <2> QED BY <1>2, <2>1, <2>2 DEF FindMatch
<1>3. ASSUME NEW r \in Request, CheckCapacity(r) \/ Insert(r) \/ Exchange(r)
      PROVE  OverlapInv'
  BY <1>0, <1>3, <1>t DEF CheckCapacity, Insert, Exchange
<1>4. ASSUME NEW r \in Request, Claim(r) \/ Notify(r) \/ Announce(r) PROVE OverlapInv'
  BY <1>0, <1>4, <1>t DEF Claim, Notify, Announce
<1>5. ASSUME NEW r \in Request,
             DropReceiver(r) \/ RemoveRequest(r) \/ CleanupReport(r)
      PROVE  OverlapInv'
  BY <1>0, <1>5, <1>t DEF DropReceiver, RemoveRequest, CleanupReport
<1>6. CASE CleanupScan \/ CleanupRemove \/ Tick
  BY <1>0, <1>6, <1>t DEF CleanupScan, CleanupRemove, Tick
<1>7. CASE UNCHANGED queueVars
  BY <1>0, <1>7, <1>t DEF queueVars
<1> QED
  BY <1>1, <1>2, <1>3, <1>4, <1>5, <1>6, <1>7 DEF QueueNext

\* An entry may expire between the search that finds it and its claim, but it is
\* never matched with a request that came after its end (q_matching.rs:43, 249).
THEOREM MatchesOverlap == QueueSpec => []PartnersOverlap
<1>1. QueueInit => TypeInv /\ ClaimInv /\ OverlapInv
  BY TypeInvInit, ClaimInvInit, OverlapInvInit
<1>2. TypeInv /\ ClaimInv /\ OverlapInv /\ [QueueNext]_queueVars
        => (TypeInv /\ ClaimInv /\ OverlapInv)'
  BY TypeInvStep, ClaimInvStep, OverlapInvStep
<1>3. OverlapInv => PartnersOverlap
  BY DEF OverlapInv, PartnersOverlap, Claimed
<1> QED BY <1>1, <1>2, <1>3, PTL DEF QueueSpec

=============================================================================
