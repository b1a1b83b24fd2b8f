------------------------- MODULE QueueDeliveryProofs -------------------------
(***************************************************************************)
(* Theorems about what UnifiedQueue sends: nobody listens on a channel that *)
(* will not be used, what comes down a channel is the result of the claim,  *)
(* with the right partner and the right payload, and the events broadcast   *)
(* are those of what happened.                                              *)
(***************************************************************************)
EXTENDS UnifiedQueueProofs

-----------------------------------------------------------------------------
(* Nobody is left on a dead channel *)

Unposted == {"idle", "check", "insert", "full"}

\* The sender of an inserted request is in its entry, with its claimer, or gone;
\* if it is gone and somebody listens, a message came or the time is up.
Outcome(w) ==
    \/ w \in requests /\ sender[w] = "map"
    \/ sender[w] = "taken" /\ \E c \in Request : step[c] = "notify" /\ candidate[c] = w
    \/ sender[w] = "gone" /\ (w \in rx => inbox[w] # NoResult \/ body[w].expires <= now)

ChannelInv ==
    /\ \A w \in Request : step[w] \notin Unposted => Outcome(w)
    /\ \A c \in Request : step[c] \in {"claim", "notify", "matched"} => result[c] \in Pair
    /\ sweep.stage = "remove" =>
          \A w \in sweep.ids : step[w] \notin Unposted /\ body[w].expires <= now

LEMMA ChannelInvInit == QueueInit => ChannelInv
BY DEF QueueInit, ChannelInv, Unposted, Idle

\* Outcome survives a step that leaves the channel, the entry and the body of w
\* and all claims alone, or only takes receivers away or lets time pass.
LEMMA OutcomeKept ==
    ASSUME NEW w \in Request, Outcome(w),
           w \in requests => w \in requests',
           sender'[w] = sender[w], inbox'[w] = inbox[w], body'[w] = body[w],
           w \in rx' => w \in rx,
           body[w].expires <= now => body[w].expires <= now',
           \A c \in Request : step[c] = "notify" /\ candidate[c] = w
                => step'[c] = "notify" /\ candidate'[c] = w
    PROVE  Outcome(w)'
BY DEF Outcome

LEMMA ChannelInvStep ==
    TypeInv /\ ClaimInv /\ ChannelInv /\ [QueueNext]_queueVars => ChannelInv'
<1> SUFFICES ASSUME TypeInv, ClaimInv, ChannelInv, [QueueNext]_queueVars
             PROVE  ChannelInv'
  OBVIOUS
<1>t. /\ step \in [Request -> Step] /\ requests \subseteq Request /\ now \in Nat
      /\ candidate \in [Request -> Request \union {NoRequest}]
      /\ result \in [Request -> Pair \union {NoResult}]
      /\ sender \in [Request -> Sender] /\ inbox \in [Request -> Pair \union {NoResult}]
      /\ body \in [Request -> QueuedRequest \union {NoBody}]
      /\ sweep \in [stage : {"idle", "remove", "report"}, ids : SUBSET Request]
      /\ NoRequest \notin Request /\ NoResult \notin Pair
      /\ sweep.ids \subseteq Request
      /\ EntriesPosted /\ BodyInv /\ CandidateInv /\ ClaimedOnce
  BY QueueAssumption DEF TypeInv, TypeOK, ClaimInv
<1> USE DEF ChannelInv, Unposted, Goto, Idle
\* A step of the call of r that moves it from one posted step to another and
\* touches no channel, entry, body or claim.
<1>0. ASSUME NEW r \in Request, NEW s, step' = [step EXCEPT ![r] = s],
             step[r] \notin Unposted, step[r] # "notify",
             s \in {"matched", "claim"} => result'[r] \in Pair,
             s \notin Unposted, s # "notify",
             \A c \in Request : c # r => result'[c] = result[c] /\ candidate'[c] = candidate[c],
             UNCHANGED <<now, body, requests, sender, rx, inbox, sweep>>
      PROVE  ChannelInv'
  <2>1. ASSUME NEW w \in Request, step'[w] \notin Unposted PROVE Outcome(w)'
    BY <1>0, <1>t, <2>1, OutcomeKept
  <2>2. ASSUME NEW c \in Request, step'[c] \in {"claim", "notify", "matched"}
        PROVE  result'[c] \in Pair
    BY <1>0, <1>t, <2>2
  <2> QED BY <1>0, <1>t, <2>1, <2>2
\* What the three conjuncts need of a step that moves no call.
<1>s. ASSUME UNCHANGED <<step, candidate, result, body, inbox>>, rx' \subseteq rx,
             now' \in Nat, now' >= now,
             \A w \in Request : step[w] \notin Unposted => Outcome(w)' \/
                 (sender'[w] = sender[w] /\ (w \in requests => w \in requests')),
             sweep'.stage = "remove" =>
                 \A w \in sweep'.ids : w \in Request /\ step[w] \notin Unposted
                                                    /\ body[w].expires <= now
      PROVE  ChannelInv'
  <2>1. ASSUME NEW w \in Request, step[w] \notin Unposted, body[w].expires <= now
        PROVE  body[w].expires <= now'
    <3>1. body[w].expires \in Nat
      BY <2>1, <1>t DEF BodyInv, QueuedRequest
    <3> QED BY <2>1, <3>1, <1>t, <1>s
  <2>2. ASSUME NEW w \in Request, step'[w] \notin Unposted PROVE Outcome(w)'
    BY <1>s, <2>1, <2>2, OutcomeKept
  <2> QED BY <1>s, <2>1, <2>2
<1>1. ASSUME NEW r \in Request, NEW o \in Offer, AddRequest(r, o) PROVE ChannelInv'
  <2>1. /\ step[r] = "idle" /\ step' = [step EXCEPT ![r] = "check"]
        /\ \A w \in Request : w # r => /\ body'[w] = body[w] /\ sender'[w] = sender[w]
                                       /\ (w \in rx' => w \in rx)
        /\ UNCHANGED <<now, requests, candidate, result, inbox, sweep>>
    BY <1>1, <1>t DEF AddRequest
  <2>2. ASSUME NEW w \in Request, step'[w] \notin Unposted PROVE Outcome(w)'
    BY <1>t, <2>1, <2>2, OutcomeKept
  <2>3. ASSUME NEW c \in Request, step'[c] \in {"claim", "notify", "matched"}
        PROVE  result'[c] \in Pair
    BY <1>t, <2>1, <2>3
  <2> QED BY <1>t, <2>1, <2>2, <2>3
<1>2. ASSUME NEW r \in Request, CheckCapacity(r) PROVE ChannelInv'
  <2>1. /\ step[r] = "check" /\ (\E s \in Unposted : step' = [step EXCEPT ![r] = s])
        /\ \A w \in Request : w # r => sender'[w] = sender[w]
        /\ UNCHANGED <<now, body, requests, candidate, result, rx, inbox, sweep>>
    BY <1>2, <1>t DEF CheckCapacity
  <2>2. ASSUME NEW w \in Request, step'[w] \notin Unposted PROVE Outcome(w)'
    BY <1>t, <2>1, <2>2, OutcomeKept
  <2>3. ASSUME NEW c \in Request, step'[c] \in {"claim", "notify", "matched"}
        PROVE  result'[c] \in Pair
    BY <1>t, <2>1, <2>3
  <2> QED BY <1>t, <2>1, <2>2, <2>3
<1>3. ASSUME NEW r \in Request, Insert(r) PROVE ChannelInv'
  <2>1. ASSUME NEW w \in Request, step'[w] \notin Unposted PROVE Outcome(w)'
    <3>1. CASE w = r
      BY <1>3, <1>t, <3>1 DEF Insert, Outcome
    <3>2. CASE w # r
      BY <1>3, <1>t, <2>1, <3>2, OutcomeKept DEF Insert
    <3> QED BY <3>1, <3>2
  <2> QED BY <1>3, <1>t, <2>1 DEF Insert
<1>4. ASSUME NEW r \in Request, FindMatch(r) PROVE ChannelInv'
  <2>1. \E s \in {"announce", "exchange"} : step' = [step EXCEPT ![r] = s]
    BY <1>4 DEF FindMatch
  <2>2. \A c \in Request : c # r => candidate'[c] = candidate[c]
    BY <1>4, <1>t DEF FindMatch
  <2> QED BY <1>4, <2>1, <2>2, <1>0 DEF FindMatch
<1>5. ASSUME NEW r \in Request, Exchange(r) PROVE ChannelInv'
  <2>1. result'[r] \in Pair
    BY <1>5, <1>t, MatchResultsType DEF Exchange, BodyInv, EntriesPosted
  <2> QED BY <1>5, <1>t, <2>1, <1>0 DEF Exchange
<1>6. ASSUME NEW r \in Request, Claim(r) PROVE ChannelInv'
  <2> DEFINE m == candidate[r]
  <2>1. CASE m \in requests
    <3>1. /\ step[r] = "claim" /\ step' = [step EXCEPT ![r] = "notify"]
          /\ requests' = requests \ {m} /\ sender' = [sender EXCEPT ![m] = "taken"]
          /\ UNCHANGED <<now, body, candidate, result, rx, inbox, sweep>>
      BY <1>6, <2>1 DEF Claim
    <3>2. ASSUME NEW w \in Request, step'[w] \notin Unposted PROVE Outcome(w)'
      <4>1. CASE w = m
        BY <3>1, <1>t, <4>1 DEF Outcome
      <4>2. CASE w # m
        BY <3>1, <3>2, <1>t, <4>2, OutcomeKept
      <4> QED BY <4>1, <4>2
    <3> QED BY <3>1, <3>2, <1>t
  <2>2. CASE m \notin requests
    BY <1>6, <2>2, <1>0 DEF Claim
  <2> QED BY <2>1, <2>2
<1>7. ASSUME NEW r \in Request, Notify(r) PROVE ChannelInv'
  <2> DEFINE m == candidate[r]
  <2>1. /\ step[r] = "notify" /\ step' = [step EXCEPT ![r] = "matched"]
        /\ m \in Request /\ result[r] \in Pair
        /\ sender' = [sender EXCEPT ![m] = "gone"]
        /\ m \in rx => inbox' = [inbox EXCEPT ![m] = result[r]]
        /\ \A w \in Request : w # m => inbox'[w] = inbox[w]
        /\ UNCHANGED <<now, body, requests, candidate, result, rx, sweep>>
    BY <1>7, <1>t DEF Notify, BodyInv
  <2>2. ASSUME NEW w \in Request, step'[w] \notin Unposted PROVE Outcome(w)'
    <3>1. CASE w = m
      BY <2>1, <1>t, <3>1 DEF Outcome
    <3>2. CASE w # m
      BY <2>1, <2>2, <1>t, <3>2, OutcomeKept
    <3> QED BY <3>1, <3>2
  <2> QED BY <2>1, <2>2, <1>t
<1>8. ASSUME NEW r \in Request, Announce(r) PROVE ChannelInv'
  BY <1>8, <1>0 DEF Announce
<1>9. ASSUME NEW r \in Request, DropReceiver(r) PROVE ChannelInv'
  BY <1>9, <1>s, <1>t DEF DropReceiver
<1>10. ASSUME NEW r \in Request, RemoveRequest(r) PROVE ChannelInv'
  <2>1. Outcome(r)'
    BY <1>10, <1>t DEF RemoveRequest, Outcome
  <2>2. \A w \in Request : w # r => sender'[w] = sender[w] /\ (w \in requests => w \in requests')
    BY <1>10, <1>t DEF RemoveRequest
  <2> QED BY <1>10, <2>1, <2>2, <1>s, <1>t DEF RemoveRequest
<1>11. ASSUME NEW r \in Request, CleanupReport(r) PROVE ChannelInv'
  <2>1. sweep'.stage # "remove"
    BY <1>11, <1>t DEF CleanupReport
  <2> QED BY <1>11, <2>1, <1>s, <1>t DEF CleanupReport
<1>12. CASE CleanupScan
  <2>1. \A w \in Expired : w \in Request /\ step[w] \notin Unposted /\ body[w].expires <= now
    BY <1>t DEF Expired, EntriesPosted
  <2> QED BY <1>12, <2>1, <1>s, <1>t DEF CleanupScan
<1>13. CASE CleanupRemove
  <2>1. ASSUME NEW w \in Request, step[w] \notin Unposted
        PROVE  Outcome(w)' \/ (sender'[w] = sender[w] /\ (w \in requests => w \in requests'))
    BY <1>13, <1>t, <2>1 DEF CleanupRemove, Outcome
  <2>2. sweep'.stage # "remove"
    BY <1>13, <1>t DEF CleanupRemove
  <2> QED BY <1>13, <2>1, <2>2, <1>s, <1>t DEF CleanupRemove
<1>14. CASE Tick
  BY <1>14, <1>s, <1>t DEF Tick
<1>15. CASE UNCHANGED queueVars
  BY <1>15, <1>s, <1>t DEF queueVars
<1> QED
  BY <1>1, <1>2, <1>3, <1>4, <1>5, <1>6, <1>7, <1>8, <1>9, <1>10, <1>11,
     <1>12, <1>13, <1>14, <1>15 DEF QueueNext

LEMMA ChannelInvHolds == QueueSpec => [](TypeInv /\ ClaimInv /\ ChannelInv)
<1>1. QueueInit => TypeInv /\ ClaimInv /\ ChannelInv
  BY TypeInvInit, ClaimInvInit, ChannelInvInit
<1>2. TypeInv /\ ClaimInv /\ ChannelInv /\ [QueueNext]_queueVars
        => (TypeInv /\ ClaimInv /\ ChannelInv)'
  BY TypeInvStep, ClaimInvStep, ChannelInvStep
<1> QED BY <1>1, <1>2, PTL DEF QueueSpec

\* No caller is left listening on a channel that nobody will use, whatever the
\* interleaving of claims, withdrawals and sweeps (q_matching.rs:237-417,
\* q_impl.rs:163-168).
THEOREM ListenersGetAnOutcome == QueueSpec => []ListenerHasOutcome
<1>1. TypeInv /\ ChannelInv => ListenerHasOutcome
  BY DEF TypeInv, TypeOK, ChannelInv, Unposted, Outcome, ListenerHasOutcome
<1> QED BY <1>1, ChannelInvHolds, PTL

-----------------------------------------------------------------------------
(* What comes down a channel *)

\* The pair that c prepared gives each side the other as its partner, the
\* claimed side the payload of c, and a Bump that claims the claimed payload.
Content(c) ==
    LET w == candidate[c]
    IN  /\ Ours(c, result[c]).with = w
        /\ Ours(w, result[c]).with = c
        /\ Ours(w, result[c]).payload =
              IF body[c].type = "Receive" THEN NoPayload ELSE body[c].payload
        /\ body[c].type = "Bump" => Ours(c, result[c]).payload = body[w].payload

\* Content is promised from the moment the results are computed, but only while
\* the candidate is in the map: the payload of one already gone is not found,
\* and the claim will fail.
Prepared(c) ==
    \/ step[c] = "claim" /\ candidate[c] \in requests
    \/ step[c] \in {"notify", "matched"}

DeliveryInv ==
    /\ \A w \in Request : inbox[w] # NoResult =>
          \E c \in Request : step[c] = "matched" /\ candidate[c] = w /\ inbox[w] = result[c]
    /\ \A c \in Request : Prepared(c) => Content(c)

LEMMA DeliveryInvInit == QueueInit => DeliveryInv
BY DEF QueueInit, DeliveryInv, Prepared, Idle

\* What atomic_match prepares while the candidate is in the map
\* (q_matching.rs:111-234).
LEMMA MatchResultsContent ==
    ASSUME NEW r \in Request, NEW m \in requests, r # m
    PROVE  /\ Ours(r, MatchResults(r, m)).with = m
           /\ Ours(m, MatchResults(r, m)).with = r
           /\ Ours(m, MatchResults(r, m)).payload =
                 IF body[r].type = "Receive" THEN NoPayload ELSE body[r].payload
           /\ body[r].type = "Bump" => Ours(r, MatchResults(r, m)).payload = body[m].payload
<1>1. CASE body[r].type = "Receive"
  BY <1>1 DEF MatchResults, Ours
<1>2. CASE body[r].type # "Receive"
  BY <1>2 DEF MatchResults, Ours
<1> QED BY <1>1, <1>2

LEMMA DeliveryInvStep ==
    TypeInv /\ ClaimInv /\ DeliveryInv /\ [QueueNext]_queueVars => DeliveryInv'
<1> SUFFICES ASSUME TypeInv, ClaimInv, DeliveryInv, [QueueNext]_queueVars
             PROVE  DeliveryInv'
  OBVIOUS
<1>t. /\ step \in [Request -> Step] /\ requests \subseteq Request
      /\ candidate \in [Request -> Request \union {NoRequest}]
      /\ result \in [Request -> Pair \union {NoResult}]
      /\ inbox \in [Request -> Pair \union {NoResult}]
      /\ body \in [Request -> QueuedRequest \union {NoBody}]
      /\ NoRequest \notin Request
      /\ EntriesPosted /\ BodyInv /\ CandidateInv
  BY QueueAssumption DEF TypeInv, TypeOK, ClaimInv
<1> USE DEF Goto, Idle
\* A call past the search keeps its body, and so does its candidate.
<1>b. ASSUME NEW c \in Request, step[c] \in {"claim", "notify", "matched"}
      PROVE  /\ candidate[c] \in Request /\ candidate[c] # c
             /\ step[candidate[c]] \notin {"idle", "check", "insert", "full"}
  BY <1>b, <1>t DEF BodyInv, CandidateInv
\* Steps that prepare nothing and send nothing.
<1>0. ASSUME inbox' = inbox,
             \A c \in Request : step[c] = "matched" =>
                 step'[c] = "matched" /\ candidate'[c] = candidate[c] /\ result'[c] = result[c],
             \A c \in Request : Prepared(c)' =>
                 /\ Prepared(c)
                 /\ candidate'[c] = candidate[c] /\ result'[c] = result[c]
                 /\ body'[c] = body[c] /\ body'[candidate[c]] = body[candidate[c]]
      PROVE  DeliveryInv'
  <2>1. ASSUME NEW w \in Request, inbox'[w] # NoResult
        PROVE  \E c \in Request : step'[c] = "matched" /\ candidate'[c] = w
                                                       /\ inbox'[w] = result'[c]
    BY <1>0, <2>1 DEF DeliveryInv
  <2>2. ASSUME NEW c \in Request, Prepared(c)' PROVE Content(c)'
    BY <1>0, <2>2 DEF DeliveryInv, Content, Ours
  <2> QED BY <2>1, <2>2 DEF DeliveryInv
<1>1. ASSUME NEW r \in Request, NEW o \in Offer, AddRequest(r, o) PROVE DeliveryInv'
  <2>1. /\ step[r] = "idle" /\ step' = [step EXCEPT ![r] = "check"]
        /\ \A w \in Request : w # r => body'[w] = body[w]
        /\ UNCHANGED <<requests, candidate, result, inbox>>
    BY <1>1, <1>t DEF AddRequest
  <2> QED BY <1>0, <1>b, <1>t, <2>1 DEF Prepared
<1>2. ASSUME NEW r \in Request, CheckCapacity(r) \/ Announce(r) PROVE DeliveryInv'
  BY <1>0, <1>2, <1>t DEF CheckCapacity, Announce, Prepared
<1>3. ASSUME NEW r \in Request, Insert(r) PROVE DeliveryInv'
  BY <1>0, <1>3, <1>b, <1>t DEF Insert, Prepared
<1>4. ASSUME NEW r \in Request, FindMatch(r) PROVE DeliveryInv'
  <2>1. \E s \in {"announce", "exchange"} : step' = [step EXCEPT ![r] = s]
    BY <1>4 DEF FindMatch
  <2>2. \A c \in Request : c # r => candidate'[c] = candidate[c]
    BY <1>4, <1>t DEF FindMatch
  <2>3. step[r] = "find" /\ UNCHANGED <<body, requests, result, inbox>>
    BY <1>4 DEF FindMatch
  <2> QED BY <1>0, <1>t, <2>1, <2>2, <2>3 DEF Prepared
<1>5. ASSUME NEW r \in Request, Exchange(r) PROVE DeliveryInv'
  <2>1. /\ step[r] = "exchange" /\ step' = [step EXCEPT ![r] = "claim"]
        /\ result' = [result EXCEPT ![r] = MatchResults(r, candidate[r])]
        /\ UNCHANGED <<body, requests, candidate, inbox>>
    BY <1>5 DEF Exchange
  <2>2. candidate[r] \in Request /\ candidate[r] # r
    BY <2>1, <1>t DEF BodyInv, CandidateInv
  <2>3. ASSUME NEW w \in Request, inbox'[w] # NoResult
        PROVE  \E c \in Request : step'[c] = "matched" /\ candidate'[c] = w
                                                       /\ inbox'[w] = result'[c]
    BY <1>t, <2>1, <2>3 DEF DeliveryInv
  <2>4. ASSUME NEW c \in Request, Prepared(c)' PROVE Content(c)'
    <3>1. CASE c = r
      <4>1. candidate[r] \in requests /\ result'[r] = MatchResults(r, candidate[r])
        BY <1>t, <2>1, <2>4, <3>1 DEF Prepared
      <4> QED BY <4>1, <2>1, <2>2, <3>1, MatchResultsContent DEF Content, Ours
    <3>2. CASE c # r
      <4>1. Prepared(c) /\ result'[c] = result[c]
        BY <1>t, <2>1, <2>4, <3>2 DEF Prepared
      <4> QED BY <4>1, <2>1 DEF DeliveryInv, Content, Ours
    <3> QED BY <3>1, <3>2
  <2> QED BY <2>3, <2>4 DEF DeliveryInv
<1>6. ASSUME NEW r \in Request, Claim(r) PROVE DeliveryInv'
  <2>1. /\ step[r] = "claim" /\ requests' \subseteq requests
        /\ UNCHANGED <<body, candidate, result, inbox>>
    BY <1>6 DEF Claim
  <2>2. CASE candidate[r] \in requests
    <3>1. step' = [step EXCEPT ![r] = "notify"]
      BY <1>6, <2>2 DEF Claim
    <3> QED BY <1>0, <1>t, <2>1, <2>2, <3>1 DEF Prepared
  <2>3. CASE candidate[r] \notin requests
    <3>1. step' = [step EXCEPT ![r] = "announce"]
      BY <1>6, <2>3 DEF Claim
    <3> QED BY <1>0, <1>t, <2>1, <3>1 DEF Prepared
  <2> QED BY <2>2, <2>3
<1>7. ASSUME NEW r \in Request, Notify(r) PROVE DeliveryInv'
  <2>1. /\ step[r] = "notify" /\ step' = [step EXCEPT ![r] = "matched"]
        /\ inbox' = inbox \/ inbox' = [inbox EXCEPT ![candidate[r]] = result[r]]
        /\ UNCHANGED <<body, requests, candidate, result>>
    BY <1>7 DEF Notify
  <2>2. ASSUME NEW w \in Request, inbox'[w] # NoResult
        PROVE  \E c \in Request : step'[c] = "matched" /\ candidate'[c] = w
                                                       /\ inbox'[w] = result'[c]
    <3>1. CASE inbox'[w] = inbox[w]
      <4>1. PICK c \in Request : step[c] = "matched" /\ candidate[c] = w /\ inbox[w] = result[c]
        BY <2>2, <3>1 DEF DeliveryInv
      <4>2. step'[c] = "matched"
        BY <1>t, <2>1, <4>1
      <4> QED BY <2>1, <3>1, <4>1, <4>2
    <3>2. CASE inbox'[w] # inbox[w]
      <4>1. w = candidate[r] /\ inbox'[w] = result[r]
        BY <1>t, <2>1, <3>2
      <4> QED BY <1>t, <2>1, <4>1
    <3> QED BY <3>1, <3>2
  <2>3. ASSUME NEW c \in Request, Prepared(c)' PROVE Content(c)'
    <3>1. Prepared(c)
      BY <1>t, <2>1, <2>3 DEF Prepared
    <3> QED BY <2>1, <3>1 DEF DeliveryInv, Content, Ours
  <2> QED BY <2>2, <2>3 DEF DeliveryInv
<1>8. ASSUME UNCHANGED <<step, candidate, result, body, inbox>>, requests' \subseteq requests
      PROVE  DeliveryInv'
  BY <1>0, <1>8 DEF Prepared
<1>9. ASSUME NEW r \in Request,
             DropReceiver(r) \/ RemoveRequest(r) \/ CleanupReport(r)
      PROVE  DeliveryInv'
  BY <1>8, <1>9 DEF DropReceiver, RemoveRequest, CleanupReport
<1>10. CASE CleanupScan \/ CleanupRemove \/ Tick
  BY <1>8, <1>10 DEF CleanupScan, CleanupRemove, Tick
<1>11. CASE UNCHANGED queueVars
  BY <1>8, <1>11 DEF queueVars
<1> QED
  BY <1>1, <1>2, <1>3, <1>4, <1>5, <1>6, <1>7, <1>9, <1>10, <1>11 DEF QueueNext

LEMMA DeliveryIsOfClaim == DeliveryInv => DeliveryMatchesClaim
<1> SUFFICES ASSUME DeliveryInv PROVE DeliveryMatchesClaim
  OBVIOUS
<1>1. ASSUME NEW w \in Request, inbox[w] # NoResult
      PROVE  \E c \in Request : Claimed(c, w) /\ inbox[w] = result[c]
  BY <1>1 DEF DeliveryInv, Claimed
<1>2. ASSUME NEW c \in Request, NEW w \in Request, Claimed(c, w)
      PROVE  Content(c) /\ candidate[c] = w
  BY <1>2 DEF DeliveryInv, Claimed, Prepared
<1> QED BY <1>1, <1>2 DEF DeliveryMatchesClaim, Content

\* A message is the result of the one claim made on its owner, with the right
\* partner and payload, although the payload is read, the entry claimed and the
\* message sent in three sections (q_matching.rs:177-417).
THEOREM DeliveriesMatchClaims == QueueSpec => []DeliveryMatchesClaim
<1>1. QueueInit => TypeInv /\ ClaimInv /\ DeliveryInv
  BY TypeInvInit, ClaimInvInit, DeliveryInvInit
<1>2. TypeInv /\ ClaimInv /\ DeliveryInv /\ [QueueNext]_queueVars
        => (TypeInv /\ ClaimInv /\ DeliveryInv)'
  BY TypeInvStep, ClaimInvStep, DeliveryInvStep
<1> QED BY <1>1, <1>2, DeliveryIsOfClaim, PTL DEF QueueSpec

-----------------------------------------------------------------------------
(* What the sender of a channel says of its owner *)

\* The sender is in the entry as long as the entry is in the map, and with the
\* claimer until it has sent; who still listens when the claimer is done has its
\* message.
SenderInv ==
    /\ \A r \in requests : sender[r] = "map"
    /\ \A c \in Request :
          /\ step[c] \in {"claim", "notify", "matched"} => result[c] \in Pair
          /\ step[c] = "notify" => sender[candidate[c]] = "taken"
          /\ step[c] = "matched" /\ candidate[c] \in rx => inbox[candidate[c]] # NoResult

LEMMA SenderInvInit == QueueInit => SenderInv
BY DEF QueueInit, SenderInv, Idle

LEMMA SenderInvStep ==
    TypeInv /\ ClaimInv /\ SenderInv /\ [QueueNext]_queueVars => SenderInv'
<1> SUFFICES ASSUME TypeInv, ClaimInv, SenderInv, [QueueNext]_queueVars
             PROVE  SenderInv'
  OBVIOUS
<1>t. /\ step \in [Request -> Step] /\ requests \subseteq Request
      /\ candidate \in [Request -> Request \union {NoRequest}]
      /\ result \in [Request -> Pair \union {NoResult}]
      /\ sender \in [Request -> Sender] /\ inbox \in [Request -> Pair \union {NoResult}]
      /\ NoResult \notin Pair
      /\ EntriesPosted /\ BodyInv /\ CandidateInv
  BY QueueAssumption DEF TypeInv, TypeOK, ClaimInv
<1> USE DEF SenderInv, Unposted, Goto, Idle
\* Whoever is claimed has been posted, is out of the map, and is claimed once.
<1>c. ASSUME NEW c \in Request, step[c] \in {"notify", "matched"}
      PROVE  /\ candidate[c] \in Request /\ candidate[c] # c
             /\ candidate[c] \notin requests /\ step[candidate[c]] \notin Unposted
             /\ \A d \in Request : step[d] \in {"notify", "matched"} /\ candidate[d] = candidate[c]
                                   => d = c
  BY <1>c, <1>t DEF ClaimInv, ClaimedOnce, Claimed, BodyInv, CandidateInv
\* A step of r that sends nothing and claims nothing.
<1>0. ASSUME NEW r \in Request,
             \A c \in Request : c # r =>
                 step'[c] = step[c] /\ candidate'[c] = candidate[c] /\ result'[c] = result[c],
             step'[r] \in {"claim", "notify", "matched"} =>
                 /\ result'[r] \in Pair /\ candidate'[r] = candidate[r]
                 /\ step'[r] # "claim" => step'[r] = step[r],
             \A w \in requests' : w \in requests /\ sender'[w] = sender[w],
             \A w \in Request : w \notin requests /\ step[w] \notin Unposted =>
                 sender'[w] = sender[w] /\ (w \in rx' => w \in rx),
             UNCHANGED inbox
      PROVE  SenderInv'
  <2>1. ASSUME NEW c \in Request
        PROVE  /\ step'[c] \in {"claim", "notify", "matched"} => result'[c] \in Pair
               /\ step'[c] = "notify" => sender'[candidate'[c]] = "taken"
               /\ step'[c] = "matched" /\ candidate'[c] \in rx' => inbox'[candidate'[c]] # NoResult
    <3>1. step'[c] \in {"claim", "notify", "matched"} => result'[c] \in Pair
      BY <1>0
    <3>2. ASSUME step'[c] \in {"notify", "matched"}
          PROVE  /\ step[c] = step'[c] /\ candidate'[c] = candidate[c]
                 /\ sender'[candidate[c]] = sender[candidate[c]]
                 /\ candidate[c] \in rx' => candidate[c] \in rx
      <4>1. step[c] = step'[c] /\ candidate'[c] = candidate[c]
        BY <1>0, <3>2
      <4> QED BY <1>0, <1>c, <3>2, <4>1
    <3> QED BY <1>0, <3>1, <3>2
  <2>2. \A w \in requests' : sender'[w] = "map"
    BY <1>0
  <2> QED BY <2>1, <2>2
<1>1. ASSUME NEW r \in Request, NEW o \in Offer, AddRequest(r, o) PROVE SenderInv'
  <2>1. r \notin requests
    BY <1>1, <1>t DEF AddRequest, EntriesPosted
  <2> QED BY <1>0, <1>1, <1>t, <2>1 DEF AddRequest
<1>2. ASSUME NEW r \in Request, CheckCapacity(r) PROVE SenderInv'
  <2>1. r \notin requests
    BY <1>2, <1>t DEF CheckCapacity, EntriesPosted
  <2> QED BY <1>0, <1>2, <1>t, <2>1 DEF CheckCapacity
<1>3. ASSUME NEW r \in Request, Insert(r) PROVE SenderInv'
  <2>1. /\ step[r] = "insert" /\ step' = [step EXCEPT ![r] = "find"]
        /\ requests' = requests \union {r} /\ sender' = [sender EXCEPT ![r] = "map"]
        /\ UNCHANGED <<candidate, result, rx, inbox>>
    BY <1>3 DEF Insert
  <2>2. \A c \in Request : step[c] \in {"notify", "matched"} => candidate[c] # r
    BY <1>c, <2>1
  <2> QED BY <1>t, <2>1, <2>2
<1>4. ASSUME NEW r \in Request, FindMatch(r) PROVE SenderInv'
  <2>1. /\ step[r] = "find" /\ \E s \in {"announce", "exchange"} : step' = [step EXCEPT ![r] = s]
        /\ \A c \in Request : c # r => candidate'[c] = candidate[c]
        /\ UNCHANGED <<requests, result, sender, rx, inbox>>
    BY <1>4, <1>t DEF FindMatch
  <2> QED BY <1>0, <1>t, <2>1
<1>5. ASSUME NEW r \in Request, Exchange(r) PROVE SenderInv'
  <2>1. MatchResults(r, candidate[r]) \in Pair
    BY <1>5, <1>t, MatchResultsType DEF Exchange, BodyInv, EntriesPosted
  <2> QED BY <1>0, <1>5, <1>t, <2>1 DEF Exchange
<1>6. ASSUME NEW r \in Request, Claim(r) PROVE SenderInv'
  <2>m. PICK m \in Request : m = candidate[r]
    BY <1>6, <1>t DEF Claim, BodyInv
  <2>1. CASE m \in requests
    <3>1. /\ step[r] = "claim" /\ step' = [step EXCEPT ![r] = "notify"]
          /\ requests' = requests \ {m} /\ sender' = [sender EXCEPT ![m] = "taken"]
          /\ UNCHANGED <<candidate, result, rx, inbox>>
      BY <1>6, <2>m, <2>1 DEF Claim
    <3>2. \A c \in Request : step[c] \in {"notify", "matched"} => candidate[c] # m
      BY <1>c, <2>1
    <3> QED BY <1>t, <2>m, <3>1, <3>2
  <2>2. CASE m \notin requests
    BY <1>0, <1>6, <1>t, <2>m, <2>2 DEF Claim
  <2> QED BY <2>1, <2>2
<1>7. ASSUME NEW r \in Request, Notify(r) PROVE SenderInv'
  <2>m. PICK m \in Request : m = candidate[r]
    BY <1>7, <1>t DEF Notify, BodyInv
  <2>1. /\ step[r] = "notify" /\ step' = [step EXCEPT ![r] = "matched"]
        /\ sender' = [sender EXCEPT ![m] = "gone"]
        /\ m \in rx => inbox'[m] = result[r]
        /\ \A w \in Request : w # m => inbox'[w] = inbox[w]
        /\ UNCHANGED <<requests, candidate, result, rx>>
    BY <1>7, <1>t, <2>m DEF Notify
  <2>2. \A c \in Request : step[c] \in {"notify", "matched"} /\ c # r => candidate[c] # m
    BY <1>c, <2>m, <2>1
  <2>3. m \notin requests /\ result[r] \in Pair
    BY <1>c, <2>m, <2>1
  <2>4. ASSUME NEW c \in Request
        PROVE  /\ step'[c] \in {"claim", "notify", "matched"} => result[c] \in Pair
               /\ step'[c] = "notify" => sender'[candidate[c]] = "taken"
               /\ step'[c] = "matched" /\ candidate[c] \in rx => inbox'[candidate[c]] # NoResult
    <3>1. CASE c = r
      BY <1>t, <2>m, <2>1, <2>3, <3>1
    <3>2. CASE c # r
      <4>1. step'[c] = step[c]
        BY <2>1, <3>2, <1>t
      <4>2. step[c] \in {"notify", "matched"} => candidate[c] \in Request /\ candidate[c] # m
        BY <1>c, <2>2, <3>2
      <4> QED BY <1>t, <2>1, <4>1, <4>2
    <3> QED BY <3>1, <3>2
  <2>5. \A w \in requests : sender'[w] = "map"
    BY <1>t, <2>1, <2>3
  <2> QED BY <2>1, <2>4, <2>5
<1>8. ASSUME NEW r \in Request, Announce(r) PROVE SenderInv'
  BY <1>0, <1>8, <1>t DEF Announce
<1>9. ASSUME NEW r \in Request, DropReceiver(r) \/ CleanupReport(r) PROVE SenderInv'
  BY <1>9 DEF DropReceiver, CleanupReport
<1>10. ASSUME NEW r \in Request, RemoveRequest(r) PROVE SenderInv'
  <2>1. \A c \in Request : step[c] \in {"notify", "matched"} => candidate[c] # r
    BY <1>c, <1>10 DEF RemoveRequest
  <2> QED BY <1>10, <1>t, <2>1 DEF RemoveRequest
<1>11. CASE CleanupScan \/ Tick
  BY <1>11 DEF CleanupScan, Tick
<1>12. CASE CleanupRemove
  <2>1. /\ requests' = requests \ sweep.ids
        /\ \A w \in Request : w \notin sweep.ids \intersect requests => sender'[w] = sender[w]
        /\ UNCHANGED <<step, candidate, result, rx, inbox>>
    BY <1>12 DEF CleanupRemove
  <2> QED BY <1>c, <1>t, <2>1
<1>13. CASE UNCHANGED queueVars
  BY <1>13 DEF queueVars
<1> QED
  BY <1>1, <1>2, <1>3, <1>4, <1>5, <1>6, <1>7, <1>8, <1>9, <1>10, <1>11, <1>12, <1>13
  DEF QueueNext

\* Once a call has returned and its caller listens no more, nothing happens to
\* the call, its message or its body, and a request that is out of the map is
\* claimed by nobody any more.
LEMMA ReturnedIsSettled ==
    ASSUME TypeInv, ClaimInv, [QueueNext]_queueVars,
           NEW r \in Request, step[r] \in Returned, r \notin rx
    PROVE  /\ step'[r] = step[r] /\ result'[r] = result[r] /\ candidate'[r] = candidate[r]
           /\ body'[r] = body[r] /\ inbox'[r] = inbox[r]
           /\ r \notin requests => /\ r \notin requests'
                                   /\ \A c \in Request : Claimed(c, r)' => Claimed(c, r)
<1>t. /\ step \in [Request -> Step] /\ requests \subseteq Request
      /\ candidate \in [Request -> Request \union {NoRequest}]
      /\ result \in [Request -> Pair \union {NoResult}]
      /\ inbox \in [Request -> Pair \union {NoResult}]
      /\ body \in [Request -> QueuedRequest \union {NoBody}]
  BY DEF TypeInv, TypeOK
<1> DEFINE Same == /\ step'[r] = step[r] /\ result'[r] = result[r] /\ candidate'[r] = candidate[r]
                   /\ body'[r] = body[r] /\ inbox'[r] = inbox[r]
           Out == r \notin requests => /\ r \notin requests'
                                       /\ \A c \in Request : Claimed(c, r)' => Claimed(c, r)
<1> USE DEF Goto, Idle, Returned
<1>1. ASSUME NEW q \in Request, NEW o \in Offer, AddRequest(q, o) PROVE Same /\ Out
  BY <1>1, <1>t DEF AddRequest, Claimed
<1>2. ASSUME NEW q \in Request, CheckCapacity(q) \/ Insert(q) \/ Exchange(q) \/ Announce(q)
      PROVE  Same /\ Out
  BY <1>2, <1>t DEF CheckCapacity, Insert, Exchange, Announce, Claimed
<1>3. ASSUME NEW q \in Request, FindMatch(q) PROVE Same /\ Out
  <2>1. /\ step[q] = "find" /\ \E s \in {"announce", "exchange"} : step' = [step EXCEPT ![q] = s]
        /\ \A c \in Request : c # q => candidate'[c] = candidate[c]
        /\ UNCHANGED <<body, requests, result, inbox>>
    BY <1>3, <1>t DEF FindMatch
  <2> QED BY <1>t, <2>1 DEF Claimed
<1>4. ASSUME NEW q \in Request, Claim(q) PROVE Same /\ Out
  BY <1>4, <1>t DEF Claim, Claimed
<1>5. ASSUME NEW q \in Request, Notify(q) PROVE Same /\ Out
  BY <1>5, <1>t DEF Notify, Claimed
<1>6. ASSUME NEW q \in Request,
             DropReceiver(q) \/ RemoveRequest(q) \/ CleanupReport(q)
      PROVE  Same /\ Out
  BY <1>6 DEF DropReceiver, RemoveRequest, CleanupReport, Claimed
<1>7. CASE CleanupScan \/ CleanupRemove \/ Tick
  BY <1>7 DEF CleanupScan, CleanupRemove, Tick, Claimed
<1>8. CASE UNCHANGED queueVars
  BY <1>8 DEF queueVars, Claimed
<1> QED BY <1>1, <1>2, <1>3, <1>4, <1>5, <1>6, <1>7, <1>8 DEF QueueNext

-----------------------------------------------------------------------------
(* Events *)

\* Emitting an event raises one count of the requests concerned.
LEMMA EmittedCount ==
    ASSUME NEW log \in [Request -> [EventKind -> Nat]], NEW kind \in EventKind, NEW S,
           NEW r \in Request, NEW k \in EventKind
    PROVE  Emitted(log, kind, S)[r][k] = IF r \in S /\ k = kind THEN log[r][k] + 1 ELSE log[r][k]
BY DEF Emitted

\* A claim reports the two requests Matched and Removed, and nothing else
\* (q_matching.rs:344-352).
LEMMA ClaimEvents ==
    ASSUME NEW log \in [Request -> [EventKind -> Nat]], NEW S, NEW w \in Request
    PROVE  LET sent == Emitted(Emitted(log, "Matched", S), "Removed", S)
           IN  /\ sent[w]["Expired"] = log[w]["Expired"]
               /\ sent[w]["Matched"] = IF w \in S THEN log[w]["Matched"] + 1 ELSE log[w]["Matched"]
BY DEF Emitted, EventKind

\* An entry reported as expired is out of the map for good and past its time; the
\* ids a sweep holds are of such entries, or about to be, and none of them has
\* been reported yet.
SweepInv ==
    /\ \A r \in Request :
          /\ events[r]["Expired"] <= 1
          /\ events[r]["Expired"] = 1 =>
                r \notin requests /\ step[r] \notin Unposted /\ body[r].expires <= now
    /\ sweep.stage # "idle" => \A r \in sweep.ids :
          events[r]["Expired"] = 0 /\ step[r] \notin Unposted /\ body[r].expires <= now
    /\ sweep.stage = "report" => sweep.ids \intersect requests = {}

LEMMA SweepInvInit == QueueInit => SweepInv
BY DEF QueueInit, SweepInv, EventKind

LEMMA SweepInvStep == TypeInv /\ SweepInv /\ [QueueNext]_queueVars => SweepInv'
<1> SUFFICES ASSUME TypeInv, SweepInv, [QueueNext]_queueVars PROVE SweepInv'
  OBVIOUS
<1>t. /\ step \in [Request -> Step] /\ requests \subseteq Request /\ now \in Nat
      /\ body \in [Request -> QueuedRequest \union {NoBody}]
      /\ events \in [Request -> [EventKind -> Nat]]
      /\ sweep \in [stage : {"idle", "remove", "report"}, ids : SUBSET Request]
      /\ sweep.ids \subseteq Request
      /\ EntriesPosted /\ BodyInv
  BY DEF TypeInv, TypeOK
<1> USE DEF SweepInv, Unposted, Goto, Idle
\* Steps that report no expiry, sweep nothing and insert nothing: a posted
\* request stays posted with its body, and time goes on.
<1>0. ASSUME UNCHANGED sweep, requests' \subseteq requests, now' \in Nat, now' >= now,
             \A r \in Request : events'[r]["Expired"] = events[r]["Expired"],
             \A r \in Request : step[r] \notin Unposted =>
                 step'[r] \notin Unposted /\ body'[r] = body[r]
      PROVE  SweepInv'
  <2>1. ASSUME NEW r \in Request, step[r] \notin Unposted, body[r].expires <= now
        PROVE  body'[r].expires <= now'
    <3>1. body[r].expires \in Nat
      BY <2>1, <1>t DEF BodyInv, QueuedRequest
    <3> QED BY <2>1, <3>1, <1>0, <1>t
  <2> QED BY <1>0, <1>t, <2>1
<1>1. ASSUME NEW r \in Request, NEW o \in Offer, AddRequest(r, o) PROVE SweepInv'
  <2>1. /\ step[r] = "idle" /\ step' = [step EXCEPT ![r] = "check"]
        /\ \A w \in Request : w # r => body'[w] = body[w]
        /\ UNCHANGED <<now, requests, events, sweep>>
    BY <1>1, <1>t DEF AddRequest
  <2> QED BY <2>1, <1>0, <1>t
<1>2. ASSUME NEW r \in Request, CheckCapacity(r) PROVE SweepInv'
  BY <1>0, <1>2, <1>t DEF CheckCapacity
\* What is inserted has neither been reported nor is it in a sweep.
<1>3. ASSUME NEW r \in Request, Insert(r) PROVE SweepInv'
  <2>1. /\ step[r] = "insert" /\ step' = [step EXCEPT ![r] = "find"]
        /\ requests' = requests \union {r}
        /\ UNCHANGED <<now, body, events, sweep>>
    BY <1>3 DEF Insert
  <2>2. events[r]["Expired"] # 1 /\ (sweep.stage # "idle" => r \notin sweep.ids)
    BY <2>1
  <2>3. \A w \in Request : step[w] \notin Unposted => step'[w] \notin Unposted
    BY <2>1, <1>t
  <2>4. \A w \in Request : events[w]["Expired"] = 1 => w # r /\ w \notin requests'
    BY <2>1, <2>2
  <2>5. sweep.stage = "report" => sweep.ids \intersect requests' = {}
    BY <2>1, <2>2
  <2> QED BY <2>1, <2>3, <2>4, <2>5, <1>t
<1>4. ASSUME NEW r \in Request, FindMatch(r) PROVE SweepInv'
  BY <1>0, <1>4, <1>t DEF FindMatch
<1>5. ASSUME NEW r \in Request, Exchange(r) \/ Notify(r) \/ DropReceiver(r)
      PROVE  SweepInv'
  BY <1>0, <1>5, <1>t DEF Exchange, Notify, DropReceiver
<1>6. ASSUME NEW r \in Request, Claim(r) PROVE SweepInv'
  <2>1. \A w \in Request : events'[w]["Expired"] = events[w]["Expired"]
    BY <1>6, <1>t, ClaimEvents DEF Claim
  <2>2. /\ requests' \subseteq requests /\ UNCHANGED <<now, body, sweep>>
        /\ step[r] = "claim" /\ \E s \in {"notify", "announce"} : step' = [step EXCEPT ![r] = s]
    BY <1>6 DEF Claim
  <2> QED BY <1>0, <1>t, <2>1, <2>2
<1>7. ASSUME NEW r \in Request, Announce(r) \/ RemoveRequest(r) PROVE SweepInv'
  <2>1. \A w \in Request : events'[w]["Expired"] = events[w]["Expired"]
    BY <1>7, <1>t, EmittedCount DEF Announce, RemoveRequest, EventKind
  <2> QED BY <1>0, <1>7, <1>t, <2>1 DEF Announce, RemoveRequest
<1>8. ASSUME NEW r \in Request, CleanupReport(r) PROVE SweepInv'
  <2>1. /\ sweep.stage = "report" /\ r \in sweep.ids
        /\ UNCHANGED <<now, body, requests, step>>
        /\ sweep'.stage \in {"idle", "report"} /\ sweep'.ids \subseteq sweep.ids \ {r}
    BY <1>8, <1>t DEF CleanupReport
  <2>2. events'[r]["Expired"] = 1
        /\ \A w \in Request : w # r => events'[w]["Expired"] = events[w]["Expired"]
    BY <1>8, <1>t, <2>1, EmittedCount DEF CleanupReport, EventKind
  <2>3. r \notin requests /\ step[r] \notin Unposted /\ body[r].expires <= now
    BY <2>1, <1>t
  <2>4. \A w \in sweep'.ids : w # r /\ w \in sweep.ids /\ w \in Request
    BY <2>1, <1>t
  <2>5. \A w \in sweep'.ids : events'[w]["Expired"] = 0 /\ step[w] \notin Unposted
                                                       /\ body[w].expires <= now
    BY <2>1, <2>2, <2>4
  <2>6. sweep'.ids \intersect requests = {}
    BY <2>1, <2>4
  <2> QED BY <2>1, <2>2, <2>3, <2>5, <2>6
<1>9. CASE CleanupScan
  <2>1. /\ UNCHANGED <<now, body, requests, step, events>>
        /\ sweep' = [stage |-> "remove", ids |-> Expired]
    BY <1>9 DEF CleanupScan
  <2>2. \A w \in Expired : /\ step[w] \notin Unposted /\ body[w].expires <= now
                           /\ events[w]["Expired"] = 0
    <3> SUFFICES ASSUME NEW w \in Expired
                 PROVE  /\ step[w] \notin Unposted /\ body[w].expires <= now
                        /\ events[w]["Expired"] = 0
      OBVIOUS
    <3>1. w \in requests /\ w \in Request /\ body[w].expires <= now
      BY <1>t DEF Expired
    <3>2. events[w]["Expired"] \in Nat
      BY <1>t, <3>1 DEF EventKind
    <3>3. events[w]["Expired"] <= 1 /\ events[w]["Expired"] # 1
      BY <3>1
    <3>4. step[w] \notin Unposted
      BY <1>t, <3>1 DEF EntriesPosted
    <3> QED BY <3>1, <3>2, <3>3, <3>4
  <2> QED BY <2>1, <2>2
<1>10. CASE CleanupRemove
  <2>1. /\ UNCHANGED <<now, body, step, events>> /\ requests' = requests \ sweep.ids
        /\ sweep.stage = "remove" /\ sweep'.stage = "report" /\ sweep'.ids = sweep.ids
    BY <1>10, <1>t DEF CleanupRemove
  <2> QED BY <1>t, <2>1
<1>11. CASE Tick
  BY <1>0, <1>11, <1>t DEF Tick
<1>12. CASE UNCHANGED queueVars
  BY <1>0, <1>12, <1>t DEF queueVars
<1> QED
  BY <1>1, <1>2, <1>3, <1>4, <1>5, <1>6, <1>7, <1>8, <1>9, <1>10, <1>11, <1>12 DEF QueueNext

\* The claims r has made, and those it has suffered.
Made(r) == {p \in Request \X Request : Claimed(p[1], p[2]) /\ r = p[1]}
Suffered(r) == {p \in Request \X Request : Claimed(p[1], p[2]) /\ r = p[2]}

MatchedInv ==
    \A r \in Request :
        events[r]["Matched"] = Cardinality(Made(r)) + Cardinality(Suffered(r))

LEMMA MatchedInvInit == QueueInit => MatchedInv
<1> SUFFICES ASSUME QueueInit, NEW r \in Request
             PROVE  events[r]["Matched"] = Cardinality(Made(r)) + Cardinality(Suffered(r))
  BY DEF MatchedInv
<1>1. Made(r) = {} /\ Suffered(r) = {}
  BY DEF QueueInit, Made, Suffered, Claimed, Idle
<1>2. events[r]["Matched"] = 0
  BY DEF QueueInit, EventKind
<1> QED BY <1>1, <1>2, FS_EmptySet

LEMMA ClaimsFinite ==
    ASSUME NEW r \in Request
    PROVE  /\ IsFiniteSet(Made(r)) /\ Cardinality(Made(r)) \in Nat
           /\ IsFiniteSet(Suffered(r)) /\ Cardinality(Suffered(r)) \in Nat
<1>1. IsFiniteSet(Request \X Request)
  BY QueueAssumption, FS_Product
<1>2. Made(r) \subseteq Request \X Request /\ Suffered(r) \subseteq Request \X Request
  BY DEF Made, Suffered
<1>3. IsFiniteSet(Made(r)) /\ IsFiniteSet(Suffered(r))
  BY <1>1, <1>2, FS_Subset
<1> QED BY <1>3, FS_CardinalityType

LEMMA MatchedInvStep ==
    TypeInv /\ ClaimInv /\ MatchedInv /\ [QueueNext]_queueVars => MatchedInv'
<1> SUFFICES ASSUME TypeInv, ClaimInv, MatchedInv, [QueueNext]_queueVars
             PROVE  MatchedInv'
  OBVIOUS
<1>t. /\ step \in [Request -> Step] /\ requests \subseteq Request
      /\ candidate \in [Request -> Request \union {NoRequest}]
      /\ events \in [Request -> [EventKind -> Nat]]
      /\ NoRequest \notin Request
      /\ BodyInv /\ CandidateInv /\ ClaimedOnce
  BY QueueAssumption DEF TypeInv, TypeOK, ClaimInv
<1> USE DEF Goto, Idle
\* Steps that neither make a claim nor report one.
<1>0. ASSUME \A w \in Request : events'[w]["Matched"] = events[w]["Matched"],
             \A c, w \in Request : Claimed(c, w)' <=> Claimed(c, w)
      PROVE  MatchedInv'
  <2>1. ASSUME NEW w \in Request PROVE Made(w)' = Made(w) /\ Suffered(w)' = Suffered(w)
    BY <1>0 DEF Made, Suffered
  <2> QED BY <1>0, <2>1 DEF MatchedInv
<1>1. ASSUME NEW r \in Request, NEW o \in Offer, AddRequest(r, o) PROVE MatchedInv'
  BY <1>0, <1>1, <1>t DEF AddRequest, Claimed
<1>2. ASSUME NEW r \in Request, CheckCapacity(r) \/ Insert(r) \/ Exchange(r) \/ Notify(r)
      PROVE  MatchedInv'
  BY <1>0, <1>2, <1>t DEF CheckCapacity, Insert, Exchange, Notify, Claimed
<1>3. ASSUME NEW r \in Request, FindMatch(r) PROVE MatchedInv'
  <2>1. /\ step[r] = "find" /\ \E s \in {"announce", "exchange"} : step' = [step EXCEPT ![r] = s]
        /\ \A c \in Request : c # r => candidate'[c] = candidate[c]
        /\ UNCHANGED events
    BY <1>3, <1>t DEF FindMatch
  <2> QED BY <1>0, <1>t, <2>1 DEF Claimed
<1>4. ASSUME NEW r \in Request, Claim(r) PROVE MatchedInv'
  <2>1. step[r] = "claim" /\ UNCHANGED candidate
    BY <1>4 DEF Claim
  <2>m. PICK m \in Request : m = candidate[r] /\ m # r
    BY <2>1, <1>t DEF BodyInv, CandidateInv
  <2>2. CASE m \in requests
    <3>1. /\ step' = [step EXCEPT ![r] = "notify"]
          /\ \A w \in Request : events'[w]["Matched"] =
                IF w \in {r, m} THEN events[w]["Matched"] + 1 ELSE events[w]["Matched"]
      BY <1>4, <2>2, <2>m, <1>t, ClaimEvents DEF Claim
    <3>2. \A c, w \in Request : Claimed(c, w)' <=> (Claimed(c, w) \/ (c = r /\ w = m))
      BY <2>1, <2>m, <3>1, <1>t DEF Claimed
    <3>3. \A w \in Request : ~Claimed(r, w)
      BY <2>1 DEF Claimed
    <3>4. <<r, m>> \notin Made(r) /\ <<r, m>> \notin Suffered(m)
      BY <3>3 DEF Made, Suffered
    <3>5. Made(r)' = Made(r) \union {<<r, m>>}
          /\ \A w \in Request : w # r => Made(w)' = Made(w)
      BY <2>m, <3>2 DEF Made
    <3>6. Suffered(m)' = Suffered(m) \union {<<r, m>>}
          /\ \A w \in Request : w # m => Suffered(w)' = Suffered(w)
      BY <2>m, <3>2 DEF Suffered
    <3>7. Cardinality(Made(r)') = Cardinality(Made(r)) + 1
      BY <3>4, <3>5, ClaimsFinite, FS_AddElement
    <3>8. Cardinality(Suffered(m)') = Cardinality(Suffered(m)) + 1
      BY <3>4, <3>6, ClaimsFinite, FS_AddElement
    <3> SUFFICES ASSUME NEW w \in Request
                 PROVE  events'[w]["Matched"] = Cardinality(Made(w)') + Cardinality(Suffered(w)')
      BY DEF MatchedInv
    <3>9. /\ events[w]["Matched"] = Cardinality(Made(w)) + Cardinality(Suffered(w))
          /\ Cardinality(Made(w)) \in Nat /\ Cardinality(Suffered(w)) \in Nat
      BY ClaimsFinite DEF MatchedInv
    <3>10. CASE w = r
      BY <2>m, <3>1, <3>6, <3>7, <3>9, <3>10
    <3>11. CASE w = m
      BY <2>m, <3>1, <3>5, <3>8, <3>9, <3>11
    <3>12. CASE w \notin {r, m}
      BY <3>1, <3>5, <3>6, <3>9, <3>12
    <3> QED BY <3>10, <3>11, <3>12
  <2>3. CASE m \notin requests
    <3>1. step' = [step EXCEPT ![r] = "announce"] /\ UNCHANGED events
      BY <1>4, <2>3, <2>m DEF Claim
    <3> QED BY <1>0, <1>t, <2>1, <3>1 DEF Claimed
  <2> QED BY <2>2, <2>3
<1>5. ASSUME NEW r \in Request, Announce(r) PROVE MatchedInv'
  <2>1. \A w \in Request : events'[w]["Matched"] = events[w]["Matched"]
    BY <1>5, <1>t, EmittedCount DEF Announce, EventKind
  <2> QED BY <1>0, <1>5, <1>t, <2>1 DEF Announce, Claimed
<1>6. ASSUME NEW r \in Request, RemoveRequest(r) \/ CleanupReport(r) PROVE MatchedInv'
  <2>1. \A w \in Request : events'[w]["Matched"] = events[w]["Matched"]
    BY <1>6, <1>t, EmittedCount DEF RemoveRequest, CleanupReport, EventKind
  <2> QED BY <1>0, <1>6, <2>1 DEF RemoveRequest, CleanupReport, Claimed
<1>7. ASSUME NEW r \in Request, DropReceiver(r) PROVE MatchedInv'
  BY <1>0, <1>7 DEF DropReceiver, Claimed
<1>8. CASE CleanupScan \/ CleanupRemove \/ Tick
  BY <1>0, <1>8 DEF CleanupScan, CleanupRemove, Tick, Claimed
<1>9. CASE UNCHANGED queueVars
  BY <1>0, <1>9 DEF queueVars, Claimed
<1> QED
  BY <1>1, <1>2, <1>3, <1>4, <1>5, <1>6, <1>7, <1>8, <1>9 DEF QueueNext

\* Subscribers are told the truth: at most one Expired of an entry, and of one
\* that is past its time and gone for good; a Matched for every claim an entry
\* made or suffered, and no other (q_impl.rs:148-179, q_matching.rs:344-352).
THEOREM EventsAreTrue == QueueSpec => []EventsAreAccurate
<1>1. QueueInit => TypeInv /\ ClaimInv /\ SweepInv /\ MatchedInv
  BY TypeInvInit, ClaimInvInit, SweepInvInit, MatchedInvInit
<1>2. TypeInv /\ ClaimInv /\ SweepInv /\ MatchedInv /\ [QueueNext]_queueVars
        => (TypeInv /\ ClaimInv /\ SweepInv /\ MatchedInv)'
  BY TypeInvStep, ClaimInvStep, SweepInvStep, MatchedInvStep
<1>3. SweepInv /\ MatchedInv => EventsAreAccurate
  BY DEF SweepInv, MatchedInv, Made, Suffered, EventsAreAccurate
<1> QED BY <1>1, <1>2, <1>3, PTL DEF QueueSpec

=============================================================================
