# A verification project for Bump

Bump is an HTTP service that pairs two devices which "bump" into each other: two
requests that arrive at about the same time, from about the same place or with the
same custom key, are matched and each is told of the other. The service keeps its
requests in memory; nothing is persisted. Paths below are relative to the crate's
`src/` unless they start with `docs/` or `tests/`; in the comments of the modules
file names stand for those files.

## 1. The system

| part | state | operations | interacts with |
|---|---|---|---|
| match scoring (`queue/matching.rs`) | none | `calculate_match_score` | called by the search |
| candidate search (`queue/q_matching.rs`) | none of its own; reads the map under the read lock | `find_matching_request` | scoring, the map |
| unified queue (`queue/q_core.rs`, `q_impl.rs`, `q_matching.rs`, `types.rs`) | a `HashMap` of `QueuedRequest` behind a `RwLock`; in each entry the sending end of a response channel; a broadcast channel of events | `add_request` (with `atomic_match`), `remove_request`, `cleanup_expired`, `size`, `subscribe`, the deprecated and unused `wait_for_match` | called by the service; sends matches on channels, events to subscribers |
| matching service (`service.rs`) | the queue; two counters; per handler a receiver and a timer | `process_send`, `process_receive`, `process_bump`, the cleanup task, the metrics task, `get_health_status` | the queue, timers, the HTTP layer |
| HTTP API (`api.rs`, `models.rs`, `error.rs`) | none | `send`, `receive`, `bump`, `health`, `root_health`, `timestamp` | one shared service |
| server (`main.rs`) | worker threads | start-up | everything |
| configuration (`config.rs`) | none | `from_env`, `from_env_or_default`, `validate` | environment |

**How they interact.** A handler runs on one worker thread and does not leave it. It
makes an id and a channel and calls `add_request`, which has no await inside: capacity
test (read lock), insertion (write lock), search (read lock), preparation of the two
results (read lock for a Bump), claim (write lock), message (no lock). Each lock is
released before the next is taken, and handlers on other workers, the cleanup task and
timers run in between. If the call finds no match the handler waits for its channel or
its timer, the only point where it gives its worker up, and where it is dropped if
the client goes away.

**What is hard.** Interleavings of the critical sections of several calls; a candidate
that is gone when it is claimed; a message that comes before, while, or after its
receiver gives up; a sweep that closes a channel somebody waits on; entries nobody waits
for any more; the capacity at its limit; the boundaries of the scoring rule; a wall clock
that is set while monotonic timers run; events lost to a slow subscriber; a health report
read piece by piece; a configuration that is dropped as a whole. The list, each at its
line, is `hazards` in `PROJECT.json`.

**What makes each part correct.**

- scoring: one verdict and one score whichever request searches; a key conflict overrides
  everything; the thresholds documented are those applied.
- search: a best admissible entry in every order of iteration.
- queue: an entry is claimed once; bounded overshoot of the capacity; no live partners
  are missed; the message in a channel is the one of the claim, with the right payload;
  no listener is left without an outcome; events are counted right.
- service: answers of the two sides agree; payloads go where they belong; "no match" is
  final; every call ends; the map drains; all this together is an abstract rendezvous.
- metrics: the counters miss no event but those overwritten in the channel and settle;
  a health report shows nothing that has not happened.
- configuration: what the server starts with is usable; a proper environment is honoured.

## 2. The modules

| module | what it models |
|---|---|
| `MatchScore` | scoring and the filters of the search, as operators on two requests |
| `CandidateSearch` | one walk of the search over the map, entry by entry, in any order |
| `UnifiedQueue` | the queue; one action per critical section |
| `ClaimBoard` | abstract: what the queue promises about matching |
| `QueueRefinement` | the mapping from `UnifiedQueue` to `ClaimBoard` |
| `MatchingService` | handlers, workers, timers, clients and the cleanup task on top of the queue |
| `Rendezvous` | abstract: what the service promises its clients |
| `ServiceRefinement` | the mapping from `MatchingService` to `Rendezvous` |
| `SteppedClock` | `MatchingService` with a wall clock that is set while timers run |
| `EventBus` | the bounded broadcast channel of events and its one subscriber |
| `ServiceMetrics` | the queue, the event bus, the metrics task and health checks |
| `MatchingConfig` | from the environment to a configuration, stage by stage |
| `MatchScoreProofs`, `CandidateSearchProofs` | theorems about the rule and the search |
| `UnifiedQueueProofs`, `QueueDeliveryProofs`, `QueueRefinementProofs` | theorems about the queue: claims and capacity; channels and events; the claim board |
| `MatchingServiceProofs` | theorems about the service, with and without a clock that is set, and the rendezvous |
| `ServiceMetricsProofs`, `MatchingConfigProofs` | theorems about the counters and the configuration |
| `MCCandidateSearch`, `MCUnifiedQueue`, `MCQueueRefinement`, `MCMatchingService`, `MCServiceRefinement`, `MCSteppedClock`, `MCServiceMetrics`, `MCMatchingConfig` | small instances; each `.cfg` is one run |

`UnifiedQueue` EXTENDS `MatchScore`; `QueueRefinement`, `MatchingService` and
`ServiceMetrics` EXTEND `UnifiedQueue`; `ServiceRefinement` and `SteppedClock` EXTEND
`MatchingService`; `ClaimBoard`, `Rendezvous` and `EventBus` are instantiated by
`QueueRefinement`, `ServiceRefinement` and `ServiceMetrics`. `MatchingConfig` stands
alone: what it guarantees of a configuration is what the assumptions of `MatchScore` and
`UnifiedQueue` ask for.

### State and code

- `UnifiedQueue!requests` is the key set of the map; `body[r]` the immutable part of the
  `QueuedRequest`; `sender[r]` says who owns the sending end of the response channel
  (`call`: the argument of a running `add_request`, `map`: the entry, `taken`: the
  claimer, `gone`: dropped or used); `rx` the receivers that exist; `inbox[r]` the message
  in the channel. Oneshot and broadcast channels behave alike here: one message is
  sent at most, and a message sent before the sender is dropped is still received.
- `step[r]` is the program counter of the `add_request` call of `r`; `candidate[r]` and
  `result[r]` its local variables. Ids are UUIDs, one call each.
- `events[r]` counts the broadcasts about `r` by kind; `sweep` is the stage and the ids of
  a running `cleanup_expired`. A sweep that finds nothing is a stutter.
- `AddRequest`, `CheckCapacity`, `Insert`, `FindMatch`, `Exchange`, `Claim`, `Notify`,
  `Announce` are the sections of `add_request` in order. Its first, unused search
  (`q_impl.rs:33`) and the debugging reads have no effect and are not modelled.
- `MatchingService!handler[r]` is the handler's state, `worker[r]` its thread,
  `deadline[r]` the end of its `timeout`, `answer[r]` its response. `process_send`,
  `process_receive` and `process_bump` differ in the type and payload they enqueue, which
  `Offer` gives, and in the payload they show, which `Matched` gives.
- `ServiceMetrics!channel` holds the kinds of the events in the ring that the metrics task
  has not read, `lagged` that it was overtaken and has not been told, `lost` what it will
  never read. `Claim` is the one place where several events are sent in one critical
  section, without which the others can send in between; `sending` is what that section
  has still to send, and while it is not empty nobody else takes the lock (`LockFree`).
  `health` is a health check under way. The channel is asked for 100 slots and has 128 (tokio rounds
  up); the instance has 2, so that the task is overtaken all the time.
- `SteppedClock!SetClock` sets `now` and moves the deadline of every running timer with
  it: what a monotonic timer has left does not change.
- `MatchingConfig!stage` is the next thing `from_env_or_default` does; `env` is the
  environment and `config` what has become of it so far.
- A poll of `timeout(ttl, rx)` looks at the channel before the timer; so `TimeoutFires`
  needs an empty channel with a live sender.

### Abstractions

- Time is a natural number of ticks, and one clock stands for the wall clock (expiry,
  timestamps) and the monotonic one (timers), except in `SteppedClock`. What needs the
  one clock, and does not hold when it is set: `PartnersOverlap` (a call comes, the
  clock is set back, and the call finds an entry that had expired), the waiting time in
  `FailuresAreFinal`, and `NoMissedMatch`, `ListenerHasOutcome` and `EventsAreAccurate` where
  they speak of an entry that has expired, which may then live again.
- Numbers of the configuration are small integers, weights tenths, and NaN a value of
  which every comparison is false. Text is well formed or not.
- Places are names and `Distance` any symmetric function of two places; quotients are
  truncated exactly where the code truncates a floating-point quotient.
- `state` and `reserved_by` of an entry are left out: in the map they are always Active
  and None. Timestamps of results, log lines and messages are left out. So is
  which field of an answer holds one's own id: an answer names the partner.
- In the queue on its own, callers are the environment: they drop a receiver after
  `add_request` has returned and remove a request only when it found no match and they
  listen no more. `CallsAreAllowed` checks that the service is such a caller.
- The operators whose comment begins with *Variant* are mutations of the definition that
  follows them; no specification uses them. They serve to test the properties.

## 3. What is checked

Parameters of the instances: production values of the scores (threshold 100, bonus 200);
in the search, the production window of 1500 with requests at its edge and beyond; in the
queue and the service a window of one tick.

| run | instance | shows |
|---|---|---|
| `search` | 2 entries, 1 query, every mix of type, key, place and age that decides a threshold | `KeepsBest`, `KeysNeverConflict`, `ChoiceIsMutual` |
| `queue_send_receive` | 3 requests, 2 callers, capacity 1, 2 ticks | `TypeOK`, `Overshoot`, `NoMissedMatch`, `DeliveryMatchesClaim`, `ListenerHasOutcome`, `EventsAreAccurate`, `PartnersOverlap` |
| `queue_bumps` | 3 Bumps that suit each other, 2 callers, capacity 3, 1 tick | the same without `TypeOK` and `Overshoot`; `ClaimedOnce`, `ImplementsClaimBoard` |
| `service_send_receive` | 3 clients, 2 workers, capacity 2; requests refused for want of key and place, and for an impossible place | `WaiterAnswersAreMutual`, `PayloadsBelong`, `FailuresAreFinal`, `ImplementsRendezvous` |
| `service_bumps` | 3 Bumps, different payloads, 2 workers, capacity 2 | `ServiceTypeOK`, `CallsAreAllowed`, and as `service_send_receive` without the last |
| `service_liveness` | 3 Bumps at one place, two keys, fair; 2 of them with a clock set by one tick, forward or back | `MatchedAnswersSuit`, `FailuresStayOut`, `EveryCallEnds`, `QueueDrains`, also when a search loses its candidate |
| `metrics` | 2 Bumps that suit each other, 2 callers, 2 slots in the event channel, 1 tick | `CountersAccount`, `ReportsArePossible`, `CountersSettle` |
| `config` | 121,500 environments over 8 variables | `StartsUsable`, `ProperIsHonoured`, `AllOrNothing` |

**Why the bounds are enough to be interesting.** Three requests with two callers give
every pairwise race and a third that can come between two critical sections: two
searches that return one entry, a claimer that is itself claimed, a candidate lost while a
third one waits. With capacity 1 and 3 requests the queue is full, overshoots by the one
caller that `Overshoot` allows, and could overshoot by more. One tick of life and
two ticks of clock let requests expire while they are searched, claimed, waited for and
swept. Each of these is a run's counterexample in section 5 or the mutation of a
property. Requests and workers are interchangeable, so the safety runs use symmetry;
the liveness run does not; in it clients submit at one
instant, in any order and overlap, and two ticks of time remain for timers and sweeps, one
of which a clock set forward may skip. The clock is set once, in behaviours of at most
`SteppedCalls` calls: a timer, an entry and a rival are what a step of the clock can set
against each other. Two Bumps that match emit four events under one lock, eight when each
claims the other, more than a channel of two slots holds, and their senders overlap with
each other, with the sweep and with the reader. In the configuration every
variable takes a usable value, and zero or a value beyond its boundary. Missing, malformed
and NaN are spread over the variables: not each variable takes each of them, since `Parse`
and `Validates` treat the variables of a kind alike. The theorems of section 4 have no
such limit. `Horizon` bounds the clock; `LastSubmit` bounds the time of
submission, so that every deadline lies within `Horizon` and no liveness property holds
or fails because the clock stopped. The behaviours are finite by these bounds, so the
instances stop and deadlock is not checked; that no handler is stuck is `EveryCallEnds`.

**Fairness.** `ServiceFairness` assumes weak fairness of each handler's next step (worker
threads are scheduled, locks are held briefly and only inside one action, a woken task
is polled), of the cleanup task (its interval keeps ticking) and of time. Weak fairness
suffices because a handler's step is never disabled for good by another: a worker is
occupied only by handlers that themselves go on. Nothing is assumed of clients, nor of
whoever sets the clock. `MetricsFairness` assumes it of the metrics task (a spawned task
with something to read is polled) and of a thread that holds the lock and has events to
send (sends do not wait); it does not assume that calls, sweeps or health checks go on.
The liveness properties have the form `<>[]P`: submissions end at `LastSubmit`, and what
P describes is then reached for good.

## 4. What is proved

Every invariant that a passing run checks, and both refinements, are theorems. They
hold for every set of requests, offers and workers, every capacity, horizon, buffer and
configuration of scores that satisfies the named assumptions:

- `ScoreAssumption`, `SearchAssumption`: a positive window (which `validate` guarantees,
  see `AlwaysUsable`), a positive radius (which it guarantees unless it is NaN, see section
  5), a symmetric distance;
- `QueueAssumption`: finitely many requests, distinct "none" values, a positive capacity and
  number of callers;
- `ServiceAssumption`: as many callers as workers, deadlines within the horizon (a bound of
  the instances, not of the code), offers with the payloads the endpoints' JSON allows;
- `JumpAssumption`, `BufferAssumption`: a clock set by whole ticks; a ring with a slot;
- `ConfigAssumption`: settings are integers, unset, malformed or, of a float, NaN; the
  defaults are positive, as those of `config.rs:118-131` are.

**The rule and the search.**

| theorem | argument |
|---|---|
| `ScoreSymmetric`, `SuitsSymmetric`, `AdmissibleSymmetric` | case analysis of the rule; the type filter and the score are symmetric |
| `SearchTypes`, `SearchKeepsBest`, `NoKeyConflict`, `ChoicesAreMutual` | `SearchInv` (types and the loop invariant) is inductive; the others follow from it and, for the last, from symmetry |

**The queue.**

| theorem | argument |
|---|---|
| `TypeCorrect` | `TypeInv`: `TypeOK` says nothing of who has a body, so it is strengthened by `BodyInv` (a call past its start has a body, one past its search a candidate) and `EntriesPosted` (only calls past the insertion are in the map) |
| `ClaimsAreExclusive` | `ClaimInv` adds `CandidateInv`: a candidate was in the map when it was found, is not the searcher, and nothing is inserted twice, so a claimed entry never comes back |
| `OvershootBounded` | `OvershootInv` adds that at most `Callers` calls are in progress. The bound counts entries together with calls past the test; when a call passes the test, fewer than `MaxSize` entries and at most `Callers` calls (itself included) are counted |
| `MatchesOverlap` | `OverlapInv` adds that a candidate's entry outlives the arrival of the call that found it: the clock does not go back, a body does not change, and the search tests the expiry no earlier than the call's timestamp |
| `NoMatchMissed` | `NoMissedMatch` is inductive relative to `TypeInv` and `ClaimInv`. When a search finds nothing, no entry suits the searcher; by `AdmissibleSymmetric` the searcher suits no live entry either |
| `ListenersGetAnOutcome` | `ChannelInv` extends the property from listeners to every inserted request (`Outcome`): its sender is in its entry, or with a claimer about to send, or gone; and gone, with a listener left, only after a message or past its time. It adds that a computed result is a pair, so that a message is seen as one, and that a sweep's ids are inserted and expired |
| `DeliveriesMatchClaims` | `DeliveryInv`: the results are right from the moment they are computed as long as the candidate is in the map (`Prepared`); if it is not, the payload may be missing, but then the candidate never comes back and the claim fails |
| `EventsAreTrue` | `SweepInv` follows the ids of a sweep: inserted, expired, not yet reported, and after the removal out of the map, so that none is scanned again. `MatchedInv` counts claims: a claim adds one pair to what its caller made and one to what its candidate suffered, and one event for each |
| `QueueIsClaimBoard` | the mapped step of every section is given: an insertion posts, a claim takes, a removal or sweep withdraws, the rest stutter. `SuitInv` carries what the search tested to the claim, three sections later; `TermsInv`, that every body is an offer made at a time within the horizon |

**The service.** Every action of the service is built from one of the queue
(`ServiceStepIsQueueStep`, a lemma that follows from the definitions), so the step lemmas of
the queue's invariants apply. That these actions ask of the queue only what it allows is
another matter, and is `QueueNeverRefuses`. On top of the queue's invariants `CoreInv` adds

- `HandlerInv`: where a handler is tells where its call of the queue is (`StageOK`), and a
  worker runs one handler at a time;
- `AnswerInv`: an answer is `Truthful`, that is, the queue's state still shows why it was
  given: who was told of a match made the claim or has the claimer's message in its
  channel, who got a 408 or 404 is out of the map, and who got a 404 was never claimed.

`CoreInv` speaks neither of the clock nor of deadlines, so setting the clock keeps it, and
what follows from it holds of `SteppedSpec` too. `TimesInv` relates deadlines, expiry and
the clock, holds only while there is one clock, and together with `CoreInv` makes
`ServiceInv`.

| theorem | argument |
|---|---|
| `QueueNeverRefuses` | an idle worker means that fewer than `Callers` calls run: `worker` maps calls in progress one to one to the other workers. The rest is `StageOK` |
| `ClaimsSurviveClock` | `ClaimInv` and `DeliveryInv` do not mention the clock, and setting it adds neither calls nor entries, so `OvershootInv` is kept too |
| `ServiceMissesNoMatch` | `NoMissedMatch`, `OverlapInv` and `ChannelInv` are kept by every step of a handler, a departure or the sweep; they need a clock that is not set back |
| `WaitersAndClaimersAgree`, `PayloadsArrive`, `MatchesSuit` | `MatchIsAClaim`: an answer of 200 comes from one claim, made by the one side or the other; then `DeliveryInv`, and `SuitInv` with the symmetry of the rule |
| `FailuresHold`, `FailuresComeLast` | `Truthful`; for the second, `TimesInv`: a deadline is no earlier than the expiry, and the sweep closes only channels of expired entries |
| `ServiceTypeCorrect` | `TimesInv` bounds deadlines by the horizon, since submissions end at `LastSubmit` |
| `ServiceIsRendezvous` | the mapped step of every action: a claim matches, an answer tells or fails, and a handler answers once (`AnswersOnce`). A failure is allowed because `Truthful` excludes a claim of the caller's own, a telling because the claim is on record |

**Counters and configuration.**

| theorem | argument |
|---|---|
| `EventsAreAccountedFor` | `AccountInv`: the property with the types of ring, `sending` and counters. Lemmas count the occurrences of an event in a sequence after `Append` and in a `Tail`: a send moves one event into the ring and, if the ring is full, another from the ring to `lost`. That a sweep never reports an entry twice is `SweepInv`, that a claim is a new pair `ClaimTally` |
| `ReportsNeverRunAhead` | counters are at most what has happened, by `AccountInv`; what has happened only grows (`TalliesGrow`), so a number read earlier is still possible; the size is bounded by `OvershootInv` |
| `AlwaysUsable`, `ProperIsTaken`, `NeverHalf` | `ConfigInv` says at each stage what is left of the environment: whole, whole but for a repaired radius, or replaced; a proper environment passes every stage |

**Only model-checked.** Liveness: `EveryCallEnds`, `QueueDrains` and `CountersSettle`, which
the prover does not treat. The statements of section 5 are refuted by TLC and not proved
false in general.

## 5. Where the documents and the code differ

Each is a run that TLC refutes; `findings` in `PROJECT.json` quotes the statement.

| run | statement | what the code does |
|---|---|---|
| `matched_pair_leaves` | both requests are atomically removed | the claimer's own entry stays and can be matched again |
| `receiver_gets_payload` | a matched receive gets the data | not when the receive comes second: the reference it is matched with has no payload |
| `no_half_match` | no half-matched states | one side 200, the other 408, if the timer fires between claim and message |
| `radius_may_be_left_out` | the earth radius gets its default if it is not provided | without it the whole environment is dropped for the defaults; the module's own list of variables, and `sample.env` for the queue size, leave a variable out |

More are visible in what holds, and in the definitions:

- `q_core.rs:23` calls `max_size` the maximum; the bound that holds is `Overshoot`,
  `MaxSize + Callers - 1` entries.
- `docs/bump-spec.md:107` ranks time before place; the best entry of `KeepsBest` has the
  highest sum of scores.
- `docs/matching-algorithm.md:51` asks for 150 points without a common key; `Threshold` has
  100 for that case, and the parameter of 150 is unused.
- `docs/matching-algorithm.md:189` says that no requests are left waiting; `NoMissedMatch`
  excepts requests that lost a candidate, since a call does not search again.
- `service.rs:175` promises `Timeout` when there is no match within the ttl; the sweep may
  come before the timer, and the answer is then `NotFound` (`ChannelDropped`, allowed by
  `FailuresAreFinal`).
- `docs/api-guide.md:154` lists the payload among the fields of a send response ("the data
  that was transferred"), and the sample of lines 126-133 has it. `Matched` shows a Send no
  payload, whichever side made the claim: `service.rs:226` and `253` set it to `None`, with the
  comment that send requests do not receive one. `PayloadsBelong` says nothing of a Send.
- `models.rs:126` calls `matches_count` the number of matches; `CountersAccount` has it at
  twice that.
- `models.rs:128` and `docs/api-guide.md:78` call `expired_count` the number of expired
  requests since startup. It is the number of entries found by a sweep. A request that
  times out and is withdrawn by its own handler (`Withdraw`, `service.rs:265`) is broadcast as
  Removed and never counted. The leftover entry of a claimer that was answered 200 is
  counted once it is swept, and so is a request that is matched after the sweep's scan.
- `docs/api-guide.md:290` says that requests expire after their ttl and can no longer be
  matched. The search tests the expiry, the claim does not: an entry that expires between
  the two is matched. `PartnersOverlap` is what holds: it was alive when its claimer came.
- `default_ttl_ms`, the two weights and `earth_radius_meters` are validated and never used.
  A radius or a distance of NaN passes `validate` (`StartsUsable`); with a distance of NaN
  no two places are near.
- The defaults of `config.rs:118-131` (250 m, 1500 ms) are neither those of `main.rs:32-33`
  (10 m, 500 ms) nor those of the README (500 ms).

## 6. What is not modelled, and why

- `wait_for_match` (`q_impl.rs:202-253`): deprecated, and nothing calls it, not even a test.
  It would put a new channel into an entry and so close the one its caller listens on;
  what is checked and proved here holds of a program that does not use it.
- JSON, CORS, routing, `timestamp`, `root_health`, logging: no state of their own. The
  branches of the endpoints for a missing service: `main` always provides one.
- Uptime, match rate and the configured numbers of a health report.
- `src/bin.rs`: not a build target. Tests, scripts and packaging: not the program.
- More than one step of the wall clock; infinite numbers and overflow in the environment.
- Floating-point rounding; panics and process crashes (all state
  is in memory and is lost together).

## 7. Plan

All components whose state matters are modelled, and every invariant and refinement that
is checked is proved. What is left:

1. Theorems about the abstract specifications themselves: that on a claim board nobody is
   taken twice, and that in a rendezvous who was found and is told is told of its finder
   unless it found somebody itself.
2. Action properties of the queue (an entry never comes back, a claim is never undone),
   where they say more than the invariants.
3. The safety halves of the liveness properties: a handler that has not ended has a step it
   can take, as a state invariant without `ENABLED`.
