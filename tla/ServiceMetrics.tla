--------------------------- MODULE ServiceMetrics ---------------------------
(***************************************************************************)
(* The counters of src/src/service.rs: every event the queue emits goes     *)
(* through the broadcast channel to the metrics task, and a health check    *)
(* reads the size of the queue and the two counters one after the other.    *)
(*                                                                          *)
(* atomic_match sends its four events one by one under the write lock; the  *)
(* other senders of events but remove_request hold no lock, so theirs come  *)
(* in between.                                                              *)
(***************************************************************************)
EXTENDS UnifiedQueue, Sequences

CONSTANT Buffer     \* slots of the event channel: 100 asked for, 128 made

ASSUME BufferAssumption == Buffer \in Nat \ {0}

VARIABLES
    channel, lagged, lost,      \* the event channel
    sending,    \* the call inside atomic_match and what it has still to send
    matches,    \* matches_count
    expired,    \* expired_count
    health      \* a health check under way and what it has read

INSTANCE EventBus WITH Watched <- {"Matched", "Expired"}

busVars == <<channel, lagged, lost>>
metricsOnlyVars == <<busVars, sending, matches, expired, health>>
metricsVars == <<queueVars, metricsOnlyVars>>

NoSend == [by |-> NoRequest, kinds |-> <<>>]

\* In progress, or none, with nothing read.
Check(stage, size, m, e) ==
    [stage |-> stage, size |-> size, matches |-> m, expired |-> e]

NoCheck == Check("none", 0, 0, 0)

MetricsInit ==
    /\ QueueInit
    /\ BusInit
    /\ sending = NoSend
    /\ matches = 0
    /\ expired = 0
    /\ health = NoCheck

-----------------------------------------------------------------------------
(* The queue, with its events sent *)

\* Nobody holds the write lock of the map across sends.
LockFree == sending = NoSend

Silent == UNCHANGED metricsOnlyVars

Sends(k) ==
    /\ Send(k)
    /\ UNCHANGED <<sending, matches, expired, health>>

\* Sections that take the lock; the results of a Send or a Receive are computed
\* without it.
LockedSection(r) ==
    /\ LockFree \/ (step[r] = "exchange" /\ body[r].type # "Bump")
    /\ \/ CheckCapacity(r) \/ Insert(r) \/ FindMatch(r) \/ Exchange(r)
    /\ Silent

\* atomic_match keeps the write lock until it has sent its four events.
ClaimLocks(r) ==
    /\ LockFree
    /\ Claim(r)
    /\ sending' = IF candidate[r] \in requests
                  THEN [by |-> r, kinds |-> <<"Matched", "Matched", "Removed", "Removed">>]
                  ELSE NoSend
    /\ UNCHANGED <<busVars, matches, expired, health>>

SendNext ==
    /\ sending # NoSend
    /\ Send(Head(sending.kinds))
    /\ sending' = IF Len(sending.kinds) = 1 THEN NoSend
                  ELSE [sending EXCEPT !.kinds = Tail(@)]
    /\ UNCHANGED <<queueVars, matches, expired, health>>

NotifyUnlocked(r) == sending.by # r /\ Notify(r) /\ Silent

Reported(r) ==
    \/ Announce(r) /\ Sends("Added")
    \/ LockFree /\ RemoveRequest(r) /\ Sends("Removed")
    \/ CleanupReport(r) /\ Sends("Expired")

Call(r) ==
    \/ \E o \in Offer : AddRequest(r, o) /\ Silent
    \/ LockedSection(r) \/ ClaimLocks(r) \/ NotifyUnlocked(r) \/ Reported(r)
    \/ DropReceiver(r) /\ Silent

Background ==
    \/ LockFree /\ (CleanupScan \/ CleanupRemove) /\ Silent
    \/ Tick /\ Silent

-----------------------------------------------------------------------------
(* The metrics task *)

\* Variant: removals counted as expiries.
CountRemoved ==
    \E k \in EventKind :
        /\ Recv(k)
        /\ matches' = IF k = "Matched" THEN matches + 1 ELSE matches
        /\ expired' = IF k \in {"Expired", "Removed"} THEN expired + 1 ELSE expired
        /\ UNCHANGED <<queueVars, sending, health>>

\* One event; those of other kinds are read and ignored.
Count ==
    \E k \in EventKind :
        /\ Recv(k)
        /\ matches' = IF k = "Matched" THEN matches + 1 ELSE matches
        /\ expired' = IF k = "Expired" THEN expired + 1 ELSE expired
        /\ UNCHANGED <<queueVars, sending, health>>

\* Variants: the loop ends at the first error; the subscription is renewed.
StopOnLag == lagged /\ UNCHANGED metricsVars

ResubscribeOnLag ==
    /\ lagged
    /\ lagged' = FALSE
    /\ channel' = <<>>
    /\ UNCHANGED <<queueVars, lost, sending, matches, expired, health>>

\* Any error but Closed, and the task reads on.
SkipLost ==
    /\ RecvLagged
    /\ UNCHANGED <<queueVars, sending, matches, expired, health>>

MetricsTask == Count \/ SkipLost

-----------------------------------------------------------------------------
(* get_health_status *)

ReadSize ==
    /\ health = NoCheck
    /\ LockFree
    /\ health' = Check("size", Cardinality(requests), 0, 0)
    /\ UNCHANGED <<queueVars, busVars, sending, matches, expired>>

ReadMatches ==
    /\ health.stage = "size"
    /\ health' = [health EXCEPT !.stage = "matches", !.matches = matches]
    /\ UNCHANGED <<queueVars, busVars, sending, matches, expired>>

ReadExpired ==
    /\ health.stage = "matches"
    /\ health' = [health EXCEPT !.stage = "report", !.expired = expired]
    /\ UNCHANGED <<queueVars, busVars, sending, matches, expired>>

\* The response goes out.
Report ==
    /\ health.stage = "report"
    /\ health' = NoCheck
    /\ UNCHANGED <<queueVars, busVars, sending, matches, expired>>

HealthCheck == ReadSize \/ ReadMatches \/ ReadExpired \/ Report

MetricsNext ==
    \/ \E r \in Request : Call(r)
    \/ SendNext
    \/ Background
    \/ MetricsTask
    \/ HealthCheck

\* The metrics task is spawned once and never ends, and a thread that holds the
\* lock goes on sending; nothing else need happen.
MetricsFairness ==
    /\ WF_metricsVars(MetricsTask)
    /\ WF_metricsVars(SendNext)

MetricsSpec == MetricsInit /\ [][MetricsNext]_metricsVars /\ MetricsFairness

-----------------------------------------------------------------------------
(* Properties *)

Claims == {p \in Request \X Request : Claimed(p[1], p[2])}

Swept == {r \in Request : events[r]["Expired"] > 0}

\* Events of kind k that are emitted but not counted: still to be sent, still to
\* be read, or overwritten.
Uncounted(k) ==
    Cardinality({i \in DOMAIN sending.kinds : sending.kinds[i] = k}) + InRing(k) + lost[k]

\* Every event that concerns a counter is counted once, under way or overwritten,
\* however sends and reads interleave and however often the task is overtaken
\* (service.rs:70-88).  What is counted is events: a match is two of them, and an
\* expiry is an entry that a sweep found, be it that of a claimer already matched,
\* but not a request that timed out and was withdrawn by its own handler
\* (service.rs:265).  The documents promise other numbers: matches (models.rs:126)
\* and expired requests (models.rs:128, docs/api-guide.md:78) since startup.
CountersAccount ==
    /\ matches + Uncounted("Matched") = 2 * Cardinality(Claims)
    /\ expired + Uncounted("Expired") = Cardinality(Swept)

\* A health report, put together from three reads with everything going on in
\* between, shows no match and no expiry that has not happened, and no more
\* entries than the overshoot allows (service.rs:531-542).
ReportsArePossible ==
    /\ health.matches <= 2 * Cardinality(Claims)
    /\ health.expired <= Cardinality(Swept)
    /\ health.size <= MaxSize + Callers - 1

\* Once the last event is sent the counters reach their final values: the task
\* survives any number of lags (service.rs:68-88).
CountersSettle ==
    <>[](/\ matches = 2 * Cardinality(Claims) - lost["Matched"]
         /\ expired = Cardinality(Swept) - lost["Expired"])
=============================================================================
