------------------------ MODULE ServiceMetricsProofs ------------------------
(***************************************************************************)
(* Theorems about the counters of ServiceMetrics: no event between the      *)
(* queue and the metrics task is missed or counted twice but those the ring *)
(* overwrites, and a health report never runs ahead of the events.          *)
(***************************************************************************)
EXTENDS ServiceMetrics, QueueDeliveryProofs, SequenceTheorems

-----------------------------------------------------------------------------
(* How often an event occurs in a sequence of events *)

At(s, k) == {i \in DOMAIN s : s[i] = k}
Occurrences(s, k) == Cardinality(At(s, k))

LEMMA OccurrencesType ==
    ASSUME NEW s \in Seq(EventKind), NEW k
    PROVE  IsFiniteSet(At(s, k)) /\ Occurrences(s, k) \in Nat
<1>1. DOMAIN s = 1..Len(s) /\ Len(s) \in Nat
  BY LenProperties
<1>2. IsFiniteSet(1..Len(s))
  BY <1>1, FS_Interval
<1>3. At(s, k) \in SUBSET (1..Len(s))
  BY <1>1 DEF At
<1>4. IsFiniteSet(At(s, k))
  BY <1>2, <1>3, FS_Subset
<1> QED BY <1>4, FS_CardinalityType DEF Occurrences

LEMMA OccurrencesInNone == \A k : Occurrences(<<>>, k) = 0
<1>1. \A k : At(<<>>, k) = {}
  BY DEF At
<1> QED BY <1>1, FS_EmptySet DEF Occurrences

LEMMA OccurrencesAfterAppend ==
    ASSUME NEW s \in Seq(EventKind), NEW e \in EventKind, NEW k
    PROVE  Occurrences(Append(s, e), k) = Occurrences(s, k) + (IF e = k THEN 1 ELSE 0)
<1> DEFINE t == Append(s, e)
           n == Len(s) + 1
<1>1. /\ DOMAIN s = 1..Len(s) /\ Len(s) \in Nat
      /\ t \in Seq(EventKind) /\ Len(t) = n
      /\ \A i \in 1..Len(s) : t[i] = s[i]
      /\ t[n] = e
  BY LenProperties, AppendProperties
<1>2. DOMAIN t = 1..n
  BY <1>1, LenProperties
<1> HIDE DEF t
<1>3. At(t, k) = IF e = k THEN At(s, k) \union {n} ELSE At(s, k)
  BY <1>1, <1>2 DEF At
<1>4. n \notin At(s, k)
  BY <1>1 DEF At
<1>5. Occurrences(t, k) = Occurrences(s, k) + (IF e = k THEN 1 ELSE 0)
  <2>1. IsFiniteSet(At(s, k)) /\ Occurrences(s, k) \in Nat
    BY OccurrencesType
  <2>2. Cardinality(At(s, k) \union {n}) = Cardinality(At(s, k)) + 1
    BY <1>4, <2>1, FS_AddElement
  <2> QED BY <1>3, <2>1, <2>2 DEF Occurrences
<1> QED BY <1>5 DEF t

\* Dropping the first event: what is left of the others moves up by one.
LEMMA OccurrencesInTail ==
    ASSUME NEW s \in Seq(EventKind), s # <<>>, NEW k
    PROVE  Occurrences(s, k) = Occurrences(Tail(s), k) + (IF Head(s) = k THEN 1 ELSE 0)
<1> DEFINE t == Tail(s)
           Rest == {i \in At(s, k) : i # 1}
           up == [i \in At(t, k) |-> i + 1]
<1>1. /\ DOMAIN s = 1..Len(s) /\ Len(s) \in Nat /\ Len(s) >= 1
      /\ t \in Seq(EventKind) /\ Len(t) = Len(s) - 1
      /\ \A i \in 1..Len(t) : t[i] = s[i + 1]
  BY LenProperties, HeadTailProperties, EmptySeq
<1>2. DOMAIN t = 1..Len(t)
  BY <1>1, LenProperties
<1>3. Head(s) = s[1]
  OBVIOUS
<1> HIDE DEF t
<1>4. IsFiniteSet(At(t, k)) /\ IsFiniteSet(At(s, k)) /\ Occurrences(t, k) \in Nat
  BY <1>1, OccurrencesType
<1>5. At(t, k) \subseteq 1..Len(t) /\ At(s, k) \subseteq 1..Len(s)
  BY <1>1, <1>2 DEF At
<1>6. up \in Bijection(At(t, k), Rest)
  <2>1. \A i \in At(t, k) : i + 1 \in Rest
    BY <1>1, <1>2 DEF At
  <2>2. \A j \in Rest : j - 1 \in At(t, k) /\ j = (j - 1) + 1
    BY <1>1, <1>2 DEF At
  <2>3. up \in [At(t, k) -> Rest]
    BY <2>1
  <2>4. \A i, j \in At(t, k) : up[i] = up[j] => i = j
    BY <1>1, <1>5
  <2>5. \A j \in Rest : \E i \in At(t, k) : up[i] = j
    BY <2>2
  <2> HIDE DEF up, Rest
  <2>6. DOMAIN up = At(t, k)
    BY <2>3
  <2> QED BY <2>3, <2>4, <2>5, <2>6 DEF Bijection, Injection, Surjection, IsInjective
<1>7. Cardinality(Rest) = Occurrences(t, k)
  BY <1>4, <1>6, FS_Bijection DEF ExistsBijection, Occurrences
<1>8. At(s, k) = (IF Head(s) = k THEN Rest \union {1} ELSE Rest) /\ 1 \notin Rest
  BY <1>1, <1>3 DEF At
<1>9. IsFiniteSet(Rest)
  BY <1>4, FS_Subset
<1>10. Cardinality(Rest \union {1}) = Cardinality(Rest) + 1
  BY <1>8, <1>9, FS_AddElement
<1> HIDE DEF Rest
<1>11. Occurrences(s, k) = Occurrences(t, k) + (IF Head(s) = k THEN 1 ELSE 0)
  BY <1>4, <1>7, <1>8, <1>10 DEF Occurrences
<1> QED BY <1>11 DEF t

\* atomic_match has two Matched events to send and no Expired one
\* (q_matching.rs:344-352).
MatchEvents == <<"Matched", "Matched", "Removed", "Removed">>

LEMMA OccurrencesOfMatch ==
    /\ MatchEvents \in Seq(EventKind) /\ MatchEvents # <<>>
    /\ Occurrences(MatchEvents, "Matched") = 2
    /\ Occurrences(MatchEvents, "Expired") = 0
<1>1. MatchEvents \in Seq(EventKind) /\ MatchEvents # <<>>
  BY DEF EventKind, MatchEvents
<1>2. At(MatchEvents, "Matched") = {1} \union {2} /\ At(MatchEvents, "Expired") = {}
  BY DEF At, MatchEvents
<1>3. IsFiniteSet({1}) /\ Cardinality({1}) = 1
  BY FS_Singleton
<1>4. Cardinality({1} \union {2}) = 2
  BY <1>3, FS_AddElement, 2 \notin {1}
<1> QED BY <1>1, <1>2, <1>4, FS_EmptySet DEF Occurrences

-----------------------------------------------------------------------------
(* Every step is one of the queue's *)

\* The counters hang on the queue's events and change nothing of the queue, so
\* every theorem about QueueSpec is one about MetricsSpec.
LEMMA MetricsStepIsQueueStep == [MetricsNext]_metricsVars => [QueueNext]_queueVars
<1> SUFFICES ASSUME [MetricsNext]_metricsVars PROVE [QueueNext]_queueVars
  OBVIOUS
<1>1. ASSUME NEW r \in Request, Call(r) PROVE QueueNext
  BY <1>1 DEF Call, LockedSection, ClaimLocks, NotifyUnlocked, Reported, QueueNext
<1>2. CASE Background
  BY <1>2 DEF Background, QueueNext
<1>3. CASE SendNext \/ MetricsTask \/ HealthCheck
  BY <1>3 DEF SendNext, MetricsTask, Count, SkipLost, HealthCheck, ReadSize, ReadMatches,
     ReadExpired, Report
<1>4. CASE UNCHANGED metricsVars
  BY <1>4 DEF metricsVars
<1> QED BY <1>1, <1>2, <1>3, <1>4 DEF MetricsNext

-----------------------------------------------------------------------------
(* The channel *)

Watching == {"Matched", "Expired"}

BusTypes ==
    /\ channel \in Seq(EventKind)
    /\ lost \in [Watching -> Nat]
    /\ sending \in [by : Request \union {NoRequest}, kinds : Seq(EventKind)]
    /\ sending # NoSend => sending.kinds # <<>>
    /\ matches \in Nat
    /\ expired \in Nat

\* What is under way to the counter of kind k, by where it is.
LEMMA UncountedIs ==
    ASSUME NEW k
    PROVE  /\ Uncounted(k) = Occurrences(sending.kinds, k) + Occurrences(channel, k) + lost[k]
           /\ Uncounted(k)' = Occurrences(sending'.kinds, k) + Occurrences(channel', k) + lost'[k]
BY DEF Uncounted, InRing, Occurrences, At

\* A full ring has an event to forget.
LEMMA FullIsNotEmpty == BusTypes /\ Full => channel # <<>>
BY BufferAssumption, EmptySeq DEF BusTypes, Full

\* One event sent is one more to be read or lost; which event is lost when the
\* ring is full makes no difference to the sum.
LEMMA SendAddsOne ==
    ASSUME BusTypes, NEW e \in EventKind, Send(e), NEW k \in Watching
    PROVE  /\ channel' \in Seq(EventKind)
           /\ lost' \in [Watching -> Nat]
           /\ Occurrences(channel', k) + lost'[k]
                = Occurrences(channel, k) + lost[k] + (IF e = k THEN 1 ELSE 0)
<1> USE DEF BusTypes
<1>n. lost[k] \in Nat /\ Occurrences(channel, k) \in Nat
  BY OccurrencesType
<1>1. CASE ~Full
  <2>1. channel' = Append(channel, e) /\ lost' = lost
    BY <1>1 DEF Send
  <2>2. Occurrences(channel', k) = Occurrences(channel, k) + (IF e = k THEN 1 ELSE 0)
    BY <2>1, OccurrencesAfterAppend
  <2> QED BY <1>n, <2>1, <2>2, AppendProperties
<1>2. CASE Full
  <2>1. channel # <<>>
    BY <1>2, FullIsNotEmpty
  <2> DEFINE h == Head(channel)
             t == Tail(channel)
  <2>2. h \in EventKind /\ t \in Seq(EventKind)
    BY <2>1, HeadTailProperties
  <2>3. channel' = Append(t, e)
        /\ lost' = IF h \in Watching THEN [lost EXCEPT ![h] = @ + 1] ELSE lost
    BY <1>2 DEF Send, Watching
  <2>4. Occurrences(channel, k) = Occurrences(t, k) + (IF h = k THEN 1 ELSE 0)
    BY <2>1, OccurrencesInTail
  <2> HIDE DEF h, t
  <2>5. Occurrences(channel', k) = Occurrences(t, k) + (IF e = k THEN 1 ELSE 0)
        /\ Occurrences(t, k) \in Nat
    BY <2>2, <2>3, OccurrencesAfterAppend, OccurrencesType
  <2>6. lost'[k] = lost[k] + (IF h = k THEN 1 ELSE 0) /\ lost' \in [Watching -> Nat]
    BY <2>3
  <2>7. channel' \in Seq(EventKind)
    BY <2>2, <2>3, AppendProperties
  <2> QED BY <1>n, <2>4, <2>5, <2>6, <2>7
<1> QED BY <1>1, <1>2

\* One event read is one less.
LEMMA RecvTakesOne ==
    ASSUME BusTypes, NEW e \in EventKind, Recv(e), NEW k \in Watching
    PROVE  /\ channel' \in Seq(EventKind)
           /\ lost' = lost
           /\ Occurrences(channel, k) = Occurrences(channel', k) + (IF e = k THEN 1 ELSE 0)
<1>1. channel # <<>> /\ channel \in Seq(EventKind) /\ e = Head(channel)
      /\ channel' = Tail(channel) /\ lost' = lost
  BY DEF BusTypes, Recv
<1> QED BY <1>1, OccurrencesInTail, HeadTailProperties

-----------------------------------------------------------------------------
(* What the steps of the queue do to the numbers the counters stand for *)

LEMMA TalliesFinite ==
    ASSUME TypeInv
    PROVE  /\ IsFiniteSet(Claims) /\ Cardinality(Claims) \in Nat
           /\ IsFiniteSet(Swept) /\ Cardinality(Swept) \in Nat
<1>1. IsFiniteSet(Request \X Request) /\ IsFiniteSet(Request)
  BY QueueAssumption, FS_Product
<1>2. Claims \subseteq Request \X Request /\ Swept \subseteq Request
  BY DEF Claims, Swept
<1>3. IsFiniteSet(Claims) /\ IsFiniteSet(Swept)
  BY <1>1, <1>2, FS_Subset
<1> QED BY <1>3, FS_CardinalityType

\* A claim on a candidate that is still there is one claim more.
LEMMA ClaimTally ==
    ASSUME TypeInv, ClaimInv, NEW r \in Request, Claim(r)
    PROVE  /\ Swept' = Swept
           /\ candidate[r] \in requests => \E p : p \notin Claims /\ Claims' = Claims \union {p}
           /\ candidate[r] \notin requests => Claims' = Claims
<1>t. /\ step \in [Request -> Step] /\ requests \subseteq Request
      /\ events \in [Request -> [EventKind -> Nat]] /\ BodyInv
  BY DEF TypeInv, TypeOK
<1> USE DEF Goto
<1>1. step[r] = "claim" /\ UNCHANGED candidate
  BY DEF Claim
<1>m. PICK m \in Request : m = candidate[r]
  BY <1>1, <1>t DEF BodyInv
<1>2. \A w \in Request : events'[w]["Expired"] = events[w]["Expired"]
  BY <1>t, ClaimEvents DEF Claim
<1>3. Swept' = Swept
  BY <1>2 DEF Swept
<1>4. CASE m \in requests
  <2>1. step' = [step EXCEPT ![r] = "notify"]
    BY <1>4, <1>m DEF Claim
  <2>2. \A c, w \in Request : Claimed(c, w)' <=> (Claimed(c, w) \/ (c = r /\ w = m))
    BY <1>1, <1>m, <2>1, <1>t DEF Claimed
  <2>3. <<r, m>> \notin Claims
    BY <1>1 DEF Claims, Claimed
  <2>4. Claims' = Claims \union {<<r, m>>}
    BY <1>m, <2>2 DEF Claims
  <2> QED BY <1>3, <1>4, <1>m, <2>3, <2>4
<1>5. CASE m \notin requests
  <2>1. step' = [step EXCEPT ![r] = "announce"]
    BY <1>5, <1>m DEF Claim
  <2>2. \A c, w \in Request : Claimed(c, w)' <=> Claimed(c, w)
    BY <1>1, <2>1, <1>t DEF Claimed
  <2> QED BY <1>3, <1>5, <1>m, <2>2 DEF Claims
<1> QED BY <1>4, <1>5

\* The sweep reports an entry that has not been reported.
LEMMA SweepTally ==
    ASSUME TypeInv, SweepInv, NEW r \in Request, CleanupReport(r)
    PROVE  Claims' = Claims /\ r \notin Swept /\ Swept' = Swept \union {r}
<1>t. events \in [Request -> [EventKind -> Nat]]
  BY DEF TypeInv, TypeOK
<1>1. \A w \in Request : events'[w]["Expired"] =
          IF w = r THEN events[w]["Expired"] + 1 ELSE events[w]["Expired"]
  BY <1>t, EmittedCount DEF CleanupReport, EventKind
<1>2. events[r]["Expired"] = 0
  BY DEF CleanupReport, SweepInv
<1>3. Claims' = Claims
  BY DEF CleanupReport, Claims, Claimed
<1> QED BY <1>1, <1>2, <1>3 DEF Swept

\* No other step of the queue claims or reports an expiry.
LEMMA OtherTally ==
    ASSUME TypeInv,
           \/ \E r \in Request :
                \/ \E o \in Offer : AddRequest(r, o)
                \/ CheckCapacity(r) \/ Insert(r) \/ FindMatch(r) \/ Exchange(r)
                \/ Notify(r) \/ Announce(r) \/ RemoveRequest(r)
                \/ DropReceiver(r)
           \/ CleanupScan \/ CleanupRemove \/ Tick \/ UNCHANGED queueVars
    PROVE  Claims' = Claims /\ Swept' = Swept
<1>t. /\ step \in [Request -> Step] /\ events \in [Request -> [EventKind -> Nat]]
      /\ candidate \in [Request -> Request \union {NoRequest}]
  BY DEF TypeInv, TypeOK
<1> USE DEF Goto, Idle
<1>0. ASSUME \A c, w \in Request : Claimed(c, w)' <=> Claimed(c, w),
             \A w \in Request : events'[w]["Expired"] = events[w]["Expired"]
      PROVE  Claims' = Claims /\ Swept' = Swept
  BY <1>0 DEF Claims, Swept
<1>1. ASSUME NEW r \in Request,
             (\E o \in Offer : AddRequest(r, o)) \/ CheckCapacity(r) \/ Insert(r)
               \/ Exchange(r) \/ Notify(r)
      PROVE  Claims' = Claims /\ Swept' = Swept
  BY <1>0, <1>1, <1>t DEF AddRequest, CheckCapacity, Insert, Exchange, Notify, Claimed
<1>2. ASSUME NEW r \in Request, FindMatch(r) PROVE Claims' = Claims /\ Swept' = Swept
  <2>1. /\ step[r] = "find" /\ \E s \in {"announce", "exchange"} : step' = [step EXCEPT ![r] = s]
        /\ \A c \in Request : c # r => candidate'[c] = candidate[c]
        /\ UNCHANGED events
    BY <1>2, <1>t DEF FindMatch
  <2> QED BY <1>0, <1>t, <2>1 DEF Claimed
<1>3. ASSUME NEW r \in Request, Announce(r) \/ RemoveRequest(r)
      PROVE  Claims' = Claims /\ Swept' = Swept
  <2>1. \A w \in Request : events'[w]["Expired"] = events[w]["Expired"]
    BY <1>3, <1>t, EmittedCount DEF Announce, RemoveRequest, EventKind
  <2> QED BY <1>0, <1>3, <1>t, <2>1 DEF Announce, RemoveRequest, Claimed
<1>4. ASSUME NEW r \in Request, DropReceiver(r)
      PROVE  Claims' = Claims /\ Swept' = Swept
  BY <1>0, <1>4 DEF DropReceiver, Claimed
<1>5. CASE CleanupScan \/ CleanupRemove \/ Tick \/ UNCHANGED queueVars
  BY <1>0, <1>5 DEF CleanupScan, CleanupRemove, Tick, queueVars, Claimed
<1> QED BY <1>1, <1>2, <1>3, <1>4, <1>5

-----------------------------------------------------------------------------
(* The counters account for every event *)

QueueTallies == TypeInv /\ ClaimInv /\ SweepInv
AccountInv == BusTypes /\ CountersAccount

LEMMA UncountedType ==
    ASSUME BusTypes, NEW k \in Watching
    PROVE  /\ Occurrences(sending.kinds, k) \in Nat /\ Occurrences(channel, k) \in Nat
           /\ lost[k] \in Nat /\ Uncounted(k) \in Nat
<1>1. /\ Occurrences(sending.kinds, k) \in Nat /\ Occurrences(channel, k) \in Nat
      /\ lost[k] \in Nat
  BY OccurrencesType DEF BusTypes
<1> QED BY <1>1, UncountedIs

LEMMA AccountInvInit == MetricsInit => AccountInv
<1> SUFFICES ASSUME MetricsInit PROVE AccountInv
  OBVIOUS
<1>1. /\ channel = <<>> /\ lost = [k \in Watching |-> 0] /\ sending = NoSend
      /\ matches = 0 /\ expired = 0
  BY DEF MetricsInit, BusInit, Watching
<1>2. BusTypes
  BY <1>1 DEF BusTypes, NoSend
<1>3. Claims = {} /\ Swept = {}
  BY DEF MetricsInit, QueueInit, Claims, Swept, Claimed, Idle, EventKind
<1>4. \A k \in Watching : Uncounted(k) = 0
  <2> SUFFICES ASSUME NEW k \in Watching PROVE Uncounted(k) = 0
    OBVIOUS
  <2>1. Occurrences(channel, k) = 0 /\ Occurrences(sending.kinds, k) = 0 /\ lost[k] = 0
    BY <1>1, OccurrencesInNone DEF NoSend
  <2> QED BY <2>1, UncountedIs
<1>5. Cardinality({}) = 0
  BY FS_EmptySet
<1> QED BY <1>1, <1>2, <1>3, <1>4, <1>5 DEF AccountInv, CountersAccount, Watching

LEMMA AccountInvStep == QueueTallies /\ AccountInv /\ [MetricsNext]_metricsVars => AccountInv'
<1> SUFFICES ASSUME QueueTallies, AccountInv, [MetricsNext]_metricsVars PROVE AccountInv'
  OBVIOUS
<1>t. BusTypes /\ CountersAccount /\ TypeInv /\ ClaimInv /\ SweepInv
  BY DEF QueueTallies, AccountInv
<1>n. /\ Cardinality(Claims) \in Nat /\ IsFiniteSet(Claims)
      /\ Cardinality(Swept) \in Nat /\ IsFiniteSet(Swept)
      /\ matches \in Nat /\ expired \in Nat
      /\ Uncounted("Matched") \in Nat /\ Uncounted("Expired") \in Nat
  BY <1>t, TalliesFinite, UncountedType DEF BusTypes, Watching
\* Steps that move no event and tally nothing.
<1>0. ASSUME UNCHANGED <<busVars, sending, matches, expired>>, Claims' = Claims, Swept' = Swept
      PROVE  AccountInv'
  <2>1. BusTypes'
    BY <1>0, <1>t DEF BusTypes, busVars, NoSend
  <2>2. \A k : Uncounted(k)' = Uncounted(k)
    BY <1>0, UncountedIs DEF busVars
  <2> QED BY <1>0, <1>t, <2>1, <2>2 DEF AccountInv, CountersAccount
\* One event sent by a call that is not inside atomic_match.
<1>s. ASSUME NEW e \in EventKind, Sends(e)
      PROVE  /\ BusTypes' /\ UNCHANGED <<matches, expired>>
             /\ \A k \in Watching : Uncounted(k)' = Uncounted(k) + (IF e = k THEN 1 ELSE 0)
  <2>1. Send(e) /\ UNCHANGED <<sending, matches, expired>>
    BY <1>s DEF Sends
  <2>2. BusTypes'
    BY <1>t, <2>1, SendAddsOne DEF BusTypes, NoSend, Watching
  <2>3. ASSUME NEW k \in Watching
        PROVE  Uncounted(k)' = Uncounted(k) + (IF e = k THEN 1 ELSE 0)
    <3>1. Occurrences(channel', k) + lost'[k]
            = Occurrences(channel, k) + lost[k] + (IF e = k THEN 1 ELSE 0)
      BY <1>t, <2>1, SendAddsOne
    <3>2. Occurrences(sending'.kinds, k) = Occurrences(sending.kinds, k)
      BY <2>1
    <3>3. /\ Occurrences(channel, k) \in Nat /\ lost[k] \in Nat
          /\ Occurrences(sending.kinds, k) \in Nat
      BY <1>t, UncountedType
    <3>4. Occurrences(channel', k) \in Nat /\ lost'[k] \in Nat
      BY <2>2, OccurrencesType DEF BusTypes
    <3> QED BY <3>1, <3>2, <3>3, <3>4, UncountedIs
  <2> QED BY <2>1, <2>2, <2>3
<1>1. ASSUME NEW r \in Request, LockedSection(r) PROVE AccountInv'
  <2>1. Claims' = Claims /\ Swept' = Swept
    BY <1>1, <1>t, OtherTally DEF LockedSection
  <2> QED BY <1>0, <1>1, <2>1 DEF LockedSection, Silent, metricsOnlyVars
<1>2. ASSUME NEW r \in Request, ClaimLocks(r) PROVE AccountInv'
  <2>1. Claim(r) /\ sending = NoSend /\ UNCHANGED <<channel, lost, matches, expired>>
    BY <1>2 DEF ClaimLocks, LockFree, busVars
  <2>2. Swept' = Swept
    BY <1>t, <2>1, ClaimTally
  <2>3. CASE candidate[r] \in requests
    <3>1. sending' = [by |-> r, kinds |-> MatchEvents]
      BY <1>2, <2>3 DEF ClaimLocks, MatchEvents
    <3>2. BusTypes'
      BY <1>t, <2>1, <3>1, OccurrencesOfMatch DEF BusTypes
    <3>3. Cardinality(Claims') = Cardinality(Claims) + 1
      BY <1>t, <1>n, <2>1, <2>3, ClaimTally, FS_AddElement
    <3>4. ASSUME NEW k \in Watching
          PROVE  Uncounted(k)' = Uncounted(k) + Occurrences(MatchEvents, k)
      <4>1. /\ Uncounted(k) = 0 + Occurrences(channel, k) + lost[k]
            /\ Uncounted(k)' = Occurrences(MatchEvents, k) + Occurrences(channel, k) + lost[k]
        BY <2>1, <3>1, UncountedIs, OccurrencesInNone DEF NoSend
      <4>2. Occurrences(MatchEvents, k) \in Nat
        BY OccurrencesOfMatch, OccurrencesType
      <4> QED BY <1>t, <4>1, <4>2, UncountedType
    <3>5. /\ Uncounted("Matched")' = Uncounted("Matched") + 2
          /\ Uncounted("Expired")' = Uncounted("Expired")
      BY <1>n, <3>4, OccurrencesOfMatch DEF Watching
    <3>6. matches' + Uncounted("Matched")' = 2 * Cardinality(Claims')
      BY <1>t, <1>n, <2>1, <3>3, <3>5 DEF CountersAccount
    <3>7. expired' + Uncounted("Expired")' = Cardinality(Swept')
      BY <1>t, <2>1, <2>2, <3>5 DEF CountersAccount
    <3> QED BY <3>2, <3>6, <3>7 DEF AccountInv, CountersAccount
  <2>4. CASE candidate[r] \notin requests
    <3>1. Claims' = Claims
      BY <1>t, <2>1, <2>4, ClaimTally
    <3> QED BY <1>0, <1>2, <2>1, <2>2, <2>4, <3>1 DEF ClaimLocks
  <2> QED BY <2>3, <2>4
<1>3. ASSUME NEW r \in Request, NotifyUnlocked(r) \/ (DropReceiver(r) /\ Silent)
             \/ \E o \in Offer : AddRequest(r, o) /\ Silent
      PROVE  AccountInv'
  <2>1. Claims' = Claims /\ Swept' = Swept
    BY <1>3, <1>t, OtherTally DEF NotifyUnlocked
  <2> QED BY <1>0, <1>3, <2>1 DEF NotifyUnlocked, Silent, metricsOnlyVars
<1>4. ASSUME NEW r \in Request, Reported(r) PROVE AccountInv'
  <2>1. CASE CleanupReport(r) /\ Sends("Expired")
    <3>1. Claims' = Claims /\ r \notin Swept /\ Swept' = Swept \union {r}
      BY <1>t, <2>1, SweepTally
    <3>2. Cardinality(Swept') = Cardinality(Swept) + 1
      BY <1>n, <3>1, FS_AddElement
    <3>3. /\ BusTypes' /\ UNCHANGED <<matches, expired>>
          /\ \A k \in Watching :
                Uncounted(k)' = Uncounted(k) + (IF "Expired" = k THEN 1 ELSE 0)
      BY <1>s, <2>1 DEF EventKind
    <3>4. /\ Uncounted("Matched")' = Uncounted("Matched")
          /\ Uncounted("Expired")' = Uncounted("Expired") + 1
      BY <1>n, <3>3 DEF Watching
    <3>5. expired' + Uncounted("Expired")' = Cardinality(Swept')
      BY <1>t, <1>n, <3>2, <3>3, <3>4 DEF CountersAccount
    <3> QED BY <1>t, <3>1, <3>3, <3>4, <3>5 DEF AccountInv, CountersAccount
  <2>2. ASSUME NEW e \in {"Added", "Removed"}, Sends(e), Announce(r) \/ RemoveRequest(r)
        PROVE  AccountInv'
    <3>1. Claims' = Claims /\ Swept' = Swept
      BY <1>t, <2>2, OtherTally
    <3>2. /\ BusTypes' /\ UNCHANGED <<matches, expired>>
          /\ \A k \in Watching : Uncounted(k)' = Uncounted(k) + (IF e = k THEN 1 ELSE 0)
      BY <1>s, <2>2 DEF EventKind
    <3>3. /\ Uncounted("Matched")' = Uncounted("Matched")
          /\ Uncounted("Expired")' = Uncounted("Expired")
      BY <1>n, <2>2, <3>2 DEF Watching
    <3> QED BY <1>t, <3>1, <3>2, <3>3 DEF AccountInv, CountersAccount
  <2> QED BY <1>4, <2>1, <2>2 DEF Reported
<1>5. CASE SendNext
  <2> DEFINE e == Head(sending.kinds)
  <2>1. /\ sending # NoSend /\ sending.kinds \in Seq(EventKind) /\ sending.kinds # <<>>
        /\ Send(e) /\ e \in EventKind /\ UNCHANGED <<queueVars, matches, expired>>
    BY <1>5, <1>t, HeadTailProperties DEF SendNext, BusTypes
  <2>2. /\ Tail(sending.kinds) \in Seq(EventKind)
        /\ Tail(sending.kinds) = <<>> <=> Len(sending.kinds) = 1
    <3>1. /\ Tail(sending.kinds) \in Seq(EventKind) /\ Len(sending.kinds) \in Nat
          /\ Len(Tail(sending.kinds)) = Len(sending.kinds) - 1
      BY <2>1, HeadTailProperties, LenProperties
    <3>2. \A t \in Seq(EventKind) : t = <<>> <=> Len(t) = 0
      BY EmptySeq
    <3>3. Tail(sending.kinds) = <<>> <=> Len(Tail(sending.kinds)) = 0
      BY <3>1, <3>2
    <3> QED BY <3>1, <3>3
  <2>3. /\ sending' \in [by : Request \union {NoRequest}, kinds : Seq(EventKind)]
        /\ sending'.kinds = Tail(sending.kinds)
        /\ sending' # NoSend => sending'.kinds # <<>>
    <3>1. CASE Len(sending.kinds) = 1
      <4>1. sending' = NoSend
        BY <1>5, <3>1 DEF SendNext
      <4>2. Tail(sending.kinds) = <<>>
        BY <2>2, <3>1
      <4> QED BY <4>1, <4>2 DEF NoSend
    <3>2. CASE Len(sending.kinds) # 1
      <4>1. sending' = [sending EXCEPT !.kinds = Tail(@)]
        BY <1>5, <3>2 DEF SendNext
      <4>2. Tail(sending.kinds) # <<>>
        BY <2>2, <3>2
      <4> QED BY <1>t, <2>2, <4>1, <4>2 DEF BusTypes
    <3> QED BY <3>1, <3>2
  <2>4. Claims' = Claims /\ Swept' = Swept
    BY <1>t, <2>1, OtherTally
  <2>5. BusTypes'
    BY <1>t, <2>1, <2>3, SendAddsOne DEF BusTypes, Watching
  <2>6. ASSUME NEW k \in Watching PROVE Uncounted(k)' = Uncounted(k)
    <3>1. Occurrences(sending.kinds, k)
            = Occurrences(sending'.kinds, k) + (IF e = k THEN 1 ELSE 0)
      BY <2>1, <2>3, OccurrencesInTail
    <3>2. Occurrences(channel', k) + lost'[k]
            = Occurrences(channel, k) + lost[k] + (IF e = k THEN 1 ELSE 0)
      BY <1>t, <2>1, SendAddsOne
    <3>3. /\ Occurrences(channel, k) \in Nat /\ lost[k] \in Nat
          /\ Occurrences(sending'.kinds, k) \in Nat
      BY <1>t, <2>2, <2>3, UncountedType, OccurrencesType
    <3>4. Occurrences(channel', k) \in Nat /\ lost'[k] \in Nat
      BY <2>5, OccurrencesType DEF BusTypes
    <3> HIDE DEF e
    <3> QED BY <3>1, <3>2, <3>3, <3>4, UncountedIs
  <2> QED BY <1>t, <2>1, <2>4, <2>5, <2>6 DEF AccountInv, CountersAccount, Watching
<1>6. CASE Background
  <2>1. Claims' = Claims /\ Swept' = Swept
    BY <1>6, <1>t, OtherTally DEF Background
  <2> QED BY <1>0, <1>6, <2>1 DEF Background, Silent, metricsOnlyVars
<1>7. CASE Count
  <2>1. PICK e \in EventKind :
          /\ Recv(e) /\ UNCHANGED <<queueVars, sending>>
          /\ matches' = IF e = "Matched" THEN matches + 1 ELSE matches
          /\ expired' = IF e = "Expired" THEN expired + 1 ELSE expired
    BY <1>7 DEF Count
  <2>2. Claims' = Claims /\ Swept' = Swept
    BY <1>t, <2>1, OtherTally
  <2>3. BusTypes'
    BY <1>t, <1>n, <2>1, RecvTakesOne DEF BusTypes, Watching, NoSend
  <2>4. ASSUME NEW k \in Watching
        PROVE  Uncounted(k) = Uncounted(k)' + (IF e = k THEN 1 ELSE 0) /\ Uncounted(k)' \in Nat
    <3>1. /\ Occurrences(channel, k)
                = Occurrences(channel', k) + (IF e = k THEN 1 ELSE 0)
          /\ lost'[k] = lost[k] /\ sending' = sending
      BY <1>t, <2>1, RecvTakesOne
    <3>2. /\ Occurrences(channel', k) \in Nat /\ lost[k] \in Nat
          /\ Occurrences(sending.kinds, k) \in Nat
      BY <1>t, <2>3, UncountedType, OccurrencesType DEF BusTypes
    <3> QED BY <3>1, <3>2, UncountedIs
  <2>5. /\ Uncounted("Matched") = Uncounted("Matched")' + (IF e = "Matched" THEN 1 ELSE 0)
        /\ Uncounted("Expired") = Uncounted("Expired")' + (IF e = "Expired" THEN 1 ELSE 0)
        /\ Uncounted("Matched")' \in Nat /\ Uncounted("Expired")' \in Nat
    BY <2>4 DEF Watching
  <2>6. matches' + Uncounted("Matched")' = matches + Uncounted("Matched")
        /\ expired' + Uncounted("Expired")' = expired + Uncounted("Expired")
    BY <1>n, <2>1, <2>5
  <2> QED BY <1>t, <2>2, <2>3, <2>6 DEF AccountInv, CountersAccount
<1>8. CASE SkipLost
  <2>1. UNCHANGED <<queueVars, channel, lost, sending, matches, expired>>
    BY <1>8 DEF SkipLost, RecvLagged
  <2>2. Claims' = Claims /\ Swept' = Swept
    BY <1>t, <2>1, OtherTally
  <2>3. BusTypes'
    BY <1>t, <2>1 DEF BusTypes, NoSend
  <2>4. \A k : Uncounted(k)' = Uncounted(k)
    BY <2>1, UncountedIs
  <2> QED BY <1>t, <2>1, <2>2, <2>3, <2>4 DEF AccountInv, CountersAccount
<1>9. CASE HealthCheck \/ UNCHANGED metricsVars
  <2>1. UNCHANGED <<queueVars, busVars, sending, matches, expired>>
    BY <1>9 DEF HealthCheck, ReadSize, ReadMatches, ReadExpired, Report, metricsVars,
       metricsOnlyVars
  <2>2. Claims' = Claims /\ Swept' = Swept
    BY <1>t, <2>1, OtherTally
  <2> QED BY <1>0, <2>1, <2>2
<1> QED
  BY <1>1, <1>2, <1>3, <1>4, <1>5, <1>6, <1>7, <1>8, <1>9 DEF MetricsNext, Call, MetricsTask

LEMMA AccountInvHolds == MetricsSpec => [](QueueTallies /\ AccountInv)
<1>1. MetricsInit => QueueTallies /\ AccountInv
  BY TypeInvInit, ClaimInvInit, SweepInvInit, AccountInvInit DEF MetricsInit, QueueTallies
<1>2. QueueTallies /\ AccountInv /\ [MetricsNext]_metricsVars => (QueueTallies /\ AccountInv)'
  BY TypeInvStep, ClaimInvStep, SweepInvStep, AccountInvStep, MetricsStepIsQueueStep
     DEF QueueTallies
<1> QED BY <1>1, <1>2, PTL DEF MetricsSpec

\* Every match and every expiry is counted, on its way to the counter, or was
\* overwritten in the ring; none is counted twice, however large the queue and the
\* ring and however the task lags (service.rs:61-90, q_core.rs:73).
THEOREM EventsAreAccountedFor == MetricsSpec => []CountersAccount
<1>1. AccountInv => CountersAccount
  BY DEF AccountInv
<1> QED BY <1>1, AccountInvHolds, PTL

-----------------------------------------------------------------------------
(* A health report never runs ahead *)

HealthTypes ==
    health \in [stage : {"none", "size", "matches", "report"},
                size : Nat, matches : Nat, expired : Nat]

HealthInv == HealthTypes /\ ReportsArePossible

\* Claims and expiries are never taken back.
LEMMA TalliesGrow ==
    ASSUME QueueTallies, [QueueNext]_queueVars
    PROVE  /\ Cardinality(Claims) <= Cardinality(Claims')
           /\ Cardinality(Swept) <= Cardinality(Swept')
           /\ Cardinality(Claims') \in Nat /\ Cardinality(Swept') \in Nat
<1>1. TypeInv /\ ClaimInv /\ SweepInv /\ TypeInv'
  BY TypeInvStep DEF QueueTallies
<1>2. Claims \subseteq Claims' /\ Swept \subseteq Swept'
  <2>1. ASSUME NEW r \in Request, Claim(r) PROVE Claims \subseteq Claims' /\ Swept \subseteq Swept'
    BY <1>1, <2>1, ClaimTally
  <2>2. ASSUME NEW r \in Request, CleanupReport(r)
        PROVE  Claims \subseteq Claims' /\ Swept \subseteq Swept'
    BY <1>1, <2>2, SweepTally
  <2> QED BY <1>1, <2>1, <2>2, OtherTally DEF QueueNext
<1>3. IsFiniteSet(Claims') /\ IsFiniteSet(Swept')
      /\ Cardinality(Claims') \in Nat /\ Cardinality(Swept') \in Nat
  <2>1. IsFiniteSet(Request \X Request) /\ IsFiniteSet(Request)
    BY QueueAssumption, FS_Product
  <2>2. Claims' \subseteq Request \X Request /\ Swept' \subseteq Request
    BY DEF Claims, Swept
  <2>3. IsFiniteSet(Claims') /\ IsFiniteSet(Swept')
    BY <2>1, <2>2, FS_Subset
  <2> QED BY <2>3, FS_CardinalityType
<1> QED BY <1>2, <1>3, FS_Subset

LEMMA HealthInvInit == MetricsInit => HealthInv
<1> SUFFICES ASSUME MetricsInit PROVE HealthInv
  OBVIOUS
<1>1. health = [stage |-> "none", size |-> 0, matches |-> 0, expired |-> 0]
  BY DEF MetricsInit, NoCheck, Check
<1>2. TypeInv
  BY TypeInvInit DEF MetricsInit
<1>3. Cardinality(Claims) \in Nat /\ Cardinality(Swept) \in Nat
  BY <1>2, TalliesFinite
<1>4. MaxSize \in Nat \ {0} /\ Callers \in Nat \ {0}
  BY QueueAssumption
<1> QED BY <1>1, <1>3, <1>4 DEF HealthInv, HealthTypes, ReportsArePossible

\* The entries of the map, whatever is about to be inserted.
LEMMA SizeBounded ==
    ASSUME TypeInv, OvershootInv
    PROVE  Cardinality(requests) \in Nat /\ Cardinality(requests) <= MaxSize + Callers - 1
<1> DEFINE Held == requests \union {r \in Request : step[r] = "insert"}
<1>1. IsFiniteSet(Held) /\ requests \in SUBSET Held /\ MaxSize + Callers - 1 \in Int
  BY QueueAssumption, FS_Subset DEF TypeInv, TypeOK
<1>2. Cardinality(Held) <= MaxSize + Callers - 1
  BY DEF OvershootInv, Overshoot
<1> HIDE DEF Held
<1>3. Cardinality(requests) <= MaxSize + Callers - 1
  BY <1>1, <1>2, CardinalityMonotone
<1> QED BY <1>1, <1>3, FS_Subset, FS_CardinalityType

LEMMA HealthInvStep ==
    QueueTallies /\ OvershootInv /\ AccountInv /\ HealthInv /\ [MetricsNext]_metricsVars
        => HealthInv'
<1> SUFFICES ASSUME QueueTallies, OvershootInv, AccountInv, HealthInv,
                    [MetricsNext]_metricsVars
             PROVE  HealthInv'
  OBVIOUS
<1> USE DEF HealthInv, HealthTypes
<1>t. /\ health \in [stage : {"none", "size", "matches", "report"},
                     size : Nat, matches : Nat, expired : Nat]
      /\ TypeInv /\ BusTypes /\ MaxSize \in Nat \ {0} /\ Callers \in Nat \ {0}
  BY QueueAssumption DEF QueueTallies, AccountInv
<1>g. /\ Cardinality(Claims) <= Cardinality(Claims')
      /\ Cardinality(Swept) <= Cardinality(Swept')
      /\ Cardinality(Claims) \in Nat /\ Cardinality(Swept) \in Nat
      /\ Cardinality(Claims') \in Nat /\ Cardinality(Swept') \in Nat
  BY <1>t, MetricsStepIsQueueStep, TalliesGrow, TalliesFinite
\* What is counted has happened.
<1>c. matches \in Nat /\ expired \in Nat
      /\ matches <= 2 * Cardinality(Claims) /\ expired <= Cardinality(Swept)
  <2>1. Uncounted("Matched") \in Nat /\ Uncounted("Expired") \in Nat
    BY <1>t, UncountedType DEF Watching
  <2>2. matches + Uncounted("Matched") = 2 * Cardinality(Claims)
        /\ expired + Uncounted("Expired") = Cardinality(Swept)
    BY DEF AccountInv, CountersAccount
  <2>3. matches \in Nat /\ expired \in Nat
    BY <1>t DEF BusTypes
  <2> QED BY <1>g, <2>1, <2>2, <2>3
<1>0. CASE UNCHANGED health
  BY <1>0, <1>t, <1>g DEF ReportsArePossible
<1>1. CASE ReadSize
  <2>1. health' = [stage |-> "size", size |-> Cardinality(requests), matches |-> 0, expired |-> 0]
    BY <1>1 DEF ReadSize, Check
  <2>2. Cardinality(requests) \in Nat /\ Cardinality(requests) <= MaxSize + Callers - 1
    BY <1>t, SizeBounded
  <2> QED BY <1>g, <2>1, <2>2 DEF ReportsArePossible
<1>2. CASE ReadMatches
  <2>1. health' = [health EXCEPT !.stage = "matches", !.matches = matches]
    BY <1>2 DEF ReadMatches
  <2>2. HealthTypes'
    BY <1>c, <1>t, <2>1
  <2>3. /\ health'.matches = matches /\ health'.expired = health.expired /\ health'.size = health.size
        /\ health.expired \in Nat /\ health.size \in Nat
    BY <1>t, <2>1
  <2> QED BY <1>c, <1>g, <2>2, <2>3 DEF ReportsArePossible
<1>3. CASE ReadExpired
  <2>1. health' = [health EXCEPT !.stage = "report", !.expired = expired]
    BY <1>3 DEF ReadExpired
  <2>2. HealthTypes'
    BY <1>c, <1>t, <2>1
  <2>3. /\ health'.expired = expired /\ health'.matches = health.matches /\ health'.size = health.size
        /\ health.matches \in Nat /\ health.size \in Nat
    BY <1>t, <2>1
  <2> QED BY <1>c, <1>g, <2>2, <2>3 DEF ReportsArePossible
<1>4. CASE Report
  <2>1. health' = [stage |-> "none", size |-> 0, matches |-> 0, expired |-> 0]
    BY <1>4 DEF Report, NoCheck, Check
  <2> QED BY <1>g, <1>t, <2>1 DEF ReportsArePossible
<1>5. ASSUME NEW r \in Request, Call(r) PROVE HealthInv'
  BY <1>0, <1>5 DEF Call, LockedSection, ClaimLocks, NotifyUnlocked, Reported, Sends, Silent,
     metricsOnlyVars
<1>6. CASE Background \/ SendNext \/ MetricsTask \/ UNCHANGED metricsVars
  BY <1>0, <1>6 DEF Background, SendNext, MetricsTask, Count, SkipLost, Silent,
     metricsOnlyVars, metricsVars
<1> QED BY <1>1, <1>2, <1>3, <1>4, <1>5, <1>6 DEF MetricsNext, HealthCheck

\* A health check reads the size of the queue and the two counters one after the
\* other, with calls, sweeps and the metrics task in between; what it reports has
\* happened all the same, and the size is within the overshoot (service.rs:531-542).
THEOREM ReportsNeverRunAhead == MetricsSpec => []ReportsArePossible
<1>1. MetricsInit => QueueTallies /\ OvershootInv /\ AccountInv /\ HealthInv
  BY TypeInvInit, ClaimInvInit, SweepInvInit, OvershootInit, AccountInvInit, HealthInvInit
     DEF MetricsInit, QueueTallies
<1>2. QueueTallies /\ OvershootInv /\ AccountInv /\ HealthInv /\ [MetricsNext]_metricsVars
        => (QueueTallies /\ OvershootInv /\ AccountInv /\ HealthInv)'
  BY TypeInvStep, ClaimInvStep, SweepInvStep, OvershootStep, AccountInvStep, HealthInvStep,
     MetricsStepIsQueueStep DEF QueueTallies
<1>3. HealthInv => ReportsArePossible
  BY DEF HealthInv
<1> QED BY <1>1, <1>2, <1>3, PTL DEF MetricsSpec

=============================================================================
