----------------------------- MODULE MatchScore -----------------------------
(***************************************************************************)
(* The compatibility rule of src/src/queue/matching.rs                      *)
(* (calculate_match_score) and the filters find_matching_request puts in    *)
(* front of it, as operators on the data of two queued requests.            *)
(*                                                                          *)
(* Times and distances are whole ticks and whole length units; the code's   *)
(* floating-point quotients are truncated here exactly (\div), where the    *)
(* code truncates a 64-bit approximation of the same quotient.  A location  *)
(* is a name, and Distance stands for the haversine distance.               *)
(***************************************************************************)
EXTENDS Integers

CONSTANTS
    Key,                \* custom keys
    NoKey,              \* custom_key: None
    Location,           \* places a device can report
    NoLocation,         \* location: None
    Distance,           \* haversine distance of two places
    Payload,            \* payloads
    NoPayload,          \* payload: None
    MaxTimeDiff,        \* max_time_diff_ms
    MaxDistance,        \* max_distance_meters
    MinScoreWithKey,    \* min_score_with_key
    KeyBonus            \* custom_key_match_bonus

\* MatchingConfig::validate refuses a window or a radius that is not positive;
\* the haversine formula is symmetric in its two points.
ASSUME ScoreAssumption ==
    /\ MaxTimeDiff \in Nat \ {0}
    /\ MaxDistance \in Nat \ {0}
    /\ MinScoreWithKey \in Nat
    /\ KeyBonus \in Nat
    /\ Distance \in [Location \X Location -> Nat]
    /\ \A p, q \in Location : Distance[<<p, q>>] = Distance[<<q, p>>]

RequestType == {"Send", "Receive", "Bump"}

\* A QueuedRequest without its channel.  The fields state and reserved_by are
\* left out: an entry of the map is always Active and unreserved, for only the
\* copies made after its removal are marked Matched.
QueuedRequest ==
    [type      : RequestType,
     key       : Key \union {NoKey},
     location  : Location \union {NoLocation},
     payload   : Payload \union {NoPayload},
     timestamp : Nat,
     expires   : Nat]

Opposite(type) ==
    CASE type = "Send"    -> "Receive"
      [] type = "Receive" -> "Send"
      [] type = "Bump"    -> "Bump"

Abs(n) == IF n < 0 THEN -n ELSE n

\* Variant: the difference without its absolute value.
SignedTimeDiff(a, b) == a.timestamp - b.timestamp

TimeDiff(a, b) == Abs(a.timestamp - b.timestamp)

\* 100 points for simultaneous requests, 0 at the edge of the window.
TimeScore(a, b) == 100 - (TimeDiff(a, b) * 100) \div MaxTimeDiff

Located(a, b) == a.location # NoLocation /\ b.location # NoLocation

Near(a, b) ==
    Located(a, b) /\ Distance[<<a.location, b.location>>] <= MaxDistance

LocationScore(a, b) ==
    IF Near(a, b)
    THEN 100 - (Distance[<<a.location, b.location>>] * 100) \div MaxDistance
    ELSE 0

Keyed(a, b) == a.key # NoKey /\ b.key # NoKey

KeyScore(a, b) == IF Keyed(a, b) /\ a.key = b.key THEN KeyBonus ELSE 0

Score(a, b) == TimeScore(a, b) + LocationScore(a, b) + KeyScore(a, b)

\* min_score_without_key is a parameter the function ignores.
Threshold(a, b) ==
    IF Keyed(a, b) THEN MinScoreWithKey \div 2 ELSE MinScoreWithKey

\* Variant: a common key is a bonus only, a conflict of keys no obstacle.
CompatibleAnyKey(a, b) ==
    /\ a.type = b.type => a.type = "Bump"
    /\ TimeDiff(a, b) <= MaxTimeDiff
    /\ Near(a, b) \/ Keyed(a, b)
    /\ Score(a, b) >= Threshold(a, b)

\* calculate_match_score returns Some, for two requests with different ids.
Compatible(a, b) ==
    /\ a.type = b.type => a.type = "Bump"
    /\ TimeDiff(a, b) <= MaxTimeDiff
    /\ Keyed(a, b) => a.key = b.key
    /\ Near(a, b) \/ Keyed(a, b)
    /\ Score(a, b) >= Threshold(a, b)

\* The type filter of find_matching_request: opposite types, or one type and
\* one key (which calculate_match_score then refuses unless both are Bump).
TypesMeet(a, b) ==
    \/ b.type = Opposite(a.type)
    \/ b.type = a.type /\ Keyed(a, b) /\ b.key = a.key

\* What the search of request a at time t accepts in another entry b.
Admissible(a, b, t) == b.expires > t /\ TypesMeet(a, b) /\ Compatible(a, b)

=============================================================================
