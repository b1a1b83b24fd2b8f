-------------------------- MODULE MatchScoreProofs --------------------------
(***************************************************************************)
(* The compatibility rule is symmetric: which of two requests does the      *)
(* searching changes neither the score nor the verdict.                     *)
(***************************************************************************)
EXTENDS MatchScore, TLAPS

LEMMA TimeDiffSymmetric ==
    ASSUME NEW a \in QueuedRequest, NEW b \in QueuedRequest
    PROVE  TimeDiff(a, b) = TimeDiff(b, a) /\ TimeDiff(a, b) \in Nat
BY DEF TimeDiff, Abs, QueuedRequest

LEMMA LocationSymmetric ==
    ASSUME NEW a \in QueuedRequest, NEW b \in QueuedRequest
    PROVE  Near(a, b) = Near(b, a) /\ LocationScore(a, b) = LocationScore(b, a)
<1>1. CASE Located(a, b)
  <2>1. Distance[<<a.location, b.location>>] = Distance[<<b.location, a.location>>]
    BY <1>1, ScoreAssumption DEF Located, QueuedRequest
  <2>2. Located(b, a)
    BY <1>1 DEF Located
  <2>3. Near(a, b) <=> Near(b, a)
    BY <1>1, <2>1, <2>2 DEF Near
  <2> QED BY <2>1, <2>3 DEF LocationScore, Near
<1>2. CASE ~Located(a, b)
  BY <1>2 DEF Located, Near, LocationScore
<1> QED BY <1>1, <1>2

LEMMA KeySymmetric ==
    ASSUME NEW a, NEW b
    PROVE  Keyed(a, b) = Keyed(b, a) /\ KeyScore(a, b) = KeyScore(b, a)
           /\ Threshold(a, b) = Threshold(b, a)
BY DEF Keyed, KeyScore, Threshold

\* Either request gives the other the same score (matching.rs:34-113).
THEOREM ScoreSymmetric ==
    ASSUME NEW a \in QueuedRequest, NEW b \in QueuedRequest
    PROVE  Score(a, b) = Score(b, a)
BY TimeDiffSymmetric, LocationSymmetric, KeySymmetric DEF Score, TimeScore

\* The type filter and the score's verdict, without the expiry of either side,
\* do not depend on the order of the two requests (matching.rs:5-164).
THEOREM SuitsSymmetric ==
    ASSUME NEW a \in QueuedRequest, NEW b \in QueuedRequest,
           TypesMeet(a, b), Compatible(a, b)
    PROVE  TypesMeet(b, a) /\ Compatible(b, a)
<1>1. TypesMeet(b, a)
  BY DEF TypesMeet, Opposite, Keyed, QueuedRequest, RequestType
<1>2. Compatible(b, a)
  BY TimeDiffSymmetric, LocationSymmetric, KeySymmetric, ScoreSymmetric DEF Compatible
<1> QED BY <1>1, <1>2

\* A search that admits b for a would, started by b while a is alive, admit a
\* (q_matching.rs:43-86).
THEOREM AdmissibleSymmetric ==
    ASSUME NEW a \in QueuedRequest, NEW b \in QueuedRequest, NEW t \in Nat,
           a.expires > t, Admissible(a, b, t)
    PROVE  Admissible(b, a, t)
BY SuitsSymmetric DEF Admissible
=============================================================================
