------------------------ MODULE CandidateSearchProofs ------------------------
(***************************************************************************)
(* Theorems about CandidateSearch for every map, every order of iteration   *)
(* and every configuration of the scores.                                   *)
(***************************************************************************)
EXTENDS CandidateSearch, MatchScoreProofs

\* Scores are integers, so any two can be compared (matching.rs:52, 86).
LEMMA ScoreType ==
    ASSUME NEW a \in QueuedRequest, NEW b \in QueuedRequest
    PROVE  Score(a, b) \in Int
<1>1. TimeScore(a, b) \in Int
  BY TimeDiffSymmetric, ScoreAssumption DEF TimeScore
<1>2. LocationScore(a, b) \in Int
  <2>1. CASE Near(a, b)
    <3>1. Distance[<<a.location, b.location>>] \in Nat
      BY <2>1, ScoreAssumption DEF Near, Located, QueuedRequest
    <3> QED BY <2>1, <3>1, ScoreAssumption DEF LocationScore
  <2>2. CASE ~Near(a, b)
    BY <2>2 DEF LocationScore
  <2> QED BY <2>1, <2>2
<1>3. KeyScore(a, b) \in Int
  BY ScoreAssumption DEF KeyScore
<1> QED BY <1>1, <1>2, <1>3 DEF Score

SearchInv == TypeOK /\ KeepsBest

LEMMA SearchInvInit == Init => SearchInv
BY SearchAssumption DEF Init, SearchInv, TypeOK, KeepsBest, Admitted, QueuedRequest

\* Visiting an entry extends the part walked over by that entry.
LEMMA SearchInvStep == SearchInv /\ [Next]_vars => SearchInv'
<1> SUFFICES ASSUME SearchInv, [Next]_vars PROVE SearchInv'
  OBVIOUS
<1>t. /\ query \in QueuedRequest /\ pool \in [Entry -> QueuedRequest] /\ todo \subseteq Entry
      /\ best \in Entry \union {NoEntry} /\ NoEntry \notin Entry
  BY SearchAssumption DEF SearchInv, TypeOK
<1>1. ASSUME NEW e \in Entry, Visit(e) PROVE SearchInv'
  <2>1. /\ e \in todo /\ todo' = todo \ {e} /\ UNCHANGED <<query, clock, pool>>
        /\ Entry \ todo' = (Entry \ todo) \union {e}
    BY <1>1 DEF Visit
  <2>2. TypeOK'
    BY <1>1, <2>1 DEF SearchInv, TypeOK, Visit, Skip, Keep
  <2>3. \A x, y \in Entry :
           Score(query, pool[x]) \in Int /\ Score(query, pool[y]) \in Int
    BY <1>t, ScoreType
  <2> DEFINE sc(x) == Score(query, pool[x])
             ok(x) == Admissible(query, pool[x], clock)
  <2>4. KeepsBest <=>
          IF best = NoEntry
          THEN \A x \in Entry \ todo : ~ok(x)
          ELSE /\ best \in Entry \ todo /\ ok(best)
               /\ \A x \in Entry \ todo : ok(x) => sc(x) <= sc(best)
    BY DEF KeepsBest, Best, Admitted
  <2>5. KeepsBest' <=>
          IF best' = NoEntry
          THEN \A x \in (Entry \ todo) \union {e} : ~ok(x)
          ELSE /\ best' \in (Entry \ todo) \union {e} /\ ok(best')
               /\ \A x \in (Entry \ todo) \union {e} : ok(x) => sc(x) <= sc(best')
    BY <2>1 DEF KeepsBest, Best, Admitted
  <2>6. KeepsBest
    BY DEF SearchInv
  <2>7. CASE Skip(e)
    <3>1. best' = best /\ ~ok(e)
      BY <2>7 DEF Skip
    <3> HIDE DEF sc, ok
    <3> QED BY <2>2, <2>4, <2>5, <2>6, <3>1 DEF SearchInv
  <2>8. CASE Keep(e)
    <3>1. ok(e) /\ IF best = NoEntry
                   THEN best' = e
                   ELSE best' = IF sc(e) >= sc(best) THEN e ELSE best
      BY <2>8 DEF Keep
    <3>2. \A x \in Entry : sc(x) \in Int
      BY <2>3
    <3> HIDE DEF sc, ok
    <3>3. CASE best = NoEntry
      BY <1>t, <2>2, <2>4, <2>5, <2>6, <3>1, <3>2, <3>3 DEF SearchInv
    <3>4. CASE best # NoEntry /\ sc(e) >= sc(best)
      BY <1>t, <2>2, <2>4, <2>5, <2>6, <3>1, <3>2, <3>4 DEF SearchInv
    <3>5. CASE best # NoEntry /\ ~(sc(e) >= sc(best))
      BY <1>t, <2>2, <2>4, <2>5, <2>6, <3>1, <3>2, <3>5 DEF SearchInv
    <3> QED BY <3>3, <3>4, <3>5
  <2> QED BY <1>1, <2>7, <2>8 DEF Visit
<1>2. CASE UNCHANGED vars
  BY <1>2 DEF vars, SearchInv, TypeOK, KeepsBest, Best, Admitted
<1> QED BY <1>1, <1>2 DEF Next

\* The search keeps the id of an entry or none, and leaves map, query and clock
\* alone (q_matching.rs:10-12, 40-88).
THEOREM SearchTypes == Spec => []TypeOK
<1>1. SearchInv => TypeOK
  BY DEF SearchInv
<1> QED BY <1>1, SearchInvInit, SearchInvStep, PTL DEF Spec

\* Whatever the order in which the HashMap yields its entries, the search keeps
\* a best admissible entry of those it has seen (q_matching.rs:41-88).
THEOREM SearchKeepsBest == Spec => []KeepsBest
<1>1. SearchInv => KeepsBest
  BY DEF SearchInv
<1> QED BY <1>1, SearchInvInit, SearchInvStep, PTL DEF Spec

LEMMA ChosenIsAdmissible ==
    ASSUME SearchInv, best # NoEntry
    PROVE  /\ query \in QueuedRequest /\ pool[best] \in QueuedRequest /\ clock \in Nat
           /\ Admissible(query, pool[best], clock)
BY SearchAssumption DEF SearchInv, TypeOK, KeepsBest, Best, Admitted

\* A chosen entry never has a key that differs from the query's
\* (matching.rs:114-120).
THEOREM NoKeyConflict == Spec => []KeysNeverConflict
<1>1. SearchInv => KeysNeverConflict
  BY ChosenIsAdmissible DEF KeysNeverConflict, Admissible, Compatible
<1> QED BY <1>1, SearchInvInit, SearchInvStep, PTL DEF Spec

\* Whoever of two partners searches, the verdict and the score are the same
\* (matching.rs:5-164, q_matching.rs:43-86).
THEOREM ChoicesAreMutual == Spec => []ChoiceIsMutual
<1>1. SearchInv => ChoiceIsMutual
  <2> SUFFICES ASSUME SearchInv, best # NoEntry
               PROVE  /\ Score(pool[best], query) = Score(query, pool[best])
                      /\ query.expires > clock => Admissible(pool[best], query, clock)
    BY DEF ChoiceIsMutual
  <2> QED BY ChosenIsAdmissible, ScoreSymmetric, AdmissibleSymmetric
<1> QED BY <1>1, SearchInvInit, SearchInvStep, PTL DEF Spec
=============================================================================
