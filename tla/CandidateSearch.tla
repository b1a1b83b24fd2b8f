--------------------------- MODULE CandidateSearch ---------------------------
(***************************************************************************)
(* One call of find_matching_request (src/src/queue/q_matching.rs): under   *)
(* the read lock an iterator walks over the map in the arbitrary order of   *)
(* a HashMap, filters the entries and keeps the one with the highest score  *)
(* (max_by_key: on a tie the later one).  The map does not change during    *)
(* the walk, so the walk is a loop over a constant pool; UnifiedQueue uses  *)
(* its result, Best, as one step.                                           *)
(***************************************************************************)
EXTENDS MatchScore

CONSTANTS
    Entry,      \* ids of the entries in the map
    NoEntry,    \* the search found nothing
    Bodies      \* the requests considered: a subset of QueuedRequest

ASSUME SearchAssumption == NoEntry \notin Entry /\ Bodies \subseteq QueuedRequest

VARIABLES
    query,      \* the request that searches
    clock,      \* the time read after the lock was taken
    pool,       \* the entries, by id
    todo,       \* ids the iterator has still to yield
    best        \* the maximum so far

vars == <<query, clock, pool, todo, best>>

\* The reference: every admissible entry that no admissible entry outscores.
Admitted(S) == {e \in S : Admissible(query, pool[e], clock)}
Best(S) ==
    {e \in Admitted(S) :
        \A f \in Admitted(S) : Score(query, pool[f]) <= Score(query, pool[e])}

TypeOK ==
    /\ query \in QueuedRequest
    /\ clock \in Nat
    /\ pool \in [Entry -> QueuedRequest]
    /\ todo \subseteq Entry
    /\ best \in Entry \union {NoEntry}

Init ==
    /\ query \in Bodies
    /\ clock = query.timestamp
    /\ pool \in [Entry -> Bodies]
    /\ todo = Entry
    /\ best = NoEntry

\* The iterator yields an entry that a filter drops.
Skip(e) ==
    /\ ~Admissible(query, pool[e], clock)
    /\ UNCHANGED best

\* Variants: the comparison reversed; the entry kept instead of its id.
KeepLowest(e) ==
    /\ Admissible(query, pool[e], clock)
    /\ IF best = NoEntry
       THEN best' = e
       ELSE best' = IF Score(query, pool[e]) <= Score(query, pool[best])
                    THEN e ELSE best

KeepBody(e) ==
    /\ Admissible(query, pool[e], clock)
    /\ best' = pool[e]

\* max_by_key keeps the last of equal maxima.
Keep(e) ==
    /\ Admissible(query, pool[e], clock)
    /\ IF best = NoEntry
       THEN best' = e
       ELSE best' = IF Score(query, pool[e]) >= Score(query, pool[best])
                    THEN e ELSE best

Visit(e) ==
    /\ e \in todo
    /\ todo' = todo \ {e}
    /\ Skip(e) \/ Keep(e)
    /\ UNCHANGED <<query, clock, pool>>

Next == \E e \in Entry : Visit(e)

Spec == Init /\ [][Next]_vars

-----------------------------------------------------------------------------
\* The loop invariant: what is kept is a best entry of the part walked over,
\* and nothing is kept only if that part has no admissible entry.
\* (q_matching.rs:41-88, whatever the order of the HashMap)
KeepsBest ==
    LET seen == Entry \ todo
    IN  IF best = NoEntry THEN Admitted(seen) = {} ELSE best \in Best(seen)

\* Two requests with different keys are never paired, however near and however
\* simultaneous they are (matching.rs:114-120).
KeysNeverConflict ==
    best # NoEntry => ~(Keyed(query, pool[best]) /\ query.key # pool[best].key)

\* Who searches does not matter: had the chosen entry searched while the query
\* was in the map, it would have admitted the query with the same score.  The
\* queue relies on it: of two compatible requests either one may come second.
ChoiceIsMutual ==
    best # NoEntry =>
        /\ Score(pool[best], query) = Score(query, pool[best])
        /\ query.expires > clock => Admissible(pool[best], query, clock)
=============================================================================
