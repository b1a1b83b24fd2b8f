-------------------------- MODULE QueueRefinement --------------------------
(***************************************************************************)
(* The refinement mapping from UnifiedQueue to ClaimBoard: a request is     *)
(* posted when it is inserted into the map and taken when its entry is      *)
(* removed under the write lock of atomic_match.                            *)
(***************************************************************************)
EXTENDS UnifiedQueue

Posted(r) == step[r] \notin {Idle, "check", "insert", "full"}

boardTerms == [r \in Request |-> IF Posted(r) THEN body[r] ELSE NoBody]

boardPartner ==
    [r \in Request |->
        IF step[r] \in {"notify", "matched"} THEN candidate[r] ELSE NoRequest]

BoardSuits(a, b) == TypesMeet(a, b) /\ Compatible(a, b)

\* The bodies that can occur, a finite set for finite parameters.
BoardTerms ==
    {[type |-> o.type, key |-> o.key, location |-> o.location,
      payload |-> o.payload, timestamp |-> t, expires |-> t + o.ttl] :
        o \in Offer, t \in 0..Horizon}

Board == INSTANCE ClaimBoard
    WITH board <- requests, terms <- boardTerms, partner <- boardPartner,
         Terms <- BoardTerms, NoTerms <- NoBody, Suits <- BoardSuits

\* The queue is a claim board: whatever the interleaving of its critical
\* sections, each call either posts, takes one suitable request that was on
\* the board at that instant, withdraws, or does nothing a caller can see
\* (q_impl.rs:14-179, q_matching.rs:111-420).
ImplementsClaimBoard == Board!BoardSpec
=============================================================================
