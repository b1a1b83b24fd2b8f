------------------------- MODULE MCQueueRefinement -------------------------
(* The queue with Bump callers, for the refinement and the payload exchange. *)
EXTENDS QueueRefinement, TLC

CONSTANTS k1, p1, p2, here

MCDistance == [pq \in {here} \X {here} |-> 0]

MCBumps ==
    {[type |-> "Bump", key |-> k1, location |-> NoLocation, payload |-> p1, ttl |-> 1],
     [type |-> "Bump", key |-> k1, location |-> NoLocation, payload |-> p2, ttl |-> 2]}

Symmetry == Permutations(Request)
=============================================================================
