-------------------------- MODULE MCServiceMetrics --------------------------
(* Two Bumps that suit each other, and an event channel of two slots.         *)
EXTENDS ServiceMetrics, TLC

CONSTANTS k1, p1

MCDistance == [pq \in {} |-> 0]

MCBumps ==
    {[type |-> "Bump", key |-> k1, location |-> NoLocation, payload |-> p1, ttl |-> 1]}
=============================================================================
