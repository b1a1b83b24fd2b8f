-------------------------- MODULE MCMatchingService --------------------------
(* Small instances of MatchingService.                                        *)
EXTENDS MatchingService, TLC

CONSTANTS k1, k2, p1, p2, here, nowhere

MCDistance == [pq \in {here, nowhere} \X {here, nowhere} |-> 0]

Ask(type, key, loc, payload, ttl) ==
    [type |-> type, key |-> key, location |-> loc, payload |-> payload, ttl |-> ttl]

\* A sender, a receiver that suits it, and two requests that are refused: one
\* has neither key nor place, one is at an impossible place.
MCSendReceive ==
    {Ask("Send", k1, here, p1, 1), Ask("Receive", k1, here, NoPayload, 1),
     Ask("Receive", NoKey, NoLocation, NoPayload, 1),
     Ask("Send", k1, nowhere, p1, 1)}

\* Bumps with different payloads.
MCBumps == {Ask("Bump", k1, here, p1, 1), Ask("Bump", k1, NoLocation, p2, 1)}

\* Bumps at one place, whose keys may conflict.
MCRivals == {Ask("Bump", k1, here, p1, 1), Ask("Bump", k2, here, p1, 1)}

Symmetry == Permutations(Request) \union Permutations(Worker)
=============================================================================
