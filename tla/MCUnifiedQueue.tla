--------------------------- MODULE MCUnifiedQueue ---------------------------
(* A small instance of UnifiedQueue: what callers ask for, and the geography. *)
EXTENDS UnifiedQueue, TLC

CONSTANTS k1, p1, here

MCDistance == [pq \in {here} \X {here} |-> 0]

Ask(type, key, loc, payload, ttl) ==
    [type |-> type, key |-> key, location |-> loc, payload |-> payload, ttl |-> ttl]

\* A sender, a receiver that meets it by key or by place, and one without a key
\* that meets it by place only and lives longer.
MCSendReceive ==
    {Ask("Send", k1, here, p1, 1), Ask("Receive", k1, here, NoPayload, 1),
     Ask("Receive", NoKey, here, NoPayload, 2)}

Symmetry == Permutations(Request)
=============================================================================
