-------------------------- MODULE MCCandidateSearch --------------------------
(* A small instance of CandidateSearch with the production scores.            *)
EXTENDS CandidateSearch

CONSTANTS e1, e2, here, near, far, k1, k2, p1

\* A line of three places: here and near are inside the radius, far is not.
Position == [l \in Location |-> CASE l = here -> 0 [] l = near -> 3 [] l = far -> 9]
MCDistance == [pq \in Location \X Location |-> Abs(Position[pq[1]] - Position[pq[2]])]

Body(type, key, loc, payload, time) ==
    [type |-> type, key |-> key, location |-> loc, payload |-> payload,
     timestamp |-> time, expires |-> time + 600]

\* Times around the window of 1500 (one request is at its edge, one beyond),
\* an entry that has expired when the latest query looks, all key and location
\* combinations that decide a threshold.
MCBodies ==
    {Body("Send", key, loc, p1, 1000) :
        key \in {k1, NoKey}, loc \in {here, far, NoLocation}}
    \union {Body("Receive", key, loc, NoPayload, time) :
        key \in {k1, k2}, loc \in {NoLocation, near}, time \in {1000, 1500}}
    \union {Body("Receive", NoKey, loc, NoPayload, time) :
        loc \in {here, near}, time \in {100, 1400}}
    \union {Body("Bump", key, here, p1, time) :
        key \in {k1, NoKey}, time \in {0, 1000, 1500}}

=============================================================================
