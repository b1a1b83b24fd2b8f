-------------------------- MODULE ServiceRefinement --------------------------
(***************************************************************************)
(* MatchingService implements Rendezvous: a handler is an open call until   *)
(* it responds or is dropped, and a claim is a match.                       *)
(***************************************************************************)
EXTENDS MatchingService

serviceCall ==
    [r \in Request |->
        CASE handler[r] = "new" -> "new"
          [] handler[r] \in {"adding", "waiting", "removing"} -> "open"
          [] handler[r] = "dropped" -> "left"
          [] handler[r] = "done" -> IF answer[r].status = 200 THEN "told" ELSE "failed"]

serviceFound ==
    [r \in Request |->
        IF step[r] \in {"notify", "matched"} THEN candidate[r] ELSE NoRequest]

servicePartner ==
    [r \in Request |-> IF answer[r] = NoAnswer THEN NoRequest ELSE answer[r].with]

Promise == INSTANCE Rendezvous WITH
    Caller <- Request, Nobody <- NoRequest,
    call <- serviceCall, found <- serviceFound, partner <- servicePartner

\* Every step of the service is one of the rendezvous or none: a response names
\* the partner of a claim made or suffered by that very call, no call fails or
\* leaves after its own claim, and no call that failed is ever claimed
\* (service.rs:209-274, q_impl.rs:73-122, q_matching.rs:237-256).
ImplementsRendezvous == Promise!Spec
=============================================================================
