----------------------------- MODULE ClaimBoard -----------------------------
(***************************************************************************)
(* What the request queue promises its callers about matching, without     *)
(* locks, channels, events or time: a board on which requests are posted    *)
(* once; a posted request may take one other request that is on the board   *)
(* and suits it, which thereby leaves the board; a request may be withdrawn *)
(* (by its owner or because it expired) and never comes back.  Taking does  *)
(* not remove the taker: that the documents ask for it and the code does    *)
(* not is shown elsewhere (MatchedPairLeaves in MatchingService).           *)
(***************************************************************************)
CONSTANTS
    Request,
    NoRequest,
    Terms,          \* what a request can ask for
    NoTerms,
    Suits(_, _)     \* taker's terms, terms of the one taken

VARIABLES
    board,      \* requests that can be taken
    terms,      \* what each posted request asks for
    partner     \* the request each request has taken

boardVars == <<board, terms, partner>>

BoardInit ==
    /\ board = {}
    /\ terms = [r \in Request |-> NoTerms]
    /\ partner = [r \in Request |-> NoRequest]

Post(r, t) ==
    /\ terms[r] = NoTerms
    /\ t # NoTerms
    /\ terms' = [terms EXCEPT ![r] = t]
    /\ board' = board \union {r}
    /\ UNCHANGED partner

Take(c, w) ==
    /\ terms[c] # NoTerms
    /\ partner[c] = NoRequest
    /\ w \in board \ {c}
    /\ Suits(terms[c], terms[w])
    /\ partner' = [partner EXCEPT ![c] = w]
    /\ board' = board \ {w}
    /\ UNCHANGED terms

Withdraw(S) ==
    /\ board' = board \ S
    /\ UNCHANGED <<terms, partner>>

BoardNext ==
    \/ \E r \in Request, t \in Terms : Post(r, t)
    \/ \E c, w \in Request : Take(c, w)
    \/ \E S \in SUBSET board : Withdraw(S)

BoardSpec == BoardInit /\ [][BoardNext]_boardVars
=============================================================================
