----------------------- MODULE QueueRefinementProofs -----------------------
(***************************************************************************)
(* UnifiedQueue implements ClaimBoard, for every value of the constants:    *)
(* what a search finds still suits when it is claimed, and every critical   *)
(* section posts, takes, withdraws, or does nothing a caller can see.       *)
(***************************************************************************)
EXTENDS QueueRefinement, QueueDeliveryProofs

-----------------------------------------------------------------------------
(* What a search finds suits, and goes on suiting *)

\* Between search and claim neither body changes, so the verdict of the search
\* holds as long as the call remembers its candidate.
SuitInv ==
    \A r \in Request : step[r] \in {"exchange", "claim", "notify", "matched"} =>
        BoardSuits(body[r], body[candidate[r]])

LEMMA SuitInvInit == QueueInit => SuitInv
BY DEF QueueInit, SuitInv, Idle

LEMMA SuitInvStep ==
    TypeInv /\ ClaimInv /\ SuitInv /\ [QueueNext]_queueVars => SuitInv'
<1> SUFFICES ASSUME TypeInv, ClaimInv, SuitInv, [QueueNext]_queueVars
             PROVE  SuitInv'
  OBVIOUS
<1>t. /\ step \in [Request -> Step] /\ requests \subseteq Request
      /\ candidate \in [Request -> Request \union {NoRequest}]
      /\ body \in [Request -> QueuedRequest \union {NoBody}]
      /\ EntriesPosted /\ BodyInv /\ CandidateInv
  BY DEF TypeInv, TypeOK, ClaimInv
<1> USE DEF SuitInv, Goto, Idle
\* No step but the start of a call writes a body, and none but a search that
\* succeeds leads past the search.
<1>0. ASSUME UNCHANGED <<body, candidate>>,
             \A r \in Request : step'[r] \in {"exchange", "claim", "notify", "matched"} =>
                 step[r] \in {"exchange", "claim", "notify", "matched"}
      PROVE  SuitInv'
  BY <1>0 DEF BoardSuits, TypesMeet, Compatible
<1>1. ASSUME NEW r \in Request, NEW o \in Offer, AddRequest(r, o) PROVE SuitInv'
  <2>1. /\ step[r] = "idle" /\ step' = [step EXCEPT ![r] = "check"]
        /\ \A w \in Request : w # r => body'[w] = body[w]
        /\ UNCHANGED candidate
    BY <1>1, <1>t DEF AddRequest
  <2> SUFFICES ASSUME NEW c \in Request,
                      step'[c] \in {"exchange", "claim", "notify", "matched"}
               PROVE  BoardSuits(body'[c], body'[candidate'[c]])
    OBVIOUS
  <2>2. c # r /\ step[c] \in {"exchange", "claim", "notify", "matched"}
    BY <2>1, <1>t
  <2>3. candidate[c] \in Request /\ candidate[c] # r
    BY <2>1, <2>2, <1>t DEF CandidateInv, BodyInv
  <2>4. BoardSuits(body[c], body[candidate[c]])
    BY <2>2
  <2>5. body'[c] = body[c] /\ body'[candidate'[c]] = body[candidate[c]]
    BY <2>1, <2>2, <2>3
  <2> QED BY <2>4, <2>5
<1>2. ASSUME NEW r \in Request, FindMatch(r) PROVE SuitInv'
  <2>1. CASE Goto(r, "announce") /\ UNCHANGED candidate
    BY <1>0, <1>2, <1>t, <2>1 DEF FindMatch
  <2>2. ASSUME NEW m \in BestCandidates(r), Goto(r, "exchange"),
               candidate' = [candidate EXCEPT ![r] = m]
        PROVE  SuitInv'
    <3>1. BoardSuits(body[r], body[m])
      BY <2>2 DEF BestCandidates, Candidates, Admissible, BoardSuits
    <3>2. step[r] = "find" /\ UNCHANGED body
      BY <1>2 DEF FindMatch
    <3> SUFFICES ASSUME NEW c \in Request,
                        step'[c] \in {"exchange", "claim", "notify", "matched"}
                 PROVE  BoardSuits(body[c], body[candidate'[c]])
      BY <3>2
    <3>3. CASE c = r
      BY <2>2, <3>1, <3>3, <1>t
    <3>4. CASE c # r
      BY <2>2, <3>4, <1>t
    <3> QED BY <3>3, <3>4
  <2> QED BY <1>2, <2>1, <2>2 DEF FindMatch
<1>3. ASSUME NEW r \in Request, CheckCapacity(r) \/ Insert(r) \/ Exchange(r)
      PROVE  SuitInv'
  BY <1>0, <1>3, <1>t DEF CheckCapacity, Insert, Exchange
<1>4. ASSUME NEW r \in Request, Claim(r) \/ Notify(r) \/ Announce(r) PROVE SuitInv'
  BY <1>0, <1>4, <1>t DEF Claim, Notify, Announce
<1>5. ASSUME NEW r \in Request,
             DropReceiver(r) \/ RemoveRequest(r) \/ CleanupReport(r)
      PROVE  SuitInv'
  BY <1>0, <1>5 DEF DropReceiver, RemoveRequest, CleanupReport
<1>6. CASE CleanupScan \/ CleanupRemove \/ Tick
  BY <1>0, <1>6 DEF CleanupScan, CleanupRemove, Tick
<1>7. CASE UNCHANGED queueVars
  BY <1>0, <1>7 DEF queueVars
<1> QED
  BY <1>1, <1>2, <1>3, <1>4, <1>5, <1>6, <1>7 DEF QueueNext

-----------------------------------------------------------------------------
(* The bodies are terms of the board *)

\* The clock stays within its bound, so every body is one that was submitted at
\* one of its times.
TermsInv ==
    /\ now \in 0..Horizon
    /\ \A r \in Request : step[r] # Idle => body[r] \in BoardTerms

LEMMA TermsInvInit == QueueInit => TermsInv
BY QueueAssumption DEF QueueInit, TermsInv

LEMMA TermsInvStep == TypeInv /\ TermsInv /\ [QueueNext]_queueVars => TermsInv'
<1> SUFFICES ASSUME TypeInv, TermsInv, [QueueNext]_queueVars PROVE TermsInv'
  OBVIOUS
<1>t. /\ step \in [Request -> Step] /\ now \in 0..Horizon /\ Horizon \in Nat
      /\ body \in [Request -> QueuedRequest \union {NoBody}]
      /\ BodyInv
  BY QueueAssumption DEF TypeInv, TypeOK, TermsInv
<1> USE DEF TermsInv, Goto, Idle
<1>0. ASSUME UNCHANGED body, now' \in 0..Horizon,
             \A r \in Request : step'[r] # "idle" => step[r] # "idle"
      PROVE  TermsInv'
  BY <1>0 DEF BoardTerms
<1>1. ASSUME NEW r \in Request, NEW o \in Offer, AddRequest(r, o) PROVE TermsInv'
  <2>1. /\ body'[r] \in BoardTerms
        /\ \A w \in Request : w # r => body'[w] = body[w] /\ step'[w] = step[w]
        /\ UNCHANGED now
    BY <1>1, <1>t DEF AddRequest, BoardTerms
  <2> QED BY <2>1 DEF BoardTerms
<1>2. ASSUME NEW r \in Request,
             \/ CheckCapacity(r) \/ Insert(r) \/ FindMatch(r) \/ Exchange(r)
             \/ Claim(r) \/ Notify(r) \/ Announce(r)
      PROVE  TermsInv'
  BY <1>0, <1>2, <1>t DEF CheckCapacity, Insert, FindMatch, Exchange, Claim, Notify, Announce
<1>3. ASSUME NEW r \in Request,
             DropReceiver(r) \/ RemoveRequest(r) \/ CleanupReport(r)
      PROVE  TermsInv'
  BY <1>0, <1>3 DEF DropReceiver, RemoveRequest, CleanupReport
<1>4. CASE CleanupScan \/ CleanupRemove \/ Tick
  BY <1>0, <1>4, <1>t DEF CleanupScan, CleanupRemove, Tick
<1>5. CASE UNCHANGED queueVars
  BY <1>0, <1>5 DEF queueVars
<1> QED BY <1>1, <1>2, <1>3, <1>4, <1>5 DEF QueueNext

-----------------------------------------------------------------------------
(* The refinement *)

\* What the mapping needs to know of the queue.
BoardInv == TypeInv /\ ClaimInv /\ SuitInv /\ TermsInv

LEMMA BoardInvHolds == QueueSpec => []BoardInv
<1>1. QueueInit => BoardInv
  BY TypeInvInit, ClaimInvInit, SuitInvInit, TermsInvInit DEF BoardInv
<1>2. BoardInv /\ [QueueNext]_queueVars => BoardInv'
  BY TypeInvStep, ClaimInvStep, SuitInvStep, TermsInvStep DEF BoardInv
<1> QED BY <1>1, <1>2, PTL DEF QueueSpec

LEMMA BoardInitRefined == QueueInit => Board!BoardInit
BY DEF QueueInit, Board!BoardInit, boardTerms, boardPartner, Posted, Idle

\* A step of one call that neither posts it, nor takes anything, nor touches the
\* map is invisible on the board.
LEMMA InvisibleStep ==
    ASSUME UNCHANGED requests,
           \A r \in Request : Posted(r)' = Posted(r) /\ (Posted(r) => body'[r] = body[r]),
           \A r \in Request : step'[r] \in {"notify", "matched"} <=> step[r] \in {"notify", "matched"},
           \A r \in Request : step[r] \in {"notify", "matched"} => candidate'[r] = candidate[r]
    PROVE  UNCHANGED <<requests, boardTerms, boardPartner>>
<1>1. boardTerms' = boardTerms
  BY DEF boardTerms
<1>2. boardPartner' = boardPartner
  BY DEF boardPartner
<1> QED BY <1>1, <1>2

LEMMA BoardStepRefined ==
    BoardInv /\ [QueueNext]_queueVars => [Board!BoardNext]_(Board!boardVars)
<1> SUFFICES ASSUME BoardInv, [QueueNext]_queueVars
             PROVE  Board!BoardNext \/ UNCHANGED <<requests, boardTerms, boardPartner>>
  BY DEF Board!boardVars
<1>t. /\ step \in [Request -> Step] /\ requests \subseteq Request
      /\ candidate \in [Request -> Request \union {NoRequest}]
      /\ body \in [Request -> QueuedRequest \union {NoBody}]
      /\ NoBody \notin QueuedRequest /\ NoRequest \notin Request
      /\ EntriesPosted /\ BodyInv /\ CandidateInv
  BY QueueAssumption DEF BoardInv, TypeInv, TypeOK, ClaimInv
<1> USE DEF Goto, Idle, Posted
<1>1. ASSUME NEW r \in Request, NEW o \in Offer, AddRequest(r, o)
      PROVE  UNCHANGED <<requests, boardTerms, boardPartner>>
  <2>1. /\ step[r] = "idle" /\ step' = [step EXCEPT ![r] = "check"]
        /\ \A w \in Request : w # r => body'[w] = body[w]
        /\ UNCHANGED <<requests, candidate>>
    BY <1>1, <1>t DEF AddRequest
  <2> QED BY <2>1, <1>t, InvisibleStep
<1>2. ASSUME NEW r \in Request,
             CheckCapacity(r) \/ FindMatch(r) \/ Exchange(r) \/ Notify(r) \/ Announce(r)
      PROVE  UNCHANGED <<requests, boardTerms, boardPartner>>
  <2>1. CASE CheckCapacity(r)
    BY <2>1, <1>t, InvisibleStep DEF CheckCapacity
  <2>2. CASE FindMatch(r)
    <3>1. /\ step[r] = "find" /\ (\E s \in {"announce", "exchange"} : step' = [step EXCEPT ![r] = s])
          /\ \A c \in Request : c # r => candidate'[c] = candidate[c]
          /\ UNCHANGED <<requests, body>>
      BY <2>2, <1>t DEF FindMatch
    <3> QED BY <3>1, <1>t, InvisibleStep
  <2>3. CASE Exchange(r) \/ Notify(r) \/ Announce(r)
    BY <2>3, <1>t, InvisibleStep DEF Exchange, Notify, Announce
  <2> QED BY <1>2, <2>1, <2>2, <2>3
<1>3. ASSUME NEW r \in Request, Insert(r) PROVE Board!BoardNext
  <2>1. /\ step[r] = "insert" /\ step' = [step EXCEPT ![r] = "find"]
        /\ requests' = requests \union {r}
        /\ UNCHANGED <<body, candidate>>
    BY <1>3 DEF Insert
  <2>2. body[r] \in BoardTerms /\ body[r] # NoBody
    BY <2>1, <1>t DEF BoardInv, TermsInv, BodyInv
  <2>3. boardTerms[r] = NoBody /\ boardTerms' = [boardTerms EXCEPT ![r] = body[r]]
    BY <2>1, <1>t DEF boardTerms
  <2>4. boardPartner' = boardPartner
    BY <2>1, <1>t DEF boardPartner
  <2>5. Board!Post(r, body[r])
    BY <2>1, <2>2, <2>3, <2>4 DEF Board!Post
  <2> QED BY <2>2, <2>5 DEF Board!BoardNext
<1>4. ASSUME NEW r \in Request, Claim(r)
      PROVE  Board!BoardNext \/ UNCHANGED <<requests, boardTerms, boardPartner>>
  <2> DEFINE m == candidate[r]
  <2>1. step[r] = "claim" /\ UNCHANGED <<body, candidate>>
    BY <1>4 DEF Claim
  <2>2. CASE m \in requests
    <3>1. step' = [step EXCEPT ![r] = "notify"] /\ requests' = requests \ {m}
      BY <1>4, <2>2 DEF Claim
    <3>2. m \in Request /\ m # r
      BY <2>1, <1>t DEF BodyInv, CandidateInv
    <3>3. boardTerms' = boardTerms
      BY <2>1, <3>1, <1>t DEF boardTerms
    <3>4. boardPartner[r] = NoRequest /\ boardPartner' = [boardPartner EXCEPT ![r] = m]
      BY <2>1, <3>1, <1>t DEF boardPartner
    <3>5. boardTerms[r] = body[r] /\ boardTerms[m] = body[m] /\ body[r] # NoBody
      BY <2>1, <2>2, <3>2, <1>t DEF boardTerms, EntriesPosted, BodyInv
    <3>6. BoardSuits(body[r], body[m])
      BY <2>1 DEF BoardInv, SuitInv
    <3>7. Board!Take(r, m)
      BY <2>2, <3>1, <3>2, <3>3, <3>4, <3>5, <3>6 DEF Board!Take
    <3> QED BY <3>2, <3>7 DEF Board!BoardNext
  <2>3. CASE m \notin requests
    <3>1. step' = [step EXCEPT ![r] = "announce"] /\ UNCHANGED requests
      BY <1>4, <2>3 DEF Claim
    <3> QED BY <2>1, <3>1, <1>t, InvisibleStep
  <2> QED BY <2>2, <2>3
\* A removal, by whomever, is a withdrawal.
<1>5. ASSUME NEW S, requests' = requests \ S, UNCHANGED <<body, step, candidate>>
      PROVE  Board!BoardNext
  <2> DEFINE W == requests \intersect S
  <2>1. W \in SUBSET requests /\ requests' = requests \ W
    BY <1>5
  <2>2. UNCHANGED <<boardTerms, boardPartner>>
    BY <1>5 DEF boardTerms, boardPartner
  <2>3. Board!Withdraw(W)
    BY <2>1, <2>2 DEF Board!Withdraw
  <2> HIDE DEF W
  <2> QED BY <2>1, <2>3 DEF Board!BoardNext
<1>6. ASSUME NEW r \in Request, RemoveRequest(r) PROVE Board!BoardNext
  BY <1>5, <1>6 DEF RemoveRequest
<1>7. CASE CleanupRemove
  BY <1>5, <1>7 DEF CleanupRemove
<1>8. ASSUME UNCHANGED <<body, requests, step, candidate>>
      PROVE  UNCHANGED <<requests, boardTerms, boardPartner>>
  BY <1>8, InvisibleStep
<1>9. ASSUME NEW r \in Request, DropReceiver(r) \/ CleanupReport(r)
      PROVE  UNCHANGED <<requests, boardTerms, boardPartner>>
  BY <1>8, <1>9 DEF DropReceiver, CleanupReport
<1>10. CASE CleanupScan \/ Tick
  BY <1>8, <1>10 DEF CleanupScan, Tick
<1>11. CASE UNCHANGED queueVars
  BY <1>8, <1>11 DEF queueVars
<1> QED
  BY <1>1, <1>2, <1>3, <1>4, <1>6, <1>7, <1>9, <1>10, <1>11 DEF QueueNext

\* The queue implements the claim board: every call posts, takes one suitable
\* request that was on the board at that instant, withdraws, or does nothing a
\* caller can see (q_impl.rs:14-179, q_matching.rs:111-420).
THEOREM QueueIsClaimBoard == QueueSpec => ImplementsClaimBoard
BY BoardInvHolds, BoardInitRefined, BoardStepRefined, PTL
   DEF QueueSpec, ImplementsClaimBoard, Board!BoardSpec
=============================================================================
