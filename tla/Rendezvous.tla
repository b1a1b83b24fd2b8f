----------------------------- MODULE Rendezvous -----------------------------
(***************************************************************************)
(* What the service promises its clients, without queue, channels, timers   *)
(* and threads: calls come, some pairs of them are matched, and every call  *)
(* gets at most one answer, which either names a partner of such a pair or  *)
(* is final.  The promise is weaker than a rendezvous ought to be: a call   *)
(* can take part in two matches, and can be answered with a failure after   *)
(* its partner was promised it.                                             *)
(***************************************************************************)
CONSTANTS Caller, Nobody

VARIABLES
    call,       \* new, open, told of a partner, failed, or gone without answer
    found,      \* the call each has found waiting when it came
    partner     \* whom a call was told of

rendezvousVars == <<call, found, partner>>

FoundBy(w) == {c \in Caller : found[c] = w}

Init ==
    /\ call = [r \in Caller |-> "new"]
    /\ found = [r \in Caller |-> Nobody]
    /\ partner = [r \in Caller |-> Nobody]

Become(r, s) == call' = [call EXCEPT ![r] = s]

Open(r) ==
    /\ call[r] = "new"
    /\ Become(r, "open")
    /\ UNCHANGED <<found, partner>>

\* A call finds one other at most and is found once at most, never after it
\* failed; it may have left, or have been told of somebody else.
Match(c, w) ==
    /\ c # w
    /\ call[c] = "open" /\ call[w] \in {"open", "told", "left"}
    /\ found[c] = Nobody /\ FoundBy(w) = {}
    /\ found' = [found EXCEPT ![c] = w]
    /\ UNCHANGED <<call, partner>>

\* Whoever found a partner is told of it, whoever did not, of the one that
\* found it.
Tell(r, p) ==
    /\ call[r] = "open"
    /\ p \in IF found[r] # Nobody THEN {found[r]} ELSE FoundBy(r)
    /\ Become(r, "told")
    /\ partner' = [partner EXCEPT ![r] = p]
    /\ UNCHANGED found

\* Whoever has found a partner is not refused.
Fail(r) ==
    /\ call[r] \in {"new", "open"}
    /\ found[r] = Nobody
    /\ Become(r, "failed")
    /\ UNCHANGED <<found, partner>>

Leave(r) ==
    /\ call[r] = "open"
    /\ found[r] = Nobody
    /\ Become(r, "left")
    /\ UNCHANGED <<found, partner>>

Next ==
    \E r \in Caller :
        \/ Open(r) \/ Fail(r) \/ Leave(r)
        \/ \E p \in Caller : Match(r, p) \/ Tell(r, p)

Spec == Init /\ [][Next]_rendezvousVars
=============================================================================
