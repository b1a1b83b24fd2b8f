---------------------------- MODULE SteppedClock ----------------------------
(***************************************************************************)
(* MatchingService on a machine whose wall clock is set while it runs.      *)
(* timestamps and expires_at are wall-clock time (OffsetDateTime::now_utc); *)
(* the timer of a waiting handler and the cleanup interval are monotonic    *)
(* (tokio::time).  MatchingService has one clock for both.  Here the wall   *)
(* clock can be set, and every timer that runs keeps the time it has left.  *)
(***************************************************************************)
EXTENDS MatchingService

CONSTANTS
    Jump,           \* by how much the wall clock may be set
    SteppedCalls    \* bound: calls in a behaviour in which it is set

ASSUME JumpAssumption == Jump \subseteq Int /\ SteppedCalls \in Nat

VARIABLE stepped    \* bound: the clock is set once

steppedVars == <<serviceVars, stepped>>

SteppedInit == ServiceInit /\ stepped = FALSE

\* The administrator or NTP sets the clock.
SetClock(d) ==
    /\ ~stepped
    /\ now + d \in 0..Horizon
    /\ now' = now + d
    /\ deadline' = [r \in Request |->
                      IF handler[r] = "waiting" THEN deadline[r] + d ELSE deadline[r]]
    /\ stepped' = TRUE
    /\ UNCHANGED <<body, requests, step, candidate, result, sender, rx, inbox, events,
                   sweep, handler, worker, answer>>

SteppedNext ==
    /\ \/ ServiceNext /\ UNCHANGED stepped
       \/ \E d \in Jump : SetClock(d)
    /\ stepped' => Cardinality({r \in Request : handler'[r] # "new"}) <= SteppedCalls

\* The fairness of MatchingService; nobody need set the clock.
SteppedSpec ==
    /\ SteppedInit
    /\ [][SteppedNext]_steppedVars
    /\ ServiceFairness

-----------------------------------------------------------------------------
(* Properties *)

\* A request that failed is out of the queue for good however the clock was set
\* in the meantime: the entry of one that timed out although the clock says it
\* lives on, and of one swept before its time, cannot be matched any more
\* (service.rs:257-267, q_impl.rs:126-168).
FailuresStayOut ==
    \A r \in Request : Status(r) \in {404, 408} =>
        /\ r \notin requests
        /\ Status(r) = 404 => ~\E c \in Request : Claimed(c, r)
=============================================================================
