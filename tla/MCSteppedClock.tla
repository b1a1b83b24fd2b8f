--------------------------- MODULE MCSteppedClock ---------------------------
(* A wall clock that is set one tick forward or back.                         *)
EXTENDS SteppedClock, MCMatchingService

MCJump == {-1, 1}
=============================================================================
