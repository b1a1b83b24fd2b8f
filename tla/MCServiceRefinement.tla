------------------------- MODULE MCServiceRefinement -------------------------
(* The instances of MatchingService, with the refinement.                     *)
EXTENDS ServiceRefinement, MCMatchingService
=============================================================================
