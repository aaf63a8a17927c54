-------------------------- MODULE MCReviewSession ---------------------------
(* The instances TLC checks of ReviewSession.                              *)
EXTENDS ReviewSession
=============================================================================
