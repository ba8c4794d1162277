--------------------------- MODULE MCReviewDrafts ---------------------------
(* Instances of ReviewDrafts for TLC.                                      *)
EXTENDS ReviewDrafts, TLC
=============================================================================
