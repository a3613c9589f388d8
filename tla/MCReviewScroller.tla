-------------------------- MODULE MCReviewScroller --------------------------
(***************************************************************************)
(* ReviewScroller on every review of at most three sections of one to five *)
(* lines, shorter, as long and longer than a window of two.                *)
(***************************************************************************)
EXTENDS ReviewScroller

MaxSections == 3
MCReviews ==
  UNION {[1..n -> {[line \in 1..len |-> line] : len \in {1, 2, 3, 5}}] : n \in 1..MaxSections}
=============================================================================
