------------------------ MODULE MCApplicationReviews ------------------------
(* Small instances of ApplicationReviews for TLC. *)
EXTENDS ApplicationReviews, TLC

Symmetry ==
  Permutations(Requests) \cup Permutations(HandoffIds) \cup
  Permutations(ReviewIds)
=============================================================================
