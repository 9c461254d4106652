--------------------------- MODULE MemoryReviewMC ---------------------------
(* MemoryReview for TLC: proposals and lines are interchangeable. *)
EXTENDS MemoryReview, TLC

Symmetry == Permutations(Pid) \cup Permutations(Edit)

=============================================================================
