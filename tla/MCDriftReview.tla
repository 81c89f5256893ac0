--------------------------- MODULE MCDriftReview ---------------------------
(* Small instances of DriftReview for TLC.                                  *)
EXTENDS DriftReview, TLC

Symmetry == Permutations(Workers) \cup Permutations(Reviewers)
              \cup Permutations(Resources) \cup Permutations(Configs)

=============================================================================
