--------------------------- MODULE MCScoringDispatch --------------------------
(* Small instances of ScoringDispatch for TLC.                             *)
EXTENDS ScoringDispatch, TLC

\* The notices are interchangeable.
Symmetry == Permutations(Notices)

=============================================================================
