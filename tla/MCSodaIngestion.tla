-------------------------- MODULE MCSodaIngestion --------------------------
(* Small instances of SodaIngestion for TLC.                               *)
EXTENDS SodaIngestion, TLC

\* The cycles are interchangeable, and so are the records.
Symmetry == Permutations(Cycles) \cup Permutations(Recs)

=============================================================================
