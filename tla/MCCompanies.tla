----------------------------- MODULE MCCompanies -----------------------------
(* Small instances of Companies for TLC.                                   *)
EXTENDS Companies, TLC

\* The requests are interchangeable.
Symmetry == Permutations(Calls)

=============================================================================
