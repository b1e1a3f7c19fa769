-------------------------- MODULE MCNoticeLifecycle --------------------------
(* Small instances of NoticeLifecycle for TLC.                             *)
EXTENDS NoticeLifecycle, TLC

\* The calls in flight are interchangeable.
Symmetry == Permutations(Calls)

=============================================================================
