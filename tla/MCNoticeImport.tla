--------------------------- MODULE MCNoticeImport ---------------------------
(* Small instances of NoticeImport for TLC.                                *)
EXTENDS NoticeImport

=============================================================================
