--------------------------- MODULE MCSyncAndLabels ---------------------------
(* Small instances of SyncAndLabels for TLC. *)
EXTENDS SyncAndLabels

CONSTANTS m1, m2, inbox, trash, work, r1, none

=============================================================================
