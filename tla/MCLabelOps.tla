----------------------------- MODULE MCLabelOps -----------------------------
(* Small instances of LabelOps for TLC. *)
EXTENDS LabelOps

CONSTANTS m1, m2, inbox, trash, work, r1, r2, none

=============================================================================
