----------------------------- MODULE MCDemoMode -----------------------------
(* Small instances of DemoMode for TLC. *)
EXTENDS DemoMode

CONSTANTS m1, m2, inbox, trash, work, r1, none

=============================================================================
