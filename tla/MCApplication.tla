--------------------------- MODULE MCApplication ---------------------------
(* Small instances of Application for TLC. *)
EXTENDS Application

=============================================================================
