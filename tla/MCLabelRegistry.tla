-------------------------- MODULE MCLabelRegistry ---------------------------
(* Small instances of LabelRegistry for TLC. *)
EXTENDS LabelRegistry

CONSTANTS ToRemove, Bulk, Other

\* The mock lacks one of the managed labels, and two keys share its name.
MCConfigKeys == <<"to_remove", "bulk", "promotions">>
MCNameOf == [to_remove |-> ToRemove, bulk |-> Bulk, promotions |-> Bulk]
MCMockLabels == <<ToRemove>>

=============================================================================
