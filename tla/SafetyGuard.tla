---------------------------- MODULE SafetyGuard ----------------------------
(***************************************************************************)
(* SafetyGuard: what a label operation must pass before the application    *)
(* calls Gmail.  The guard keeps no state, so the module has none: it      *)
(* defines the checks and the three ways the service combines them.        *)
(***************************************************************************)
EXTENDS Integers, FiniteSets, Sequences

CONSTANTS
    ProtectedLabelIds,          \* may never be removed
    ProtectedAddLabelIds,       \* may never be added
    ArchiveTriggerLabelId,      \* INBOX: removing it archives the message
    MaxBulkOperationMessages,
    MaxLabelsPerOperation

\* True of the values in constants.py.
ASSUME GuardAssumption ==
    /\ ArchiveTriggerLabelId \in ProtectedLabelIds
    /\ ProtectedAddLabelIds \subseteq ProtectedLabelIds
    /\ MaxBulkOperationMessages \in Nat
    /\ MaxLabelsPerOperation \in Nat

\* An operation is what one messages.modify call adds and removes.  The DTOs
\* refuse one that changes nothing or adds and removes the same label.
WellFormed(op) ==
    /\ op.add \cup op.remove # {}
    /\ op.add \cap op.remove = {}

-----------------------------------------------------------------------------
\* The checks.

NoArchiveViaInboxRemoval(removed) == ArchiveTriggerLabelId \notin removed

\* Mutant: taken to be the check against archiving again.
NoProtectedLabelRemovalInboxOnly(removed) == ArchiveTriggerLabelId \notin removed

NoProtectedLabelRemoval(removed) == removed \cap ProtectedLabelIds = {}

NoProtectedLabelAddition(added) == added \cap ProtectedAddLabelIds = {}

WithinBulkMessageLimit(ids) == Len(ids) <= MaxBulkOperationMessages

WithinLabelsPerOperationLimit(count) == count <= MaxLabelsPerOperation

TotalLabelCount(op) == Cardinality(op.add) + Cardinality(op.remove)

-----------------------------------------------------------------------------
\* validate_label_operation: one message.
ValidLabelOperation(op) ==
    /\ NoArchiveViaInboxRemoval(op.remove)
    /\ NoProtectedLabelRemoval(op.remove)
    /\ NoProtectedLabelAddition(op.add)
    /\ WithinLabelsPerOperationLimit(TotalLabelCount(op))

\* validate_label_toggle_operation: the label may turn out to be added to some
\* of the messages and removed from others.
ValidLabelToggle(ids, label) ==
    /\ WithinBulkMessageLimit(ids)
    /\ NoProtectedLabelRemoval({label})
    /\ NoProtectedLabelAddition({label})
    /\ WithinLabelsPerOperationLimit(1)

\* validate_bulk_label_operation: the same operation on every message.
ValidBulkLabelOperation(ids, op) ==
    /\ WithinBulkMessageLimit(ids)
    /\ NoArchiveViaInboxRemoval(op.remove)
    /\ NoProtectedLabelRemoval(op.remove)
    /\ NoProtectedLabelAddition(op.add)
    /\ WithinLabelsPerOperationLimit(TotalLabelCount(op))

=============================================================================
