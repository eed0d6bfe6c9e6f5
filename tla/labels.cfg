CONSTANTS
    m1 = m1
    m2 = m2
    inbox = inbox
    trash = trash
    work = work
    r1 = r1
    r2 = r2
    none = none
    Messages = {m1, m2}
    Labels = {trash, work}
    Hidden = {trash}
    MaxHistory = 2
    ProtectedLabelIds = {inbox, trash}
    ProtectedAddLabelIds = {trash}
    ArchiveTriggerLabelId = inbox
    MaxBulkOperationMessages = 2
    MaxLabelsPerOperation = 1
    Requests = {r1, r2}
    NoRequest = none
    Concurrent = TRUE
    Repeats = TRUE
    MaxIds = 3
    MaxFailures = 1
SPECIFICATION FairSpec
CHECK_DEADLOCK FALSE
INVARIANTS TypeOK SettledRowsMatch RejectedBeforeAnyCall
PROPERTIES OnlyPermittedChanges KeepsPromise WriteLockReleased
