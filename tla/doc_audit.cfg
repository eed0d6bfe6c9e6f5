CONSTANTS
    m1 = m1
    m2 = m2
    inbox = inbox
    trash = trash
    work = work
    r1 = r1
    r2 = r2
    none = none
    Messages = {m1, m2}
    Labels = {trash, work}
    Hidden = {trash}
    MaxHistory = 2
    ProtectedLabelIds = {inbox, trash}
    ProtectedAddLabelIds = {trash}
    ArchiveTriggerLabelId = inbox
    MaxBulkOperationMessages = 2
    MaxLabelsPerOperation = 1
    Requests = {r1}
    NoRequest = none
    Concurrent = TRUE
    Repeats = FALSE
    MaxIds = 2
    MaxFailures = 0
SPECIFICATION Spec
CHECK_DEADLOCK FALSE
PROPERTIES EveryChangeLogged
