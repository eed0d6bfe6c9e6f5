CONSTANTS
    m1 = m1
    m2 = m2
    inbox = inbox
    trash = trash
    work = work
    r1 = r1
    none = none
    Messages = {m1}
    Labels = {work}
    Hidden = {}
    MaxHistory = 3
    Jobs = {"manual"}
    PageSize = 2
    BatchSize = 2
    MaxFailures = 1
    ProtectedLabelIds = {inbox, trash}
    ProtectedAddLabelIds = {trash}
    ArchiveTriggerLabelId = inbox
    MaxBulkOperationMessages = 2
    MaxLabelsPerOperation = 1
    Requests = {r1}
    NoRequest = none
    MaxIds = 1
SPECIFICATION FairSystem
INVARIANTS SystemTypeOK NoSilentLoss JunctionExact
PROPERTIES DatabaseSettles
