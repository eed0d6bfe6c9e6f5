CONSTANTS
    m1 = m1
    m2 = m2
    inbox = inbox
    trash = trash
    work = work
    r1 = r1
    none = none
    Messages = {m1, m2}
    Labels = {work}
    Hidden = {}
    MaxHistory = 3
    Jobs = {"manual"}
    PageSize = 1
    BatchSize = 2
    MaxFailures = 2
    ProtectedLabelIds = {inbox, trash}
    ProtectedAddLabelIds = {trash}
    ArchiveTriggerLabelId = inbox
    MaxBulkOperationMessages = 2
    MaxLabelsPerOperation = 1
    Requests = {r1}
    NoRequest = none
    MaxIds = 2
    HistoryLimit = 1
SPECIFICATION FairDemo
PROPERTIES DatabaseSettles RequestsLandWhole
