CONSTANTS
    m1 = m1
    m2 = m2
    work = work
    Messages = {m1, m2}
    Labels = {work}
    Hidden = {}
    MaxHistory = 3
    Jobs = {"incremental_sync"}
    PageSize = 2
    BatchSize = 2
    MaxFailures = 0
SPECIFICATION FairSpec
PROPERTY IncrementalSyncKeepsUp
