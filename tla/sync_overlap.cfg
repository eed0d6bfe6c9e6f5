CONSTANTS
    m1 = m1
    m2 = m2
    work = work
    Messages = {m1, m2}
    Labels = {work}
    Hidden = {}
    MaxHistory = 2
    Jobs = {"incremental_sync", "manual"}
    PageSize = 1
    BatchSize = 2
    MaxFailures = 1
SPECIFICATION FairSpec
INVARIANTS TypeOK JunctionExact RowsComeFromGmail NoSilentLoss
PROPERTIES ExpiredHistoryRecovers FullSyncsHeal
