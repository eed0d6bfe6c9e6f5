CONSTANTS
    ConfigKeys <- MCConfigKeys
    NameOf <- MCNameOf
    ToRemove = ToRemove
    Bulk = Bulk
    Other = Other
    Names = {ToRemove, Bulk, Other}
    Jobs = {"full_sync_daily", "manual"}
    MockLabels <- MCMockLabels
    MaxIds = 5
    MaxChanges = 2
    MaxFailures = 1
SPECIFICATION FairSpec
INVARIANTS TypeOK ManagedLabelsExist RegistryKnowsManaged
PROPERTIES StartCompletes RegistryCatchesUp
