CONSTANTS
    Messages = {"m1", "m2"}
    LabelSets <- MCLabelSets
    SizeOf <- MCSizeOf
    DateOf <- MCDateOf
    DayLength = 2
    YearLength = 2
    ThreadOf <- MCThreadOf
    CategoryLabels = {"CATEGORY_PURCHASES"}
    WorkflowLabels <- MCWorkflowLabels
    ArchiveLimit = 1
    Jobs = {"incremental_sync", "manual"}
    BatchSize = 2
    Demo = TRUE
    SeedDays = 2
    OldMail <- MCOldMail
    OldDays = {1}
    MaxDay = 4
    MaxChanges = 1
    MaxFailures = 1
SPECIFICATION Spec
INVARIANT PageLinksKeepSearch
