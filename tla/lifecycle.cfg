CONSTANTS
    DayLength = 4
    IncrementalInterval = 2
    FullGrace = 1
    IncrementalGrace = 0
    MaxFailures = 2
    MaxStops = 1
SPECIFICATION FairSpec
INVARIANTS TypeOK OneScheduler NoOrphanedRun OneSignIn SleepTolerated
PROPERTIES SchedulerComesBack JobsKeepStarting
