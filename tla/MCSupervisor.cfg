SPECIFICATION FairSpec
CONSTANTS
    NumChildren = 3
    MaxCrashes = 2
PROPERTIES CrashedAreRestarted StopReachesAll
CHECK_DEADLOCK FALSE
