\* Two tasks at a time for two browsers, one fault and one /reclaim.
SPECIFICATION FairSpec
CONSTANTS
    Task <- MCTask
    Browser <- MCBrowser
    Threads = 2
    MaxFaults = 1
    MaxReclaims = 1
INVARIANTS
    OneHolder
    InFlightPaired
PROPERTIES
    ReaperSpares
    TaskAnswered
CHECK_DEADLOCK FALSE
