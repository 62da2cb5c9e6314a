\* Two threads compete for one slot; one restart, and one request or one live
\* session that falls silent.  A finished batch is the end.
SPECIFICATION FairSpec
CONSTANTS
    MaxJob <- MCMaxJob
    Count = 2
    Workers = 2
    MaxInflight = 2
    Permits = 1
    Admin = Admin
    Dog = Dog
    NoBatch = NoBatch
    MaxRestarts = 1
    MaxCalls = 1
INVARIANTS
    TypeOK
    PermitsConserved
    CountersAgree
    NoPhantomSuccess
    OrderNotExceeded
    OneSpawner
PROPERTIES
    RunnerEnds
CHECK_DEADLOCK FALSE
