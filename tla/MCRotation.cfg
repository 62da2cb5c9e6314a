\* Two jobs at a time on two accounts, one disabled, and one event beside them.
SPECIFICATION MCSpec
CONSTANTS
    Account <- MCAccount
    Model <- MCModel
    Worker = {w1, w2}
    NoRow = norow
    KickAt = 2
    MaxJobs = 2
    MaxEvents = 1
SYMMETRY Symmetry
INVARIANTS
    TypeOK
    NeverOvercounted
PROPERTIES
    StaysCooling
CHECK_DEADLOCK FALSE
