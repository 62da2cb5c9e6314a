\* Two cycles meet two faults.  The two ids are one user's: selected together
\* they overlap, which LoginKept excludes.
SPECIFICATION MCFairSpec
CONSTANTS
    main = main
    former = former
    c1 = c1
    c2 = c2
    m = m
    Account = {main, former}
    Canonical <- MCCanonical
    Cycle = {c1, c2}
    Manual = {m}
    Nobody = none
    NoRow = norow
    Selections = {{main}, {former}}
    MaxToken = 2
    MaxFails = 1
    MaxFaults = 2
INVARIANTS
    LoginKept
PROPERTIES
    DueTokenSettled
CHECK_DEADLOCK FALSE
