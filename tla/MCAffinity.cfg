\* Two processes, one slot each: sequential turns with another process beside.
SPECIFICATION Spec
CONSTANTS
    p1 = p1
    p2 = p2
    t1 = t1
    t2 = t2
    None = none
    Process = {p1, p2}
    Turn = {t1, t2}
    Home <- OneSlotEach
    Account = {a, b}
    MaxTurns <- TurnsEach
    MaxLosses = 1
INVARIANTS
    SettledPin
    OneWriter
CHECK_DEADLOCK FALSE
