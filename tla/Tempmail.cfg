\* A key for moemail, then one for tempmail, and a batch of the replenisher.
SPECIFICATION MCSpec
CONSTANTS
    mk = mk
    ck = ck
    Thread = {"t1", "t2"}
    Starter = {"s1", "s2"}
    MaxStops = 0
    MaxFaults = 0
    MaxRunning = 0
    Provider = {"moemail", "cfmail"}
    Slotless = {"tempmail"}
    Default = "moemail"
    Mirroring = {"cfmail"}
    Borrowing = {"cfmail"}
    Key = {mk, ck}
    Takes <- MCTakes
    EnvKeys <- NoEnvKeys
    Saver = {"c1"}
    MaxSaves = 2
INVARIANTS
    MirrorsSelected
CHECK_DEADLOCK FALSE
