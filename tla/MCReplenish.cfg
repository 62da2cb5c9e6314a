\* Two starters and two threads for the loop; one request at a time that saves, three
\* saves, and a key of moemail in the environment.
SPECIFICATION MCSpec
CONSTANTS
    mk = mk
    ck = ck
    Thread = {"t1", "t2"}
    Starter = {"s1", "s2"}
    MaxStops = 2
    MaxFaults = 1
    MaxRunning = 2
    Provider = {"moemail", "cfmail"}
    Slotless = {"tempmail"}
    Default = "moemail"
    Mirroring = {"cfmail"}
    Borrowing = {"cfmail"}
    Key = {mk, ck}
    Takes <- MCTakes
    EnvKeys <- EnvKeysOfMoemail
    Saver = {"c1"}
    MaxSaves = 3
INVARIANTS
    KeyAsSaved
    NoPileUp
    LoopsBounded
PROPERTIES
    PoolRefilled
CHECK_DEADLOCK FALSE
