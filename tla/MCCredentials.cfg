\* Two accounts, batches of one, and one caller beside the maintainer.
SPECIFICATION MCSpec
SYMMETRY
    Symmetry
CONSTANTS
    a1 = a1
    a2 = a2
    Account = {a1, a2}
    Caller <- MCCaller
    None = none
    Same = same
    Batch = 1
    Imported <- MCImported
    MaxEvents = 1
INVARIANTS
    CredentialsTypeOK
    BoundedOvertaking
PROPERTIES
    SSOKept
