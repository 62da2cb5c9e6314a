\* A report cools for one or two units of time, an administrator for up to three.
SPECIFICATION Spec
CONSTANTS
    Cap = 2
    Long = 3
INVARIANTS
    CooldownHasEnd
    CoolingShown
    DismissalStands
