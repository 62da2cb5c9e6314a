\* Two workers and one slot of the captcha solver; two attempts, so one retry.
SPECIFICATION FairSpec
CONSTANTS
    Worker <- MCWorker
    Slots = 1
    Attempts = 2
    Alts = 1
    Rounds = 1
INVARIANTS
    SlotsConserved
    NewTokenEachAttempt
    AccountAccounted
PROPERTIES
    Implements
CHECK_DEADLOCK FALSE
