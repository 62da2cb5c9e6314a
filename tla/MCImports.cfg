\* Two cookies, two threads, two tries, one login.
SPECIFICATION MCSpec
CONSTANTS
    Cookie <- MCCookie
    User <- MCUser
    Login = "u1"
    Workers = 2
    Tries = 2
    MaxFaults = 1
CHECK_DEADLOCK FALSE
INVARIANTS
    ImportsTypeOK
    
    SuccessStored
PROPERTIES
    JobEnds
    LoginEnds
