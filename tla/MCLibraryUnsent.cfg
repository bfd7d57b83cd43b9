SPECIFICATION Spec
CONSTANTS
    v1 = v1
    v2 = v2
    elsewhere = elsewhere
    t1 = t1
    t2 = t2
    Users = {u1}
    Videos = {v1, elsewhere}
    Library = {v1}
    Tails = {t1, t2}
    TailOf <- EndOf
    PageSize = 1
    ClockSkew = 1
    Scenarios <- JustPlaying
INVARIANT UnsentIsNotStored
CHECK_DEADLOCK FALSE
