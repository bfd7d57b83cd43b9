SPECIFICATION Spec
CONSTANTS
    v1 = v1
    v2 = v2
    elsewhere = elsewhere
    t1 = t1
    t2 = t2
    Users = {u1, u2}
    Videos = {v1, v2, elsewhere}
    Library = {v1, v2}
    Tails = {t1, t2}
    TailOf <- EndOf
    PageSize = 1
    ClockSkew = 1
    Scenarios <- Everything
INVARIANTS
    PlayNamesForGood
    DeletesWhatWasShown
    ListensKeptOnce
    PagesMissNothing
CHECK_DEADLOCK FALSE
