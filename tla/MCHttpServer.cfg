CONSTANTS
    alice = alice
    key = key
    a1 = a1
    a2 = a2
    Client = {alice}
    Limits = {0, 2}
    Second = 2
    Minute = 3
    Word = 7
    MaxTime = 4
    Thread = {t1, t2}
    Args = {a1, a2}
    MaxCalls = 2
    NoArgs = NoArgs
    Request <- MCRequest
    AuthEnabled = TRUE
    Key = key
    EmptyKey = EmptyKey
    MaxBodySize = 1
    MaxDepth = 1
SPECIFICATION Spec
INVARIANTS RateInv ScriptInv HttpInv
PROPERTIES AnsweredUnlessCrash
CHECK_DEADLOCK FALSE
