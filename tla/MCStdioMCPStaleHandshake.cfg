CONSTANTS
    Calls = {c1, c2, c3}
    Large = {c3}
    Initialize = Initialize
    NoOne = NoOne
    kMaxRespawnRetries = 2
SPECIFICATION Spec
INVARIANT AnswerIsOwn
CHECK_DEADLOCK FALSE
