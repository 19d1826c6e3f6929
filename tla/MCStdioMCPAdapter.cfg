CONSTANTS
    Calls = {c1, c2, c3}
    Large = {c3}
    Initialize = Initialize
    NoOne = NoOne
    kMaxRespawnRetries = 2
SPECIFICATION FairSpec
INVARIANTS TypeOK GreetedChildAnswersOwn NoOrphanChild
PROPERTIES CallsReturn ReplacedToolLeavesNoChild
CHECK_DEADLOCK FALSE
