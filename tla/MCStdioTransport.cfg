CONSTANTS
    a = a
    b = b
    c = c
    k1 = k1
    k2 = k2
    null = null
    Msg <- Lines
    Sessions <- ClientSessions
    Key <- Keys
    Tool <- Tools
    Registered <- RegisteredTools
    Hanging = {b}
    ChainingEnabled = TRUE
    MaxChainDepth = 1
    Worker = {w1, w2}
    Main = Main
    NoMsg = NoMsg
    NoTool = NoTool
    NoKey = NoKey
SPECIFICATION FairSpec
INVARIANTS TransportInv AnswersInv ReturnedMeansDrained CancelReachesNamedTool
PROPERTIES RequestsAnswered RunReturns
\* Run returns, and then nothing is left to do.
CHECK_DEADLOCK FALSE
