CONSTANTS
    Uri = {u1, u2}
    MaxStamp = 1
    NoStamp = NoStamp
SPECIFICATION WatchFairSpec
PROPERTY ReturnsAtEof
CHECK_DEADLOCK FALSE
