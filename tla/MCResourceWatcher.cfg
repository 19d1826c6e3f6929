CONSTANTS
    Uri = {u1, u2}
    MaxStamp = 2
    NoStamp = NoStamp
SPECIFICATION WatchFairSpec
INVARIANT WatcherInv
PROPERTIES NotifiesOnlySubscribed ChangesPickedUp ReturnsUnlessJoinDeadlock
\* Run returns; the reader and the watcher may also block each other for good.
CHECK_DEADLOCK FALSE
