CONSTANTS
    Task = {t1, t2, t3}
    Worker = {w1, w2, w3}
    NoTask = NoTask
SPECIFICATION FairSpec
INVARIANTS TypeOK TaskAccounting WorkConserving ShutdownInv
PROPERTIES ImplementsTaskPool ShutdownReturns
\* With every task rejected or done and Shutdown returned the pool is over.
CHECK_DEADLOCK FALSE
