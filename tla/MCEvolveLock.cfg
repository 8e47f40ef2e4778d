\* RUNNING.lock, two turns, two ticks to go stale, two deaths.
CONSTANTS
    Proc = {p1, p2}
    NoProc = NoProc
    NoFile = NoFile
    Torn = Torn
    StaleSec = 2
    UseInflight = TRUE
    MaxCrashes = 2
SPECIFICATION FairSpec
INVARIANTS TypeOK LeaseExclusive RecordFencesTakeover
PROPERTIES LockCallReturns AbandonedLockRecovers ImplementsLease
