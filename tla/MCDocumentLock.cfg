SPECIFICATION LockSpec
CONSTANTS
    Slot = {s1, s2, s3}
    NoSlot = NoSlot
    IdleSession = IdleSession
    Ttl = 7
    Timeout = 4
    DelDelay = 2
INVARIANTS LockInv ExclusiveUntilRedisFails EachLockExcludes
PROPERTIES LockComesFree
