SPECIFICATION FairSpec
CONSTANTS
    c1 = c1
    c2 = c2
    t1 = t1
    t2 = t2
    t3 = t3
    h1 = h1
    lmap = lmap
    lqueue = lqueue
    CPU = {c1, c2}
    Task = {t1, t2, t3}
    Irq = {h1}
    CpuOf <- MCCpuOf
    Lock = {lmap, lqueue}
    Rank <- MCRank
    NoLock = NoLock
    NoOwner = NoOwner
    Sleepers = {t1}
    MaxOps <- MCOps
INVARIANTS
    HolderKeepsCpu
