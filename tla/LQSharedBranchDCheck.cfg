\* Two threads on branch b1 and one on b2: does the PA_DCHECK after the
\* purge (branch size within the loaded capacity) hold?
CONSTANTS
    t1 = t1
    t2 = t2
    t3 = t3
    b1 = b1
    b2 = b2
    Threads <- MCThreads
    Branches <- MCBranches
    BranchOf <- MCBranchOf
    Sizes = {1, 2}
    Capacities = {2, 3}
    CapCount = 2
    SizeMod = 32
    MaxCalls = 2
    NoOwner = NoOwner
SPECIFICATION Spec
SYMMETRY MCSymmetry
PROPERTY InsertWithinLoadedCapacity
