SPECIFICATION Spec
CONSTANTS
    c1 = c1
    c2 = c2
    c3 = c3
    c4 = c4
    None = None
    Call = {c1, c2, c3, c4}
    Doctors = {c4}
    Foreign = {c3}
    HostOf <- MCHostOf
    Faults = {"crash", "stamp_error", "share"}
    MaxBeat = 1
SYMMETRY Symmetry
INVARIANTS
    ExclusionInv
    MutualExclusion
    HolderOwnsLock
    FenceInv
    BreakersExclude
    EvidenceStable
PROPERTIES
    OnlyTheDeadAreBroken
    ImplementsMutex
