SPECIFICATION Spec
CONSTANTS
    c1 = c1
    c2 = c2
    c3 = c3
    c4 = c4
    None = None
    Call = {c1, c2, c3}
    Doctors = {}
    Foreign = {}
    HostOf <- MCHostOf
    Faults = {"crash_stamp"}
    MaxBeat = 0
SYMMETRY Symmetry
INVARIANT MutualExclusion
