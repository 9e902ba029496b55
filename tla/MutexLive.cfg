SPECIFICATION FairSpec
CONSTANTS
    c1 = c1
    c2 = c2
    c3 = c3
    c4 = c4
    None = None
    Call = {c1, c2, c3}
    Doctors = {c3}
    Foreign = {c3}
    HostOf <- MCHostOf
    Faults = {"crash", "crash_stamp", "crash_breaker", "stall_holder", "stamp_error", "share", "rmdir", "signal"}
    MaxBeat = 0
PROPERTIES
    EveryCallEnds
