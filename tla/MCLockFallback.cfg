\* Two processes of a system without flock want one content.
SPECIFICATION Spec
CONSTANTS
    Procs = {p1, p2}
    c1 = c1
    c2 = c2
    c3 = c3
    Contents = {c1}
    Posix = FALSE
    Names = {n1}
    SizeOf <- SizesOf
    Small <- SmallOnes
    MaxBytes = 2
    Batch = 1
    MaxClock = 0
    Faulty = FALSE
    Crashes = FALSE
    UnlinkFails = FALSE
    None = None
INVARIANT MutualExclusion
