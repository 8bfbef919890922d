\* Two processes, two contents that do not fit together; crashes, a faulty
\* server, deletions that fail.  All rows have one age: any may be evicted first.
SPECIFICATION Spec
CONSTANTS
    Procs = {p1, p2}
    c1 = c1
    c2 = c2
    c3 = c3
    Contents = {c1, c2}
    Posix = TRUE
    Names = {n1}
    SizeOf <- SizesOf
    Small <- SmallOnes
    MaxBytes = 2
    Batch = 1
    MaxClock = 0
    Faulty = TRUE
    Crashes = TRUE
    UnlinkFails = TRUE
    None = None
SYMMETRY Symmetry
INVARIANTS TypeOK FinalFilesVerified
PROPERTY StoreSpec
