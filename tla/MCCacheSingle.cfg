\* One process of a system without flock, perhaps with sentinels of a dead one;
\* deletions fail; three contents: two fit together, the
\* third never fits.
SPECIFICATION FairSpec
CONSTANTS
    Procs = {p1}
    c1 = c1
    c2 = c2
    c3 = c3
    Contents = {c1, c2, c3}
    Posix = FALSE
    Names = {n1}
    SizeOf <- SizesOf
    Small <- SmallOnes
    MaxBytes = 3
    Batch = 2
    MaxClock = 2
    Faulty = TRUE
    Crashes = FALSE
    UnlinkFails = TRUE
    None = None
INVARIANTS CacheAtRest
PROPERTIES EvictsLeastRecentlyUsed CallsEnd
