\* Two processes, two files with a common chunk, one with a patch; failing requests, a server that
\* may send wrong bytes, crashes.
SPECIFICATION Spec
CONSTANTS
    Procs = {p1, p2}
    m1 = m1  m2 = m2  h1 = h1  z1 = z1
    Contents = {m1, m2}
    Posix = TRUE
    Chunks = {h1}
    Patches = {z1}
    Parts <- SharedParts
    Crashes = TRUE
    None = None
SYMMETRY Symmetry
INVARIANTS TypeOK StoredVerified RetrySucceeds
