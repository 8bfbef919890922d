\* One publish at a time of a file that is saved meanwhile; failing requests.
SPECIFICATION FairSpec
CONSTANTS
    Procs = {p1}
    a = a  b = b
    Chunks = {a, b}
    Files <- Saves
    Canonical <- CanonicalForm
    None = None
INVARIANTS TypeOK CompleteVersions UnsavedVersionsLoad RetrySucceeds
PROPERTIES PublishesEnd PublishIsAtomic
