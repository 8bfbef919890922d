\* Hubs start at the same time, in every order of their steps.
SPECIFICATION Spec
CONSTANTS
    Hubs = {h1, h2, h3}
    Clients = {t1, t2}
    Ports = {n1, n2}
    Overlap = TRUE
    Stops = FALSE
    Crashes = FALSE
    PortsTaken = FALSE
    None = None
    Other = Other
SYMMETRY Symmetry
INVARIANT RaceHasWinner
\* The instance may stop: three identities and two ports can be used up.
CHECK_DEADLOCK FALSE
