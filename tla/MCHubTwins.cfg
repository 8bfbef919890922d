\* Two clients spawn a hub at the same time.
SPECIFICATION Spec
CONSTANTS
    Hubs = {h1, h2}
    Clients = {t1, t2}
    Ports = {n1, n2}
    Overlap = TRUE
    Stops = TRUE
    Crashes = FALSE
    PortsTaken = FALSE
    None = None
    Other = Other
INVARIANT SingleHub
CHECK_DEADLOCK FALSE
