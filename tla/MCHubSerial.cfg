\* Hubs start one at a time; they crash, are stopped, lose their port.
SPECIFICATION FairSpec
CONSTANTS
    Hubs = {h1, h2, h3}
    Clients = {t1}
    Ports = {n1, n2}
    Overlap = FALSE
    Stops = TRUE
    Crashes = TRUE
    PortsTaken = TRUE
    None = None
    Other = Other
INVARIANTS TypeOK ReachableHub
PROPERTIES ClearsOwnSession ClientsServed
