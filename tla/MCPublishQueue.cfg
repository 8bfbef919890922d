\* One dialog publishes, on a worker or on the main thread beside a closure of the GUI, with
\* timeouts and without; or none does, and two workers and the GUI queue closures.
SPECIFICATION MCFairSpec
CONSTANTS
    Jobs = {p1, p2, g1, g2, g3}
    Publishes = {p1, p2}
    Workers = {w1, w2}
    Main = Main
    Batch = 1
    None = None
    p1 = p1  p2 = p2  g1 = g1  g2 = g2  g3 = g3  w1 = w1  w2 = w2
INVARIANTS TypeOK OneTimer TimelyReportIsOwn LockDiscipline
PROPERTIES DrainsThenStops EveryClickReports
CHECK_DEADLOCK FALSE
