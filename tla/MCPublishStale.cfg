\* One dialog publishes, with timeouts.
SPECIFICATION MCSpec
CONSTANTS
    Jobs = {p1, p2, g1}
    Publishes = {p1, p2}
    Workers = {w1}
    Main = Main
    Batch = 1
    None = None
    p1 = p1  p2 = p2  g1 = g1  g2 = g2  g3 = g3  w1 = w1  w2 = w2
INVARIANT ReportIsOwn
CHECK_DEADLOCK FALSE
