\* One worker and the main thread queue closures.
SPECIFICATION FairQueueSpec
CONSTANTS
    Jobs = {j1, j2}
    Workers = {w1}
    Main = Main
    Batch = 1
    None = None
    j1 = j1  j2 = j2  j3 = j3  w1 = w1  w2 = w2
PROPERTY EveryClosureRuns
CHECK_DEADLOCK FALSE
