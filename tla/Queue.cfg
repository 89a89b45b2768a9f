SPECIFICATION FairSpec
CONSTANTS
    Bundles = {"bundle"}
    System = "system"
    Runs = {1, 2}
    StoreOf <- MCStoreOf
    Workers = {"w0", "w1", "w2"}
    SystemWorker = "w0"
    Threads = {"t1", "t2"}
    Requests = {"q1", "q2"}
    Host = "host"
    None = "none"
    MaxReturns = 1
    MaxCrashes = 1
INVARIANTS
    OneExecutor
    NoOrphans
PROPERTIES
    QueueIsServed
    RunsKeepProtocol
CHECK_DEADLOCK FALSE
