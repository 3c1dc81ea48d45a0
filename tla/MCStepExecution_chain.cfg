CONSTANTS
    w1 = w1  w2 = w2  ta = ta  tb = tb
    NoTask = NoTask  NoWorker = NoWorker
    Workers = {w1, w2}
    Tasks = {ta, tb}
    TaskOrder <- TwoTasks
    DependsOn <- Chain
    Mortal = {}
    MaxRetries = 0
    MaxLeases = 2
    Heartbeat = {}
    Deadline = TRUE
SPECIFICATION Spec
INVARIANTS
    DependentsWait
