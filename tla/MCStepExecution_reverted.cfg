CONSTANTS
    w1 = w1  w2 = w2  ta = ta  tb = tb
    NoTask = NoTask  NoWorker = NoWorker
    Workers = {w1, w2}
    Tasks = {ta}
    TaskOrder <- OneTask
    DependsOn <- Alone
    Mortal = {}
    MaxRetries = 0
    MaxLeases = 3
    Heartbeat = {}
    Deadline = FALSE
SPECIFICATION Spec
PROPERTIES
    CompletedNeverReverted
