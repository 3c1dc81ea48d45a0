CONSTANTS
    w1 = w1  w2 = w2  ta = ta  tb = tb
    NoTask = NoTask  NoWorker = NoWorker
    Workers = {w1, w2}
    Tasks = {ta}
    TaskOrder <- OneTask
    DependsOn <- Alone
    Mortal = {}
    MaxRetries = 1
    MaxLeases = 2
    Heartbeat = {w1}
    Deadline = FALSE
SPECIFICATION Spec
INVARIANTS
    TypeOK
    CurrentStepExists
    SingleFlight
PROPERTIES
    FencedCommit
    ImplementsFencing
