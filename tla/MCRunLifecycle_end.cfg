CONSTANTS
    w1 = w1  w2 = w2  ta = ta  tb = tb
    NoTask = NoTask
    Workers = {w1, w2}
    Tasks = {ta, tb}
    TaskOrder <- TwoTasks
    MaxCalls = 1
    Deadline = TRUE
    Mortal = {w1}
    Stale = {ta}
SPECIFICATION FairSpec
INVARIANTS
    TypeOK
    CompletedIsDone
    OverrunBounded
    CancelStopsWork
    JobNotAhead
PROPERTIES
    TerminalStays
    CancelEndsRun
