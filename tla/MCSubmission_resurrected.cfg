CONSTANTS
    a = a  b = b  c = c  k1 = k1  k2 = k2  t1 = t1  t2 = t2
    Callers = {a, b}
    Keys = {k1, k2}
    KeyOf <- Pair
    Tasks = {t1, t2}
    TaskOrder <- TwoTasks
    Mortal = {a}
    MaxRuns = 2
SPECIFICATION Spec
PROPERTIES
    EndedStays
CHECK_DEADLOCK FALSE
