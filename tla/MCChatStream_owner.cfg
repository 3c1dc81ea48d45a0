CONSTANTS
    p1 = p1  p2 = p2  p3 = p3  c1 = c1
    NoRun = NoRun
    Requests = {p1, p2, p3}
    Clients = {c1}
    Unlucky = {p1}
    Tries = 2
SPECIFICATION VisitSpec
INVARIANTS
    TypeOK
    AnsweringOwns
PROPERTIES
    StaleCleared
CHECK_DEADLOCK FALSE
