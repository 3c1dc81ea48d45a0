CONSTANTS
    c1 = c1  c2 = c2  a1 = a1  q1 = q1  q2 = q2
    NoRun = NoRun
    Calls = {c1, c2}
    Archivers = {a1}
    Requests = {q1, q2}
    Alone = {c2}
SPECIFICATION Spec
SYMMETRY AnyRequest
INVARIANTS
    TypeOK
    OneProvisioner
    ArchivedIsStopped
CHECK_DEADLOCK FALSE
