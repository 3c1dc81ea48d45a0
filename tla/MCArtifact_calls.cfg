CONSTANTS
    c1 = c1  c2 = c2  c3 = c3
    Calls = {c1, c2, c3}
    Mortal = {c1}
SPECIFICATION FairSpec
INVARIANTS
    TypeOK
PROPERTIES
    MovesForward
    DeletingEnds
    DanglingEnds
    StalledEnds
