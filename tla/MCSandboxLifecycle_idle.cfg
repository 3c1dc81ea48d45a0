CONSTANTS
    r1 = r1  r2 = r2  q1 = q1
    NoRun = NoRun
    Runs = {r1, r2}
    Mortal = {r1}
    Requests = {q1}
    Alone = {r1}
SPECIFICATION FairSpec
INVARIANTS
    TypeOK
    
PROPERTIES
    IdleHibernates
