CONSTANTS
    w1 = w1  w2 = w2  r1 = r1  m1 = m1
    NoMsg = NoMsg
    Workers = {w1, w2}
    Reconcilers = {r1}
    Msgs = {m1}
    Mortal = {w1}
    MaxGen = 2
    MaxAttempt = 3
SPECIFICATION FairSpec
INVARIANTS
    TypeOK
    UniqueDelivery
PROPERTIES
    AttemptsNeverLost
    ImplementsQueue
    ActiveClaimable
    GhostsPruned
