CONSTANTS
    r1 = r1
    r2 = r2
    r3 = r3
    Requests = {r1, r2, r3}
    Confirms <- SomeConfirm
    Conns = {c1, c2, c3}
    MinConn = 1
    MaxConn = 2
    MaxFaults = 2
    None = None
SPECIFICATION FairSpec
INVARIANTS
    TypeOK
    PoolIsClean
    OneFailurePerLoss
    LiveChargesExclude
    OutcomeIsTrue
PROPERTIES
    SettledOnce
    RefusedByCrowd
    NoRequestHangs
