CONSTANTS
    Requests = {r1, r2, r3}
    m1 = m1
    m2 = m2
    k1 = k1
    usd = usd
    eur = eur
    Merchants = {m1}
    Keys = {}
    LongKeys = {}
    EmptyKey = EmptyKey
    None = None
    Amounts = {10}
    Currencies = {usd}
    MaxInteger = 50
    Calls <- EmptyKeyCalls
SYMMETRY Symmetry
SPECIFICATION Spec
INVARIANTS
    DuplicateInsertRecovers
CHECK_DEADLOCK FALSE
