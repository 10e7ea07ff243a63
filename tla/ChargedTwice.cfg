CONSTANTS
    Requests = {r1, r2, r3}
    m1 = m1
    m2 = m2
    k1 = k1
    usd = usd
    eur = eur
    Merchants = {m1, m2}
    Keys = {k1}
    LongKeys = {}
    EmptyKey = EmptyKey
    None = None
    Amounts = {10}
    Currencies = {usd}
    MaxInteger = 50
    Calls <- ClientCalls
SYMMETRY Symmetry
SPECIFICATION Spec
INVARIANTS
    BankChargedAtMostOnce
CHECK_DEADLOCK FALSE
