CONSTANTS
    Requests = {r1, r2, r3, r4}
    m1 = m1
    m2 = m2
    k1 = k1
    usd = usd
    eur = eur
    Merchants = {m1, m2}
    Keys = {k1}
    LongKeys = {k1}
    EmptyKey = EmptyKey
    None = None
    Amounts = {10, 11, 12, 20, 99}
    Currencies = {usd, eur}
    MaxInteger = 50
    Calls <- BookCalls
SYMMETRY Symmetry
SPECIFICATION Spec
INVARIANTS
    SettlementAtomic
    BalanceIsSucceeded
    BooksBalance
PROPERTIES
    ImplementsLifecycle
CHECK_DEADLOCK FALSE
