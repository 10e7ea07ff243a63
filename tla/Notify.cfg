CONSTANTS
    Requests = {r1, r2, r3}
    r1 = r1
    m1 = m1
    m2 = m2
    k1 = k1
    usd = usd
    Merchants = {m1, m2}
    UrlMerchants = {m1}
    Keys = {k1}
    LongKeys = {}
    EmptyKey = EmptyKey
    None = None
    Amounts = {10}
    Currencies = {usd}
    MaxInteger = 50
    Calls <- NotifyCalls
    Workers = {w1}
    MaxAttempts = 2
    Backoff <- OneDelay
    BatchSize = 1
    MaxFaults = 1
SPECIFICATION FairSystem
INVARIANTS
    OnlySuccessIsAnnounced
    OneRowPerSuccess
PROPERTIES
    EveryRequestEnds
    SuccessIsNotified
CHECK_DEADLOCK FALSE
