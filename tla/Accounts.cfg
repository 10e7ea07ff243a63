CONSTANTS
    Tabs = {t1, t2}
    Requests = {r1, r2, r3, r4}
    Emails = {e1, e2}
    None = None
SYMMETRY Symmetry
SPECIFICATION Spec
INVARIANTS
    TypeOK
    StoredKeyWorks
    OneAccountPerEmail
    OnlyKeylessRefused
