CONSTANTS
    Payments = {p1, p2, p3}
    FormPayments = {p3}
    PageSize = 1
    MaxRefreshes = 2
    MaxShown = 1
    None = None
SYMMETRY Symmetry
SPECIFICATION Spec
INVARIANTS
    TypeOK
    NothingSkipped
    AnnouncedIsListed
CHECK_DEADLOCK FALSE
