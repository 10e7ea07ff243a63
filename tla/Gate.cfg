CONSTANTS
    Checks = {c1, c2, c3, c4}
    None = None
SPECIFICATION FairSpec
INVARIANTS
    TypeOK
    OneCheckOrTimer
    ButtonTellsTheTruth
PROPERTIES
    NothingAfterCleanup
    GateOpens
