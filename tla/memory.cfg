CONSTANTS
    KM_PAGE_SIZE = 2
    MIB = 4
    GIB = 64
    PML4E_REGION = 512
    Widths = {512}
    Asked = {0, 256}
    VdsoPages = {1}
    Brks <- MCBrks
    Tbrks <- MCTbrks
    WholeZone = FALSE
SPECIFICATION Spec
INVARIANTS  MapsExact SlotsExact
PROPERTIES FailureHarmless
CHECK_DEADLOCK FALSE
