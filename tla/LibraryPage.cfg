SPECIFICATION Spec
CHECK_DEADLOCK FALSE
CONSTANTS
    a = a
    b = b
    f = f
    Dirs = {a, b}
    Files = {f}
    NameOrder <- MCOrder
    Openings <- MCOpenings
INVARIANTS
    TypeOK
    QuietShowsServer
    AddressIsPath
    SelectionIsOfFolder
    QuietTreeShowsServer
PROPERTIES
    ListLoadingEnds
