SPECIFICATION Spec
CONSTANTS
    Rows = {r1}
    Copies = {r2}
    Columns = {c1}
    Present = {c1}
    Rated = c1
    View = view
    Values = {v1, v2, empty}
    First = v1
    Empty = empty
    Gone = gone
    NoItem = noItem
    UndoLimit = 10
    MaxOps = 4
    MaxFailures = 1
INVARIANTS
    TypeOK
    InOrder
    QuietMeansInSync
    UndoLeadsBack
    StacksHoldEachOnce
PROPERTIES
    SavingEnds
    LoadingEnds
