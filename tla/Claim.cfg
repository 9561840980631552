SPECIFICATION BoundedSpec
CONSTANTS
    p1 = p1
    p2 = p2
    NoRow = NoRow
    Proofs = {p1, p2}
    PageSize = 1
    MaxPages = 2
    MaxRestarts = 1
    MaxResults = 1
    Happens <- Everything
INVARIANTS
    UnlandedResultTracked
    RowsAreTrue
PROPERTIES
    RowsAreHeeded
