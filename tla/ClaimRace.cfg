SPECIFICATION Spec
CONSTANTS
    NoRow = NoRow
    Proofs = {p1}
    PageSize = 1
    MaxPages = 2
    MaxRestarts = 0
    MaxResults = 2
    Happens = {"cancel", "gaveup", "lost", "unread", "failure"}
INVARIANT PendingMeansProving
