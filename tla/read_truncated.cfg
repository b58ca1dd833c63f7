SPECIFICATION Spec
CONSTANTS
    Statuses = {200, 404, 500}
    Packs = {p1, p2}
    Collation <- TwoIds
    None = None
    List = List
    Other = Other
    Lossy = TRUE
    MaxRows = 4
SYMMETRY Symmetry
CHECK_DEADLOCK FALSE
INVARIANT PackReplyWhole
