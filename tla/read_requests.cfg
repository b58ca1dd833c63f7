SPECIFICATION Spec
CONSTANTS
    Statuses = {200, 404, 500}
    Packs = {p1, p2}
    Collation <- TwoIds
    None = None
    List = List
    Other = Other
    Lossy = FALSE
    MaxRows = 4
SYMMETRY Symmetry
CHECK_DEADLOCK FALSE
INVARIANTS TypeOK StatusCaptured Responded LogTells ReplyWhole NotFoundMeant HashDecodes
