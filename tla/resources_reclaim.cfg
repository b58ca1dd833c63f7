SPECIFICATION FairSpec
CONSTANTS
    Packs = {p1}
    Roles = {a}
    Strings = {x, y}
    Classes = {image}
    Titles = {t1}
    Resources = {r1, r2, r3}
    None = None
    Faults <- RequestFaults
CHECK_DEADLOCK FALSE
INVARIANT Accounted
PROPERTY Reclaimed
