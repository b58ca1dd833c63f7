SPECIFICATION Spec
CONSTANTS
    Packs = {p1}
    Roles = {a}
    Strings = {x, y}
    Classes = {image}
    Titles = {t1}
    Resources = {r1, r2, r3}
    None = None
    Faults <- AllFaults
SYMMETRY Symmetry
CHECK_DEADLOCK FALSE
INVARIANTS TypeOK ReferencedHasObject ObjectsTracked SlotsExclusive HashMatches
PROPERTY DeletedLast
