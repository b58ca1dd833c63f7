SPECIFICATION Spec
CONSTANTS
    Packs = {p1}
    Roles = {a}
    Strings = {x, y}
    Classes = {image}
    Titles = {t1}
    Resources = {r1, r2, r3, r4}
    None = None
SYMMETRY Symmetry
CHECK_DEADLOCK FALSE
INVARIANTS TypeOK HashMatches SlotsSound ReplyConsistent
PROPERTY Implements
