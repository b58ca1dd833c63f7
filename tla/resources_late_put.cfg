SPECIFICATION Spec
CONSTANTS
    Packs = {p1}
    Roles = {a}
    Strings = {x}
    Classes = {image}
    Titles = {t1}
    Resources = {r1, r2}
    None = None
    Faults = {"put", "latePut"}
CHECK_DEADLOCK FALSE
INVARIANT ObjectsTracked
