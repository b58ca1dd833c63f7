SPECIFICATION FairSpec
CONSTANTS
    Packs = {p1}
    Roles = {a}
    Strings = {x}
    Classes = {image}
    Titles = {t1, t2}
    Resources = {r1, r2, r3}
    None = None
CHECK_DEADLOCK FALSE
PROPERTIES Implements Answered
