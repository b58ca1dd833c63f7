SPECIFICATION Spec
CONSTANTS
    Tabs = {tab1, tab2}
    Sessions = {s1}
    None = None
SYMMETRY Symmetry
CHECK_DEADLOCK FALSE
INVARIANTS TypeOK FlagJustified ShownIsFlag
PROPERTY ClearSticks
