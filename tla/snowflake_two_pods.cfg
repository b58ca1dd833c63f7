SPECIFICATION Spec
CONSTANTS
    Machines = {0, 1}
    MachineCount = 2
    SequenceCount = 2
    TimeCount = 2
    MaxTime = 3
    MaxCalls = 6
CHECK_DEADLOCK FALSE
INVARIANT UniqueIds
