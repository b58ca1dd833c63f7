SPECIFICATION Spec
CONSTANTS
    Machines = {0, 1}
    MachineCount = 2
    SequenceCount = 2
    TimeCount = 2
    MaxTime = 2
    MaxCalls = 5
CHECK_DEADLOCK FALSE
INVARIANTS TypeOK UniquePerPod
