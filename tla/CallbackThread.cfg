CONSTANTS
    NULL = NULL
    Threads = {self, x}
    Self = self
    Cancellers = {self}
    Objects = {o1, o2}
    MaxCallbacks = 4
SPECIFICATION Spec
INVARIANTS
    NoLostWakeup
    NeverAborts
    RunsInOrder
PROPERTIES
    CancelledNeverRuns
    ScheduledRuns
    StopEnds
CHECK_DEADLOCK FALSE
