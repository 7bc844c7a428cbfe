CONSTANTS
    NULL = NULL
    Threads = {self, x}
    Self = self
    Cancellers = {self, x}
    Objects = {o1, o2}
    MaxCallbacks = 4
SPECIFICATION Spec
PROPERTIES
    CancelledNeverRuns
CHECK_DEADLOCK FALSE
