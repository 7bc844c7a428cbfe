CONSTANTS
    NULL = NULL
    Threads = {self}
    Self = self
    Cancellers = {self}
    Objects = {l1, l2}
    MaxCallbacks = 3
    MaxArrivals = 2
SPECIFICATION SocketSpec
PROPERTIES
    AcceptedIsDelivered
CHECK_DEADLOCK FALSE
