CONSTANTS
    NULL = NULL
    InitialCaps = {{"HWCSUM", "VLAN_HWFILTER", "LRO"}, {"RXVLAN", "RXHASH", "UFO"}}
    Frozen = {"UFO"}
    MaxRegisters = 1
    MaxFailures = 1
    Slots = 3
    Spares = 2
    MaxPackets = 4
    MaxSends = 3
SPECIFICATION Spec
INVARIANTS
    OffloadsOff
CHECK_DEADLOCK FALSE
