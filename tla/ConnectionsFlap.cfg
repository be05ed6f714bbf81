SPECIFICATION Spec
CONSTANTS
    Peers <- TwoPeers
    NumIds = 4
    Faults <- Flaps
    MaxConns = 3
    MaxFaults = 2
    None = None
INVARIANT SameConnection
CHECK_DEADLOCK FALSE
