SPECIFICATION FairSpec
CONSTANTS
    Peers <- TwoPeers
    NumIds = 3
    Faults <- AllFaults
    MaxConns = 3
    MaxFaults = 2
    None = None
INVARIANTS IndexExact ConfirmedByAcceptor OneConnection
PROPERTIES AllConnect Reconnects
\* Peers that are connected, or lost to each other, have nothing left to do.
CHECK_DEADLOCK FALSE
