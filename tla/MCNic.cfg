CONSTANTS
    PCI_MAX_DEVICES = 3
    PCI_FNS = 2
    Machines <- MCMachines
    RX_RING = 184
    PTR_MOD = 368
    MAX_PLEN = 114
    NET_MTU = 114
    TX_MAX = 100
    TX_BUFS = 2
    Frames <- MCFrames
    OurMac = "us"
    MaxFrames = 4
SPECIFICATION Spec
INVARIANTS DriversBind ReceiveInOrder FramesStable SentInOrder
PROPERTIES EventuallyReceived RepliesSent
CHECK_DEADLOCK FALSE
