SPECIFICATION FairSpec
CONSTANTS
    c1 = c1
    c2 = c2
    p1 = p1
    k1 = k1
    Client = {c1, c2}
    Perif = {p1}
    Flow = {p1}
    Usb = Usb
    BulkOut = BulkOut
    Ep0 = Ep0
    Listen = Listen
    Fd = {c1, c2, p1, k1, Usb, BulkOut, Ep0, Listen}
    cmd_fd <- MCcmd_fd
    QrtrSockets <- MCQrtrSockets
    UseUsb = FALSE
    Mbuf = {0, 1, 2, 3}
    OutBuf = 0
    NoFlow = NoFlow
    Unallocated = Unallocated
    NoMbuf = NoMbuf
    NoClient = NoClient
    FLOW_WATERMARK = 0
    MaxEvents = 32
    Command = {"local"}
    Route <- MCRoute
    Slow = {c1}
    MaxInbox = 1
    Budget <- UnixBudget
INVARIANTS
    TypeOK
    FlowBalanced
    FlowBound
    Ownership
    NoDangling
    PendingIsOutstanding
PROPERTIES
    BroadcastSpec
    DataServed
    BuffersFreed
    CommandsServed
CHECK_DEADLOCK FALSE
