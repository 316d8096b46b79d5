SPECIFICATION Spec
CONSTANTS
    c1 = c1
    c2 = c2
    p1 = p1
    k1 = k1
    Client = {c1}
    Perif = {p1}
    Flow = {p1}
    Usb = Usb
    BulkOut = BulkOut
    Ep0 = Ep0
    Listen = Listen
    Fd = {c1, p1, k1, Usb, BulkOut, Ep0, Listen}
    cmd_fd <- MCcmd_fd
    QrtrSockets <- MCQrtrSockets
    UseUsb = FALSE
    Mbuf = {0, 1, 2, 3, 4}
    OutBuf = 0
    NoFlow = NoFlow
    Unallocated = Unallocated
    NoMbuf = NoMbuf
    NoClient = NoClient
    FLOW_WATERMARK = 1
    MaxEvents = 32
    Command = {"local", "fwd"}
    Route <- MCRoute
    Slow = {}
    MaxInbox = 1
    Budget <- QrtrBudget
INVARIANTS
    AssertHolds
CHECK_DEADLOCK FALSE
