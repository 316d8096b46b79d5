SPECIFICATION Spec
CONSTANTS
    r = r
    q = q
    Perif = {r, q}
    Qrtr = {q}
    Name = {"a", "b", "c", "d"}
    Garbage = Garbage
    NoAnswer = NoAnswer
    DIAG_ID_APPS = 1
    IdModulus = 256
    MSG_MASK_TBL_CNT = 0
    Common = {125}
    Channels <- WithoutCmd
    Script <- BothScript
    DmCommand <- MCDmCommand
    MaxCommands = 1
    MaxNotices = 0
    MaxBoots <- QTwice
INVARIANTS
    IdsAgree
    RegistryExact
    QueueHasChannel
CHECK_DEADLOCK FALSE
