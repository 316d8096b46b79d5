SPECIFICATION FairSpec
CONSTANTS
    r = r
    q = q
    Perif = {r, q}
    Qrtr = {q}
    Name = {"a", "b", "c", "d"}
    Garbage = Garbage
    NoAnswer = NoAnswer
    DIAG_ID_APPS = 1
    IdModulus = 256
    MSG_MASK_TBL_CNT = 1
    Common = {125}
    Channels <- WithCmd
    Script <- RestartScript
    DmCommand <- MCDmCommand
    MaxCommands = 0
    MaxNotices = 0
    MaxBoots <- RTwice
PROPERTIES
    SubsystemsServed
CHECK_DEADLOCK FALSE
