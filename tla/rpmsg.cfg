SPECIFICATION FairSpec
CONSTANTS
    r = r
    q = q
    Perif = {r, q}
    Qrtr = {q}
    Name = {"a", "b", "c", "d"}
    Garbage = Garbage
    NoAnswer = NoAnswer
    DIAG_ID_APPS = 1
    IdModulus = 256
    MSG_MASK_TBL_CNT = 1
    Common = {125}
    Channels <- WithCmd
    Script <- RestartScript
    DmCommand <- MCDmCommand
    MaxCommands = 1
    MaxNotices = 1
    MaxBoots <- RTwice
INVARIANTS
    TypeOK
    NoStale
    RegistryExact
    FeaturesAgree
PROPERTIES
    RestartsServed
    CntlDrained
CHECK_DEADLOCK FALSE
