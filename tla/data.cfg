SPECIFICATION FairSpec
CONSTANTS
    HDLC_BUF_SIZE = 8
    Script <- MCScript
    Answers <- MCAnswers
    RAW_SIZE = 1
    CMD_SIZE = 6
    FLOW_WATERMARK = 0
    Listeners = 1
    MaxPacket = 8
    MaxQueued = 2
    MaxIdle = 1
    MaxDowns = 1
INVARIANTS
    TypeOK
    InOrder
    AnswersIntact
    DecoderInBounds
    Resynchronises
PROPERTIES
    AllDecoded
CHECK_DEADLOCK FALSE
