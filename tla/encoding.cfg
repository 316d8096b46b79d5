SPECIFICATION FairSpec
CONSTANTS
    usb = usb
    tcp = tcp
    uart = uart
    unix = unix
    HDLC_BUF_SIZE = 16
    Stream = {tcp, uart}
    Blocking = {uart}
    Usb = {usb}
    Raw = {unix}
    VMIN = 4
    DIAG_MAX_BAD_CMD = 1
    Cmd <- MCCmd
    MaxCommands = 3
    MaxClosed = 1
    MaxAnswers = 2
PROPERTIES RecoveryEnds
INVARIANTS
    TypeOK
    RecoveryArmed
    OneEncoding
    CommandsIntact
CHECK_DEADLOCK FALSE
