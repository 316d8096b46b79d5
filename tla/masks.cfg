SPECIFICATION Spec
CONSTANTS
    p1 = p1
    p2 = p2
    Perif = {p1, p2}
    Unset = Unset
    ssid_first_arr <- MCfirst
    ssid_last_arr <- MClast
    MAX_SSID_PER_RANGE = 3
    BYTE = 2
    log_items <- MCitems
    MAX_ITEMS_ALLOWED = 4095
    EQUIP_MODULUS = 256
    APPS_EVENT_LAST_ID = 12
    MsgSsid = {0, 1, 2, 3, 4, 5}
    LogEquip = {1, 9, 257}
    LogItems = {0, 8, 5000}
    MAX_NUM_BITS = 65535
    EventBits = {5, 12, 20}
    MaxCommands = 2
    MaxQueue = 0
SYMMETRY Symmetry
INVARIANTS
    TypeOK
    ToldMasksKept
    MsgMasksCurrent
    LogMasksCurrent
    EventMasksCurrent
CHECK_DEADLOCK FALSE
