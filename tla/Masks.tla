-------------------------------- MODULE Masks --------------------------------
(***************************************************************************)
(* The log, message and event masks of masks.c, the commands of             *)
(* common_cmds.c that set them, and how they reach the peripherals: by the  *)
(* broadcasts of peripheral.c, and by diag_cntl_send_masks when a           *)
(* peripheral is opened or answers with its features.                       *)
(*                                                                         *)
(* Contents are small numbers.  A message mask is a word of two bytes to    *)
(* the base BYTE.  Of a log mask only the number of items it enables is     *)
(* kept, all of them or none.  A byte of an event mask is on or off.  Only  *)
(* the masks from ssid_first to ssid_last of an entry are kept: the code    *)
(* stores those behind ssid_last and never shows them to anyone.  Memory is *)
(* never short.                                                             *)
(***************************************************************************)
EXTENDS Naturals, Sequences, FiniteSets

CONSTANTS
    Perif,              \* peripherals
    Unset,              \* a mask a subsystem was never told
    ssid_first_arr,     \* masks.h:75
    ssid_last_arr,      \* masks.h:81
    MAX_SSID_PER_RANGE, \* 200
    BYTE,               \* values of a byte: 256
    log_items,          \* items of each equipment id, from log_code_last_tbl
    MAX_ITEMS_ALLOWED,  \* 0xFFF
    EQUIP_MODULUS,      \* equipment ids have 8 bits in the table and in packets: 256
    APPS_EVENT_LAST_ID, \* bits of the event mask at first
    MsgSsid,            \* message ids in requests
    LogEquip,           \* equipment ids in requests
    LogItems,           \* numbers of log items in requests
    MAX_NUM_BITS,       \* event bits in a request are counted in 16 bits: 65535
    EventBits,          \* numbers of event bits in requests
    MaxCommands,        \* bound on commands of DMs
    MaxQueue            \* bound on packets waiting when features are answered

Table == 1..Len(ssid_first_arr)
Equip == DOMAIN log_items

ASSUME MasksAssumption ==
    /\ ssid_first_arr \in Seq(Nat) /\ ssid_last_arr \in Seq(Nat)
    /\ Len(ssid_last_arr) = Len(ssid_first_arr)
    /\ \A i \in Table :
          /\ ssid_first_arr[i] <= ssid_last_arr[i]
          /\ ssid_last_arr[i] - ssid_first_arr[i] < MAX_SSID_PER_RANGE
          /\ i + 1 \in Table => ssid_last_arr[i] < ssid_first_arr[i + 1]
    /\ MAX_SSID_PER_RANGE \in Nat
    /\ BYTE \in Nat \ {0, 1}
    /\ MAX_ITEMS_ALLOWED \in Nat
    /\ log_items \in [Equip -> 0..MAX_ITEMS_ALLOWED]
    /\ Equip \subseteq 0..(EQUIP_MODULUS - 1)
    /\ EQUIP_MODULUS \in Nat \ {0}
    /\ APPS_EVENT_LAST_ID \in Nat
    /\ MsgSsid \subseteq Nat
    /\ LogEquip \subseteq Nat
    /\ LogItems \subseteq Nat
    /\ MAX_NUM_BITS \in Nat /\ EventBits \subseteq 0..MAX_NUM_BITS
    /\ MaxCommands \in Nat

BITS_TO_BYTES(n) == (n + 7) \div 8

Least(S) == CHOOSE x \in S : \A y \in S : x <= y

Ssids(i) == ssid_first_arr[i]..ssid_last_arr[i]
AllSsids == UNION {Ssids(i) : i \in Table}

EventBytes == 1..BITS_TO_BYTES(CHOOSE n \in EventBits \cup {APPS_EVENT_LAST_ID} :
                                 \A m \in EventBits \cup {APPS_EVENT_LAST_ID} : m <= n)

\* An entry of the table: how far the tools have extended it, the size of that
\* range and the size of the buffer.
MsgEntry == [ssid_last_tools : Nat, range_tools : Nat, allocated : Nat]

Kind == {"msg", "log", "event"}
Status == {"INVALID", "ALL_DISABLED", "ALL_ENABLED", "VALID"}

VARIABLES
    msg,                 \* msg_mask: an entry for each range of message ids
    mask,                \* the masks the entries hold
    log,                 \* log_mask: an entry for each equipment id
    event,               \* event_mask
    event_max_num_bits,
    status,              \* msg_mask.status, log_mask.status, event_mask.status
    peripherals,         \* the peripherals with a control channel, in list order
    cntlq,               \* mask packets in peripheral->cntlq
    crashed,             \* the process is gone
    commands,            \* commands of DMs so far
    view,                \* what each subsystem was told
    reached,             \* history: an entry was extended to one behind it
    astray               \* history: equipment ids for which the last broadcast did
                         \* not look up their masks

tables == <<msg, mask, log, event, event_max_num_bits, status>>
vars == <<tables, peripherals, cntlq, crashed, commands, view, reached, astray>>

Blank == [msg   |-> [s \in AllSsids |-> Unset],
          log   |-> [e \in Equip |-> Unset],
          event |-> [b \in EventBytes |-> Unset]]

\* diag_masks_init: messages are all enabled, logs and events are not, and no
\* status says so.
Init ==
    /\ msg = [i \in Table |->
                [ssid_last_tools |-> ssid_last_arr[i],
                 range_tools     |-> MAX_SSID_PER_RANGE,
                 allocated       |-> MAX_SSID_PER_RANGE]]
    /\ mask = [s \in AllSsids |-> BYTE * BYTE - 1]
    /\ log = [e \in Equip |-> [num_items_tools |-> log_items[e], mask |-> 0]]
    /\ event_max_num_bits = APPS_EVENT_LAST_ID
    /\ event = [b \in 1..BITS_TO_BYTES(APPS_EVENT_LAST_ID) |-> 0]
    /\ status = [k \in Kind |-> "INVALID"]
    /\ peripherals = <<>>
    /\ cntlq = [p \in Perif |-> <<>>]
    /\ crashed = FALSE
    /\ commands = 0
    /\ view = [p \in Perif |-> Blank]
    /\ reached = FALSE
    /\ astray = {}

-----------------------------------------------------------------------------
(* Mask packets: a status, the masks a VALID one carries, the mask that an  *)
(* ALL_ENABLED one stands for.  The tables are those after the command.     *)

Packet(k, st, masks, all) ==
    [kind |-> k, status |-> st,
     masks |-> IF st = "VALID" THEN masks ELSE <<>>,
     all   |-> IF st = "ALL_ENABLED" THEN all ELSE 0]

\* The entry diag_cmd_get_msg_mask finds for a message id: the first whose
\* range, as the tools have extended it, includes the id.
Gets_First(t, s) == {i \in Table : ssid_first_arr[i] = s}

Gets(t, s) == {i \in Table : ssid_first_arr[i] <= s /\ s <= t[i].ssid_last_tools}

\* diag_cmd_get_msg_mask also moves the caller's range to the one of the entry.
Moved(t, s) == IF Gets(t, s) = {} THEN s ELSE ssid_first_arr[Least(Gets(t, s))]

\* What the lookup copies is the range the entry had at first, MAX_SSID_PER_RANGE
\* masks, also when a request has since left its buffer smaller.
Overreads(t, s) == Gets(t, s) # {} /\ t[Least(Gets(t, s))].allocated < MAX_SSID_PER_RANGE

\* Reading or writing past the end of a buffer may be survived.
Survives(unsafe) == crashed' = FALSE \/ (unsafe /\ crashed' = TRUE)

\* diag_cntl_send_msg_mask.  No entry is found only for a request for no masks.
MsgPacket(t, m, st, s) ==
    IF Gets(t, s) = {} THEN Packet("msg", st, <<>>, 0)
    ELSE LET i == Least(Gets(t, s))
         IN  Packet("msg", st, [x \in Ssids(i) |-> m[x]], m[ssid_first_arr[i]])

\* diag_cntl_send_log_mask: no items if there is no such id, under the low 8 bits
\* of it.
LogPacket(t, st, e) ==
    Packet("log", st, [x \in {e % EQUIP_MODULUS} |-> IF e \in Equip THEN t[e].mask ELSE 0], 0)

\* diag_cntl_send_event_mask
EventPacket(t, st) == Packet("event", st, t, 1)

\* diag_cntl_send_masks: one packet for each range, and only message masks.
SendMasks(q) ==
    q \o [i \in Table |-> MsgPacket(msg, mask, status["msg"], ssid_first_arr[i])]

\* These look the masks up unless they are all off or were never set.
SendOverreads ==
    /\ status["msg"] \in {"VALID", "ALL_ENABLED"}
    /\ \E i \in Table : Overreads(msg, ssid_first_arr[i])

\* peripheral_broadcast_log_mask and peripheral_broadcast_event_mask.
Broadcast(pkt) ==
    cntlq' = [p \in Perif |->
                IF \E k \in 1..Len(peripherals) : peripherals[k] = p
                THEN Append(cntlq[p], pkt) ELSE cntlq[p]]

\* peripheral_broadcast_msg_mask: the peripherals share the range, which the
\* lookup for one peripheral moves for those after it.
Shared(t, s) ==
    LET from[k \in 1..Len(peripherals)] == IF k = 1 THEN s ELSE Moved(t, from[k - 1])
    IN  from

BroadcastMsg(t, m, s) ==
    cntlq' = [p \in Perif |->
                IF \E k \in 1..Len(peripherals) : peripherals[k] = p
                THEN LET k == CHOOSE x \in 1..Len(peripherals) : peripherals[x] = p
                     IN  Append(cntlq[p], MsgPacket(t, m, "VALID", Shared(t, s)[k]))
                ELSE cntlq[p]]

BroadcastOverreads(t, s) == \E k \in 1..Len(peripherals) : Overreads(t, Shared(t, s)[k])

-----------------------------------------------------------------------------
(* Commands of DMs.                                                        *)

Command ==
    /\ ~crashed
    /\ commands < MaxCommands
    /\ commands' = commands + 1
    /\ UNCHANGED <<peripherals, view>>

\* The entry diag_cmd_set_msg_mask picks for a message id: the last that starts
\* at or before it, if it starts close enough.
Sets(s) ==
    {i \in Table : /\ ssid_first_arr[i] <= s
                   /\ s <= ssid_first_arr[i] + MAX_SSID_PER_RANGE
                   /\ i + 1 \in Table => s < ssid_first_arr[i + 1]}

Smaller(m, n) == IF m <= n THEN m ELSE n

Extended_Shrink(i, first, last) ==
    [msg[i] EXCEPT !.ssid_last_tools = last,
                   !.range_tools = last - ssid_first_arr[i] + 1,
                   !.allocated = last - ssid_first_arr[i] + 1]

\* The bounds of entry i for a request for first..last.  One for more than
\* MAX_SSID_PER_RANGE masks is cut and the range of the tools with it; one for
\* more than the range extends it, unless it is for exactly that many.
Extended(i, first, last) ==
    LET start == ssid_first_arr[i]
        num   == Smaller(last + 1 - first, MAX_SSID_PER_RANGE)
        cut   == last + 1 - first > MAX_SSID_PER_RANGE
        entry == IF cut THEN [msg[i] EXCEPT !.range_tools = MAX_SSID_PER_RANGE,
                                            !.ssid_last_tools = start + MAX_SSID_PER_RANGE]
                        ELSE msg[i]
        end   == IF num # MAX_SSID_PER_RANGE THEN last ELSE entry.ssid_last_tools
    IN  IF last > entry.ssid_last_tools
        THEN [entry EXCEPT !.ssid_last_tools = end,
                           !.range_tools = end + 1 - start,
                           !.allocated = end + 1 - start]
        ELSE entry

\* Where the masks of a request end in the buffer of entry i.
End(i, first, last) ==
    first - ssid_first_arr[i] + Smaller(last + 1 - first, MAX_SSID_PER_RANGE)

Written(i, first, masks) ==
    [s \in AllSsids |->
        LET j == s + 1 - first
        IN  IF s \in Ssids(i) /\ s >= first /\ j <= Smaller(Len(masks), MAX_SSID_PER_RANGE)
            THEN masks[j] ELSE mask[s]]

Touches(i, entry) ==
    \E j \in Table : j > i /\ entry.ssid_last_tools >= ssid_first_arr[j]

\* DIAG_CMD_OP_SET_MSG_MASK.  A request that does not fit is refused, its entry
\* keeps the new bounds.
SetMsgMask(first, last, masks) ==
    /\ Command
    /\ IF Sets(first) = {}
       THEN UNCHANGED <<msg, mask, status, cntlq, crashed, reached>>
       ELSE LET i     == CHOOSE x \in Sets(first) : TRUE
                entry == Extended(i, first, last)
                fits  == End(i, first, last) <= entry.range_tools
            IN  /\ msg' = [msg EXCEPT ![i] = entry]
                /\ reached' = (reached \/ Touches(i, entry))
                /\ IF fits
                   THEN /\ mask' = Written(i, first, masks)
                        /\ status' = [status EXCEPT !["msg"] = "VALID"]
                        /\ BroadcastMsg(msg', mask', first)
                        /\ Survives(\/ End(i, first, last) > entry.allocated
                                    \/ BroadcastOverreads(msg', first))
                   ELSE UNCHANGED <<mask, status, cntlq, crashed>>
    /\ UNCHANGED <<log, event, event_max_num_bits, astray>>

\* DIAG_CMD_OP_GET_MSG_MASK only looks up.
GetMsgMask(first) ==
    /\ Command
    /\ Survives(Overreads(msg, first))
    /\ UNCHANGED <<tables, cntlq, reached, astray>>

\* memset repeats the low byte of a word.
Filled(word) == (word % BYTE) * (BYTE + 1)

\* DIAG_CMD_OP_SET_ALL_MSG_MASK.  The broadcast passes no range, and the lookup
\* that is made when messages are enabled reads it.
SetAllMsgMask(word) ==
    /\ Command
    /\ mask' = [s \in AllSsids |-> Filled(word)]
    /\ status' = [status EXCEPT !["msg"] = IF word = 0 THEN "ALL_DISABLED"
                                                       ELSE "ALL_ENABLED"]
    /\ IF word # 0 /\ peripherals # <<>>
       THEN crashed' = TRUE /\ UNCHANGED cntlq
       ELSE /\ Broadcast(Packet("msg", "ALL_DISABLED", <<>>, 0))
            /\ Survives(\E i \in Table : msg[i].range_tools > msg[i].allocated)
    /\ UNCHANGED <<msg, log, event, event_max_num_bits, reached, astray>>

DisableLog_Before ==
    /\ Command
    /\ log' = [e \in Equip |-> [log[e] EXCEPT !.mask = 0]]
    /\ status' = [status EXCEPT !["log"] = "ALL_DISABLED"]
    /\ Broadcast(LogPacket(log, status["log"], 0))
    /\ astray' = {}
    /\ UNCHANGED <<msg, mask, event, event_max_num_bits, crashed, reached>>

\* DIAG_CMD_OP_LOG_DISABLE
DisableLog ==
    /\ Command
    /\ log' = [e \in Equip |-> [log[e] EXCEPT !.mask = 0]]
    /\ status' = [status EXCEPT !["log"] = "ALL_DISABLED"]
    /\ Broadcast(LogPacket(log', "ALL_DISABLED", 0))
    /\ astray' = {}
    /\ UNCHANGED <<msg, mask, event, event_max_num_bits, crashed, reached>>

\* The equipment ids that may be in the answer to a request whose mask has the
\* given bytes.  Only that many bytes of the request are copied, and the id is the
\* first four: the others are whatever was there.
Answered(e, bytes) ==
    LET near == Equip \cup {e}
    IN  IF bytes >= 4 THEN {e}
        ELSE {a \in near \cup {x + EQUIP_MODULUS * EQUIP_MODULUS * EQUIP_MODULUS : x \in near} :
                a % EQUIP_MODULUS^bytes = e % EQUIP_MODULUS^bytes}

\* What a broadcast for equipment id a leaves astray of the ids in S.
Strays(S, a) == IF a \in Equip THEN S \ {a}
                               ELSE S \cup ({a % EQUIP_MODULUS} \cap Equip)

SetLogMask_Uncapped(e, num_items, on) ==
    /\ Command
    /\ e \in Equip
    /\ log' = [log EXCEPT ![e] = [num_items_tools |-> num_items,
                                  mask |-> IF on THEN num_items ELSE 0]]
    /\ status' = [status EXCEPT !["log"] = "VALID"]
    /\ Broadcast(LogPacket(log', "VALID", e))
    /\ UNCHANGED <<msg, mask, event, event_max_num_bits, crashed, reached, astray>>

\* DIAG_CMD_OP_SET_LOG_MASK.  The id is cut to 8 bits for the table, and the
\* broadcast uses the one in the answer.
SetLogMask(e, num_items, on) ==
    /\ Command
    /\ LET num   == Smaller(num_items, MAX_ITEMS_ALLOWED)
           x     == e % EQUIP_MODULUS
           bytes == BITS_TO_BYTES(num)
       IN  IF x \in Equip
           THEN /\ log' = [log EXCEPT ![x] = [num_items_tools |-> num,
                                              mask |-> IF on THEN num ELSE 0]]
                /\ status' = [status EXCEPT !["log"] = "VALID"]
                /\ \E a \in Answered(e, bytes) :
                      /\ Broadcast(LogPacket(log', "VALID", a))
                      /\ astray' = Strays(astray \cup {x}, a)
           ELSE /\ UNCHANGED <<log, status, astray>>
                /\ Broadcast(LogPacket(log, status["log"], e))
    /\ UNCHANGED <<msg, mask, event, event_max_num_bits, crashed, reached>>

\* DIAG_CMD_OP_GET_LOG_MASK broadcasts what it answers.
GetLogMask(e) ==
    /\ Command
    /\ Broadcast(LogPacket(log, status["log"], e))
    /\ astray' = IF status["log"] = "VALID" THEN Strays(astray, e) ELSE astray
    /\ UNCHANGED <<tables, crashed, reached>>

\* DIAG_CMD_SET_MASK: the first bytes of the event mask, which may grow.
SetEventMask(num_bits, bytes) ==
    /\ Command
    /\ event_max_num_bits' = IF num_bits > event_max_num_bits THEN num_bits
                                                              ELSE event_max_num_bits
    /\ event' = [b \in 1..BITS_TO_BYTES(event_max_num_bits') |->
                    IF b <= BITS_TO_BYTES(num_bits) THEN bytes[b] ELSE event[b]]
    /\ status' = [status EXCEPT !["event"] = "VALID"]
    /\ Broadcast(EventPacket(event', "VALID"))
    /\ UNCHANGED <<msg, mask, log, crashed, reached, astray>>

ToggleEvents_Before(enabled) ==
    /\ Command
    /\ Broadcast(EventPacket(event, status["event"]))
    /\ event' = [b \in DOMAIN event |-> IF enabled THEN 1 ELSE 0]
    /\ status' = [status EXCEPT !["event"] = IF enabled THEN "ALL_ENABLED"
                                                        ELSE "ALL_DISABLED"]
    /\ UNCHANGED <<msg, mask, log, event_max_num_bits, crashed, reached, astray>>

\* DIAG_CMD_EVENT_REPORT_CONTROL
ToggleEvents(enabled) ==
    /\ Command
    /\ event' = [b \in DOMAIN event |-> IF enabled THEN 1 ELSE 0]
    /\ status' = [status EXCEPT !["event"] = IF enabled THEN "ALL_ENABLED"
                                                        ELSE "ALL_DISABLED"]
    /\ Broadcast(EventPacket(event', status'["event"]))
    /\ UNCHANGED <<msg, mask, log, event_max_num_bits, crashed, reached, astray>>

-----------------------------------------------------------------------------
(* Peripherals and subsystems.                                             *)

\* peripheral_open ends with the current message masks.
Open(p) ==
    /\ ~crashed
    /\ \A k \in 1..Len(peripherals) : peripherals[k] # p
    /\ peripherals' = Append(peripherals, p)
    /\ cntlq' = [cntlq EXCEPT ![p] = SendMasks(<<>>)]
    /\ Survives(SendOverreads)
    /\ UNCHANGED <<tables, commands, view, reached, astray>>

\* diag_cntl_send_feature_mask: the message masks follow the features.
AnswerFeatures(p) ==
    /\ ~crashed
    /\ \E k \in 1..Len(peripherals) : peripherals[k] = p
    /\ Len(cntlq[p]) <= MaxQueue
    /\ cntlq' = [cntlq EXCEPT ![p] = SendMasks(@)]
    /\ Survives(SendOverreads)
    /\ UNCHANGED <<tables, peripherals, commands, view, reached, astray>>

\* list_del: a peripheral is on the list once.
Without(s, p) ==
    LET k == CHOOSE x \in 1..Len(s) : s[x] = p
    IN  SubSeq(s, 1, k - 1) \o SubSeq(s, k + 1, Len(s))

\* perif_rpmsg_close, after the subsystem went down.
Close(p) ==
    /\ ~crashed
    /\ \E k \in 1..Len(peripherals) : peripherals[k] = p
    /\ peripherals' = Without(peripherals, p)
    /\ cntlq' = [cntlq EXCEPT ![p] = <<>>]
    /\ view' = [view EXCEPT ![p] = Blank]
    /\ UNCHANGED <<tables, crashed, commands, reached, astray>>

\* A QRTR subsystem restarts, and the queue waits for it.
Restart(p) ==
    /\ ~crashed
    /\ view[p] # Blank
    /\ view' = [view EXCEPT ![p] = Blank]
    /\ UNCHANGED <<tables, peripherals, cntlq, crashed, commands, reached, astray>>

\* What a subsystem makes of a packet: INVALID changes nothing.
Told(old, pkt) ==
    [s \in DOMAIN old |->
        CASE pkt.status = "ALL_DISABLED" -> 0
          [] pkt.status = "ALL_ENABLED" -> pkt.all
          [] pkt.status = "VALID" /\ s \in DOMAIN pkt.masks -> pkt.masks[s]
          [] OTHER -> old[s]]

CntlWrite(p) ==
    /\ ~crashed
    /\ cntlq[p] # <<>>
    /\ cntlq' = [cntlq EXCEPT ![p] = Tail(@)]
    /\ view' = [view EXCEPT ![p][Head(cntlq[p]).kind] = Told(@, Head(cntlq[p]))]
    /\ UNCHANGED <<tables, peripherals, crashed, commands, reached, astray>>

\* Contents of requests: off and on in turn.
Alternate(v, n) == [j \in 1..n |-> (v + j) % 2]

Next ==
    \/ \E first \in MsgSsid, last \in MsgSsid, v \in 0..1 :
          first <= last + 1 /\ SetMsgMask(first, last, Alternate(v, last + 1 - first))
    \/ \E first \in MsgSsid : GetMsgMask(first)
    \/ \E word \in 0..(BYTE * BYTE - 1) : SetAllMsgMask(word)
    \/ DisableLog
    \/ \E e \in LogEquip, n \in LogItems, on \in BOOLEAN : SetLogMask(e, n, on)
    \/ \E e \in LogEquip : GetLogMask(e)
    \/ \E n \in EventBits, v \in 0..1 : SetEventMask(n, Alternate(v, BITS_TO_BYTES(n)))
    \/ \E enabled \in BOOLEAN : ToggleEvents(enabled)
    \/ \E p \in Perif : Open(p) \/ AnswerFeatures(p) \/ Close(p) \/ Restart(p)
                        \/ CntlWrite(p)

Spec == Init /\ [][Next]_vars

-----------------------------------------------------------------------------
(* Properties.                                                             *)

\* The tables, the queues and the views are well typed.
TypeOK ==
    /\ msg \in [Table -> MsgEntry]
    /\ mask \in [AllSsids -> Nat]
    /\ log \in [Equip -> [num_items_tools : 0..MAX_ITEMS_ALLOWED, mask : Nat]]
    /\ event_max_num_bits \in Nat
    /\ event \in [1..BITS_TO_BYTES(event_max_num_bits) -> 0..1]
    /\ status \in [Kind -> Status]
    /\ peripherals \in Seq(Perif)
    /\ \A p \in Perif : \A k \in 1..Len(cntlq[p]) :
          /\ cntlq[p][k].kind \in Kind /\ cntlq[p][k].status \in Status
          /\ cntlq[p][k].all \in Nat
    /\ crashed \in BOOLEAN
    /\ commands \in Nat
    /\ view \in [Perif -> [msg   : [AllSsids -> Nat \cup {Unset}],
                           log   : [Equip -> Nat \cup {Unset}],
                           event : [EventBytes -> Nat \cup {Unset}]]]
    /\ reached \in BOOLEAN
    /\ astray \subseteq Equip

\* diag_cmd_set_msg_mask moves the bounds of an entry and reallocates it, also
\* when it then refuses the request: the masks peripherals and DMs are told stay
\* in reach of the lookup and inside the buffer, for every sequence of requests.
ToldMasksKept ==
    \A i \in Table :
        /\ msg[i].ssid_last_tools >= ssid_last_arr[i]
        /\ ssid_last_arr[i] - ssid_first_arr[i] < msg[i].range_tools
        /\ ssid_last_arr[i] - ssid_first_arr[i] < msg[i].allocated

\* A peripheral whose control queue is empty, while the router runs.
Drained(p) ==
    /\ ~crashed
    /\ cntlq[p] = <<>>
    /\ \E k \in 1..Len(peripherals) : peripherals[k] = p

\* What a subsystem was told of message masks is what the router has, whichever
\* commands, openings, answers and restarts there were in between, as long as no
\* request has extended a range to the next: then lookups find the wrong entry.
MsgMasksCurrent ==
    \A p \in Perif : Drained(p) /\ ~reached =>
        \A s \in AllSsids : view[p].msg[s] \in {Unset, mask[s]}

\* The same of log masks.  Excepted are those for which the last broadcast did not
\* look up the table: after a request for fewer than 25 items, which leaves the id
\* in the answer half written, or with an id beyond 8 bits.
LogMasksCurrent ==
    \A p \in Perif : Drained(p) =>
        \A e \in Equip \ astray : view[p].log[e] \in {Unset, log[e].mask}

\* The same of event masks, also when the mask has grown since, or has been
\* switched on or off as a whole and then set in part.
EventMasksCurrent ==
    \A p \in Perif : Drained(p) =>
        \A b \in DOMAIN event : view[p].event[b] \in {Unset, event[b]}

\* "Send current message mask to the newly found peripheral": peripheral_open
\* queues the current masks of every entry.
NewPeripheralTold ==
    [][\A p \in Perif : Open(p) /\ status["msg"] = "VALID" =>
          \A i \in Table : \E k \in 1..Len(cntlq'[p]) :
              cntlq'[p][k].masks = [s \in Ssids(i) |-> mask[s]]]_vars
=============================================================================
