--------------------------------- MODULE Cntl --------------------------------
(***************************************************************************)
(* The control channel of router/diag_cntl.c and the command table of      *)
(* router/router.c: which commands are registered by which peripheral,     *)
(* which features were agreed, which diag ids were handed out, and the     *)
(* queues of a peripheral these operations write to.                       *)
(*                                                                         *)
(* The module holds the operations only.  Peripherals.tla extends it with  *)
(* the transports that carry control packets and create and close          *)
(* peripherals.                                                            *)
(*                                                                         *)
(* diag_cmds is a list in the program.  Its order decides nothing but the  *)
(* order of peripheral_send calls, so it is a bag here: how often each     *)
(* entry is on the list.  Keys stay separated into their fields, which the *)
(* program packs into one integer: the ranges of one entry share cmd and   *)
(* subsys, so comparing keys is comparing codes.                           *)
(***************************************************************************)
EXTENDS Naturals, Sequences, FiniteSets

CONSTANTS
    Perif,              \* peripherals, by name
    Name,               \* names of processes that ask for a diag id
    Garbage,            \* what is read as a name at the wrong offset
    DIAG_ID_APPS,       \* diag_cntl.h:41
    IdModulus,          \* diag ids are stored in 8 bits: 256
    MSG_MASK_TBL_CNT,   \* message mask ranges, one packet each
    Common              \* one-byte commands of common_cmds

ASSUME CntlAssumption ==
    /\ Garbage \notin Name
    /\ DIAG_ID_APPS \in Nat
    /\ IdModulus \in Nat \ {0}
    /\ MSG_MASK_TBL_CNT \in Nat

DIAG_CMD_SUBSYS_DISPATCH == 75
DIAG_CMD_SUBSYS_DISPATCH_V2 == 128

\* Features the router supports on any transport.
CommonFeatures == {"FEATURE_MASK_SUPPORT", "DIAG_MASTER_SETS_COMMON_MASK",
                   "APPS_HDLC_ENCODE", "DIAG_ID", "DIAG_ID_FEATURE_MASK"}
Feature == CommonFeatures \cup {"REQ_RSP", "SOCKETS", "STM"}

VARIABLES
    diag_cmds,   \* registered commands: entry -> number of times on the list
    features,    \* peripheral->features
    diag_ids,    \* registered diag ids: a list of [id, name]
    diag_id,     \* the static counter of diag_cntl_process_diag_id
    cntlq,       \* peripheral->cntlq
    cmdq,        \* peripheral->cmdq
    dataq        \* peripheral->dataq

cntlVars == <<diag_cmds, features, diag_ids, diag_id, cntlq, cmdq, dataq>>

Entry == [cmd : Nat, subsys : Nat, first : Nat, last : Nat, peripheral : Perif]
DiagId == [id : Nat, name : Name \cup {Garbage}]
ControlPacket ==
    [op : {"feature"}, mask : SUBSET Feature]
    \cup [op : {"msg_mask", "log_mask", "event_mask", "diag_mode", "buffering_mode"}]
    \cup [op : {"diag_id"}, id : Nat, name : Name \cup {Garbage}]

-----------------------------------------------------------------------------
(* Registration of commands.                                               *)

\* The entries a (de)registration packet of peripheral p names.
RegisteredCmd(c) ==
    IF c.cmd = 255 /\ c.subsys # 255 THEN DIAG_CMD_SUBSYS_DISPATCH ELSE c.cmd

EntryOf(p, c, i) ==
    [cmd |-> RegisteredCmd(c), subsys |-> c.subsys,
     first |-> c.ranges[i].first, last |-> c.ranges[i].last, peripheral |-> p]

Entries(p, c) == {EntryOf(p, c, i) : i \in 1..Len(c.ranges)}

Times(e) == IF e \in DOMAIN diag_cmds THEN diag_cmds[e] ELSE 0

diag_cntl_register(p, c) ==
    diag_cmds' = [e \in DOMAIN diag_cmds \cup Entries(p, c) |->
                    Times(e) + Cardinality({i \in 1..Len(c.ranges) :
                                                EntryOf(p, c, i) = e})]

diag_cntl_deregister_First(p, c) ==
    diag_cmds' = [e \in DOMAIN diag_cmds \ {EntryOf(p, c, 1)} |-> diag_cmds[e]]

\* Every entry equal to one of the packet goes, however often it is there.
diag_cntl_deregister(p, c) ==
    diag_cmds' = [e \in DOMAIN diag_cmds \ Entries(p, c) |-> diag_cmds[e]]

diag_cntl_close_Keep(p) == UNCHANGED diag_cmds

diag_cntl_close_Mark(p) ==
    diag_cmds' = [e \in DOMAIN diag_cmds |-> IF e.peripheral = p THEN 0
                                                                ELSE diag_cmds[e]]

\* diag_cntl_close: all entries of a peripheral.
diag_cntl_close(p) ==
    diag_cmds' = [e \in {d \in DOMAIN diag_cmds : d.peripheral # p} |->
                    diag_cmds[e]]

-----------------------------------------------------------------------------
(* Features.                                                               *)

Push(q, p, packets) == [q EXCEPT ![p] = @ \o packets]

MaskPackets == [i \in 1..MSG_MASK_TBL_CNT |-> [op |-> "msg_mask"]]

local_mask_NoCmdCheck(fds, sockets) ==
    CommonFeatures \cup {"REQ_RSP"} \cup (IF sockets THEN {"SOCKETS"} ELSE {})

\* What the router offers a peripheral with the channels fds.
local_mask(fds, sockets) ==
    CommonFeatures \cup (IF "cmd" \in fds THEN {"REQ_RSP"} ELSE {})
                   \cup (IF sockets THEN {"SOCKETS"} ELSE {})

\* diag_cntl_send_feature_mask: the answer, then the message masks and the modes.
diag_cntl_send_feature_mask(p, mask) ==
    cntlq' = Push(cntlq, p, <<[op |-> "feature", mask |-> mask]>> \o MaskPackets
                            \o <<[op |-> "diag_mode"], [op |-> "buffering_mode"]>>)

diag_cntl_feature_mask_Theirs(p, c, fds, sockets) ==
    /\ features' = [features EXCEPT ![p] = c.mask \cap local_mask(fds, sockets)]
    /\ diag_cntl_send_feature_mask(p, c.mask)

\* What is kept is what both support, and the answer says so.
diag_cntl_feature_mask(p, c, fds, sockets) ==
    LET agreed == c.mask \cap local_mask(fds, sockets)
    IN  /\ features' = [features EXCEPT ![p] = agreed]
        /\ diag_cntl_send_feature_mask(p, agreed)

-----------------------------------------------------------------------------
(* Diag ids.                                                               *)

\* The name is behind the feature mask in the packets of a peripheral that
\* agreed on that and uses version 2; else it is read right after the id.
process_name(p, c) ==
    IF c.version >= 2 /\ "DIAG_ID_FEATURE_MASK" \notin features[p]
    THEN Garbage ELSE c.name

Known(n) == {i \in 1..Len(diag_ids) : diag_ids[i].name = n}

\* find_diag_id returns the first entry of the list.
FirstOf(S) == CHOOSE i \in S : \A j \in S : i <= j

diag_id_exists(i) == \E k \in 1..Len(diag_ids) : diag_ids[k].id = i

\* The id a process not known yet is to have.
NewId(c) == IF c.version >= 3 THEN c.id ELSE diag_id + 1

\* register_diag_id takes the low 8 bits and refuses 0.
Accepts(i) == ~diag_id_exists(i) /\ i % IdModulus # 0

DiagIdAnswer(p, i, n) ==
    cntlq' = Push(cntlq, p, <<[op |-> "diag_id", id |-> i, name |-> n]>>)

\* diag_cntl_process_diag_id for a process that has an id: it is told again,
\* and the counter goes back to it.
ProcessKnownId(p, c) ==
    LET n == process_name(p, c)
    IN  /\ Known(n) # {}
        /\ diag_id' = diag_ids[FirstOf(Known(n))].id
        /\ DiagIdAnswer(p, diag_ids[FirstOf(Known(n))].id, n)
        /\ UNCHANGED diag_ids

ProcessNewId_Unchecked(p, c) ==
    LET n == process_name(p, c)
    IN  /\ Known(n) = {}
        /\ diag_id' = NewId(c)
        /\ diag_ids' = Append(diag_ids, [id |-> NewId(c) % IdModulus, name |-> n])
        /\ DiagIdAnswer(p, NewId(c), n)

ProcessNewId(p, c) ==
    LET n == process_name(p, c)
    IN  /\ Known(n) = {}
        /\ Accepts(NewId(c))
        /\ diag_id' = NewId(c)
        /\ diag_ids' = Append(diag_ids, [id |-> NewId(c) % IdModulus, name |-> n])
        /\ DiagIdAnswer(p, NewId(c), n)

\* No answer; a counter that was advanced stays advanced.
ProcessIdRefused(p, c) ==
    /\ Known(process_name(p, c)) = {}
    /\ ~Accepts(NewId(c))
    /\ diag_id' = IF c.version >= 3 THEN diag_id ELSE NewId(c)
    /\ UNCHANGED <<diag_ids, cntlq>>

diag_cntl_process_diag_id(p, c) ==
    ProcessKnownId(p, c) \/ ProcessNewId(p, c) \/ ProcessIdRefused(p, c)

-----------------------------------------------------------------------------
(* Dispatch of a DM's command.                                             *)

\* diag_cmd_dispatch: the key a command is looked up by.
KeyOf(m) ==
    IF m.op \in {DIAG_CMD_SUBSYS_DISPATCH, DIAG_CMD_SUBSYS_DISPATCH_V2}
    THEN [cmd |-> m.op, subsys |-> m.subsys, code |-> m.code]
    ELSE [cmd |-> 255, subsys |-> 255, code |-> m.op]

IsCommon(m) == KeyOf(m).cmd = 255 /\ m.op \in Common

Matches(e, m) ==
    /\ e.cmd = KeyOf(m).cmd /\ e.subsys = KeyOf(m).subsys
    /\ e.first <= KeyOf(m).code /\ KeyOf(m).code <= e.last

\* How often peripheral_send is called for p.
Copies(p, m) ==
    Cardinality(UNION {{<<e, i>> : i \in 1..diag_cmds[e]} :
        e \in {d \in DOMAIN diag_cmds : d.peripheral = p /\ Matches(d, m)}})

Sent(p, m) == [i \in 1..Copies(p, m) |-> m]

\* A command of common_cmds is answered by the router, and may set a mask that
\* goes to every peripheral of P; others go to whoever registered them, and to
\* the fallback answers, which leave no trace here, if nobody did.
DispatchCommon(m, P) ==
    /\ IsCommon(m)
    /\ \E k \in {"msg_mask", "log_mask", "event_mask", "none"} :
          cntlq' = [p \in Perif |-> IF p \in P /\ k # "none"
                                    THEN Append(cntlq[p], [op |-> k])
                                    ELSE cntlq[p]]
    /\ UNCHANGED <<cmdq, dataq>>

\* Peripherals of R answer on the channel they got the request on; the others
\* take requests on the data channel.
DispatchForward(m, R) ==
    /\ ~IsCommon(m)
    /\ cmdq' = [p \in Perif |-> IF p \in R THEN cmdq[p] \o Sent(p, m) ELSE cmdq[p]]
    /\ dataq' = [p \in Perif |-> IF p \in R THEN dataq[p] ELSE dataq[p] \o Sent(p, m)]
    /\ UNCHANGED cntlq

CntlInit ==
    /\ diag_cmds = <<>>
    /\ features = [p \in Perif |-> {}]
    /\ diag_ids = <<>>
    /\ diag_id = DIAG_ID_APPS
    /\ cntlq = [p \in Perif |-> <<>>]
    /\ cmdq = [p \in Perif |-> <<>>]
    /\ dataq = [p \in Perif |-> <<>>]
=============================================================================
