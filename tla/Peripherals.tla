------------------------------ MODULE Peripherals ----------------------------
(***************************************************************************)
(* How peripherals come, talk on their control channel and go: the         *)
(* operations of Cntl.tla driven by the QRTR control sockets of            *)
(* peripheral-qrtr.c, by the RPMSG channels, udev events and the open timer *)
(* of peripheral-rpmsg.c, and by the commands of DMs.                      *)
(*                                                                         *)
(* Behind a peripheral is a subsystem that boots, runs through a script of *)
(* control packets and may go down and boot again.                         *)
(***************************************************************************)
EXTENDS Cntl

CONSTANTS
    Qrtr,           \* peripherals reached over QRTR; the others use RPMSG
    Channels,       \* channels of each RPMSG subsystem
    Script,         \* control packets a subsystem sends after booting, each a
                    \* sequence of commands
    DmCommand,      \* commands DMs send
    NoAnswer,       \* no feature mask has been received
    MaxCommands,    \* bound on commands of DMs
    MaxNotices,     \* bound on QRTR packets that are no data
    MaxBoots        \* bound on boots, per subsystem

Rpmsg == Perif \ Qrtr
AllChannels == {"cntl", "data", "cmd"}

\* The commands a control packet consists of; "truncated" is one that claims to
\* be longer than the packet.
ControlCommand ==
    [op : {"feature"}, mask : SUBSET Feature]
    \cup [op : {"register", "deregister"}, cmd : Nat, subsys : Nat,
          ranges : Seq([first : Nat, last : Nat])]
    \cup [op : {"diag_id"}, version : Nat, id : Nat, name : Name]
    \cup [op : {"num_presets", "unknown", "truncated"}]

ASSUME PeripheralsAssumption ==
    /\ Qrtr \subseteq Perif
    /\ Channels \in [Rpmsg -> {{"cntl", "data"}, AllChannels}]
    /\ Script \in [Perif -> Seq(Seq(ControlCommand))]
    /\ MaxCommands \in Nat
    /\ MaxNotices \in Nat
    /\ MaxBoots \in [Perif -> Nat]

VARIABLES
    peripherals,   \* peripherals on the list of that name
    fds,           \* channels of each peripheral with a descriptor
    cntl_open,     \* QRTR: perif->cntl_open, and the write watch of the socket
    deaf,          \* QRTR: control sockets without read watch after an error
    timer,         \* RPMSG: peripherals whose peripheral_open is to be called
    devnodes,      \* RPMSG: device nodes on the list of that name
    rfds,          \* descriptors select() found ready that are still to be handled
    parsing,       \* control commands diag_cntl_recv has still to look at
    crashed,       \* the loop went on to a watch that had been freed
    up,            \* subsystems that are running
    boots,         \* how often a subsystem has booted
    sent,          \* packets of its script the running subsystem has sent
    inbox,         \* control packets (or BYE) the router has not read yet
    dead,          \* peripherals whose channels lost their endpoint
    udev,          \* udev events the router has not read yet
    missed,        \* subsystems that were down when their channels were to be opened
    agreed,        \* features as the running subsystem was told
    told,          \* diag ids the processes were told
    commands,      \* commands of DMs so far
    notices        \* QRTR packets that are no data so far

transport == <<peripherals, fds, cntl_open, deaf, timer, devnodes, rfds, parsing,
               crashed>>
outside == <<up, boots, sent, inbox, dead, udev, missed, agreed, told, commands,
             notices>>
vars == <<cntlVars, transport, outside>>

Busy == crashed \/ \E p \in Perif : parsing[p] # <<>>

\* The descriptor of the udev monitor; the others are <<peripheral, channel>>.
Monitor == <<"udev">>

\* QRTR packets other than data: BYE; DEL_CLIENT and types nobody handles; what
\* makes recvfrom or qrtr_decode fail.
Bye == <<[op |-> "bye"]>>
Ignored == <<[op |-> "ignored"]>>
Failed == <<[op |-> "failed"]>>

Init ==
    /\ CntlInit
    /\ peripherals = Qrtr
    /\ fds = [p \in Perif |-> IF p \in Qrtr THEN AllChannels ELSE {}]
    /\ cntl_open = {}
    /\ deaf = {}
    /\ timer = {}
    /\ devnodes = {}
    /\ rfds = {}
    /\ parsing = [p \in Perif |-> <<>>]
    /\ crashed = FALSE
    /\ up = {}
    /\ boots = [p \in Perif |-> 0]
    /\ sent = [p \in Perif |-> 0]
    /\ inbox = [p \in Perif |-> <<>>]
    /\ dead = {}
    /\ udev = <<>>
    /\ missed = {}
    /\ agreed = [p \in Perif |-> NoAnswer]
    /\ told = [n \in Name \cup {Garbage} |-> {}]
    /\ commands = 0
    /\ notices = 0

-----------------------------------------------------------------------------
(* The control channel.                                                    *)

\* Descriptors with something to read: a packet, an event, an error.
Ready ==
    {m \in {Monitor} : udev # <<>>}
    \cup {<<p, "cntl">> : p \in {x \in Qrtr \ deaf : inbox[x] # <<>>}}
    \cup {<<p, "cntl">> : p \in {x \in Rpmsg : "cntl" \in fds[x] /\ inbox[x] # <<>>}}
    \cup {x \in dead \X AllChannels : x[2] \in fds[x[1]]}

\* A pass of watch_run: select(), then the callbacks of what it found ready, each
\* once.  Callback(f) is the guard and the bookkeeping of one of them.
Select ==
    /\ ~Busy
    /\ rfds = {} /\ Ready # {}
    /\ rfds' = Ready
    /\ UNCHANGED <<cntlVars, peripherals, fds, cntl_open, deaf, timer, devnodes,
                   parsing, crashed, outside>>

Callback(f) == ~Busy /\ f \in rfds /\ rfds' = rfds \ {f}

\* qrtr_cntl_recv: the first data packet connects the socket and adds its write
\* watch; the packet is then taken apart by diag_cntl_recv.  BYE removes the
\* write watch.  An error is returned to the loop, which unlinks the read watch.
qrtr_cntl_recv(p) ==
    /\ Callback(<<p, "cntl">>)
    /\ p \in Qrtr
    /\ inbox' = [inbox EXCEPT ![p] = Tail(@)]
    /\ LET pkt == Head(inbox[p])
           data == pkt \notin {Bye, Ignored, Failed}
       IN  /\ cntl_open' = (cntl_open \ {x \in {p} : pkt = Bye}) \cup {x \in {p} : data}
           /\ deaf' = deaf \cup {x \in {p} : pkt = Failed}
           /\ parsing' = IF data THEN [parsing EXCEPT ![p] = pkt] ELSE parsing
    /\ UNCHANGED <<cntlVars, peripherals, fds, timer, devnodes, crashed, up,
                   boots, sent, dead, udev, missed, agreed, told, commands, notices>>

rpmsg_perif_cntl_recv(p) ==
    /\ Callback(<<p, "cntl">>)
    /\ p \in Rpmsg \ dead
    /\ inbox' = [inbox EXCEPT ![p] = Tail(@)]
    /\ parsing' = [parsing EXCEPT ![p] = Head(inbox[p])]
    /\ UNCHANGED <<cntlVars, peripherals, fds, cntl_open, deaf, timer, devnodes,
                   crashed, up, boots, sent, dead, udev, missed, agreed, told,
                   commands, notices>>

\* The switch of diag_cntl_recv.
Handle(p, c) ==
    \/ /\ c.op = "register"
       /\ diag_cntl_register(p, c)
       /\ UNCHANGED <<features, diag_ids, diag_id, cntlq>>
    \/ /\ c.op = "deregister"
       /\ diag_cntl_deregister(p, c)
       /\ UNCHANGED <<features, diag_ids, diag_id, cntlq>>
    \/ /\ c.op = "feature"
       /\ diag_cntl_feature_mask(p, c, fds[p], p \in Qrtr)
       /\ UNCHANGED <<diag_cmds, diag_ids, diag_id>>
    \/ /\ c.op = "diag_id"
       /\ diag_cntl_process_diag_id(p, c)
       /\ UNCHANGED <<diag_cmds, features>>
    \/ /\ c.op \in {"num_presets", "unknown", "truncated"}
       /\ UNCHANGED <<diag_cmds, features, diag_ids, diag_id, cntlq>>

Rest_First(cmds) == <<>>

Rest_Stuck(cmds) ==
    CASE Head(cmds).op = "truncated" -> <<>>
      [] Head(cmds).op = "unknown"   -> cmds
      [] OTHER                       -> Tail(cmds)

\* What is left of a packet after its first command; one that claims to be
\* longer than the packet ends it.
Rest(cmds) == IF Head(cmds).op = "truncated" THEN <<>> ELSE Tail(cmds)

\* diag_cntl_recv: the commands of a packet one by one.
diag_cntl_recv(p) ==
    /\ parsing[p] # <<>>
    /\ Handle(p, Head(parsing[p]))
    /\ parsing' = [parsing EXCEPT ![p] = Rest(@)]
    /\ UNCHANGED <<cmdq, dataq, peripherals, fds, cntl_open, deaf, timer, devnodes,
                   rfds, crashed, outside>>

-----------------------------------------------------------------------------
(* RPMSG peripherals.                                                      *)

peripheral_create_NoTimer(p, c) ==
    IF c = "data" THEN peripherals' = peripherals \cup {p} /\ UNCHANGED timer
                  ELSE UNCHANGED <<peripherals, timer>>

\* peripheral_create: only for the data channel, and only if there is no
\* peripheral of that name.
peripheral_create(p, c) ==
    IF c = "data" /\ p \notin peripherals
    THEN /\ peripherals' = peripherals \cup {p}
         /\ timer' = timer \cup {p}
    ELSE UNCHANGED <<peripherals, timer>>

devnode_add(p, c) == devnodes' = devnodes \cup {<<p, c>>}
devnode_remove(p, c) == devnodes' = devnodes \ {<<p, c>>}

peripheral_udev_update ==
    /\ Callback(Monitor)
    /\ LET e == Head(udev)
       IN  IF e.action = "add"
           THEN /\ devnode_add(e.rproc, e.channel)
                /\ peripheral_create(e.rproc, e.channel)
           ELSE /\ devnode_remove(e.rproc, e.channel)
                /\ UNCHANGED <<peripherals, timer>>
    /\ udev' = Tail(udev)
    /\ UNCHANGED <<cntlVars, fds, cntl_open, deaf, parsing, crashed, up, boots, sent,
                   inbox, dead, missed, agreed, told, commands, notices>>

\* The loop looks at its timers only when select() times out, with nothing to
\* read anywhere.
Quiet == ~Busy /\ rfds = {} /\ Ready = {}

\* devnode_open: a node of the list that is still there.
Openable(p, c) == <<p, c>> \in devnodes /\ p \in up

\* peripheral_open: data and control channel, or neither; the command channel
\* if there is one.  The current message masks are sent at once.
peripheral_open(p) ==
    /\ Quiet
    /\ p \in timer
    /\ timer' = timer \ {p}
    /\ IF Openable(p, "data") /\ Openable(p, "cntl")
       THEN /\ fds' = [fds EXCEPT ![p] = {c \in AllChannels : Openable(p, c)}]
            /\ cntlq' = Push(cntlq, p, MaskPackets)
       ELSE UNCHANGED <<fds, cntlq>>
    /\ missed' = missed \cup ({p} \ up)
    /\ UNCHANGED <<diag_cmds, features, diag_ids, diag_id, cmdq, dataq,
                   peripherals, cntl_open, deaf, devnodes, rfds, parsing, crashed,
                   up, boots, sent, inbox, dead, udev, agreed, told, commands,
                   notices>>

\* perif_rpmsg_close: registrations, watches, descriptors and the peripheral
\* itself, with its queues, are gone.
perif_rpmsg_close(p) ==
    /\ diag_cntl_close(p)
    /\ fds' = [fds EXCEPT ![p] = {}]
    /\ features' = [features EXCEPT ![p] = {}]
    /\ cntlq' = [cntlq EXCEPT ![p] = <<>>]
    /\ cmdq' = [cmdq EXCEPT ![p] = <<>>]
    /\ dataq' = [dataq EXCEPT ![p] = <<>>]
    /\ dead' = dead \ {p}
    /\ peripherals' = peripherals \ {p}

\* The read watches of a peripheral follow each other on the list, control
\* before data before command, and the loop has saved the next one.
SavedNext(p, c) ==
    CASE c = "cntl" -> {"data"}
      [] c = "data" -> {"cmd"} \cap fds[p]
      [] c = "cmd"  -> {}

\* A handler finds its channel without endpoint and closes the peripheral.  If
\* the saved watch was one of the same peripheral, the loop goes on in freed
\* memory: it may get away with it or not.
ChannelError(p, c) ==
    /\ ~Busy
    /\ <<p, c>> \in rfds /\ p \in dead
    /\ rfds' = rfds \ ({p} \X AllChannels)
    /\ perif_rpmsg_close(p)
    /\ crashed' \in {FALSE} \cup {n \in {TRUE} : SavedNext(p, c) # {}}
    /\ UNCHANGED <<diag_ids, diag_id, cntl_open, deaf, timer, devnodes, parsing, up,
                   boots, sent, inbox, udev, missed, agreed, told, commands, notices>>

-----------------------------------------------------------------------------
(* DMs, and the write watches of the queues.                               *)

\* Peripherals whose requests go to the command queue.
ReqRsp == Qrtr \cup {p \in Rpmsg : "REQ_RSP" \in features[p]}

HasCntl == {p \in peripherals : "cntl" \in fds[p]}

diag_cmd_dispatch(m) ==
    /\ ~Busy
    /\ commands < MaxCommands
    /\ commands' = commands + 1
    /\ DispatchCommon(m, HasCntl) \/ DispatchForward(m, ReqRsp)
    /\ UNCHANGED <<diag_cmds, features, diag_ids, diag_id, transport, up, boots,
                   sent, inbox, dead, udev, missed, agreed, told, notices>>

\* The write watch of a control queue hands a packet to the transport.  It
\* reaches the running subsystem unless the connection is that of an earlier
\* one.
Connected(p) ==
    IF p \in Qrtr THEN p \in up /\ \A i \in 1..Len(inbox[p]) : inbox[p][i] # Bye
                  ELSE p \in up \ dead

CntlWatched(p) == IF p \in Qrtr THEN p \in cntl_open ELSE "cntl" \in fds[p]

CntlWrite(p) ==
    /\ ~Busy /\ rfds = {}
    /\ CntlWatched(p)
    /\ cntlq[p] # <<>>
    /\ cntlq' = [cntlq EXCEPT ![p] = Tail(@)]
    /\ LET k == Head(cntlq[p])
       IN  IF Connected(p)
           THEN /\ agreed' = IF k.op = "feature" THEN [agreed EXCEPT ![p] = k.mask]
                                                 ELSE agreed
                /\ told' = IF k.op = "diag_id" THEN [told EXCEPT ![k.name] = @ \cup {k.id}]
                                               ELSE told
           ELSE UNCHANGED <<agreed, told>>
    /\ UNCHANGED <<diag_cmds, features, diag_ids, diag_id, cmdq, dataq,
                   transport, up, boots, sent, inbox, dead, udev, missed, commands,
                   notices>>

\* The write watches of the command and the data queue.
RequestWrite(p) ==
    /\ ~Busy /\ rfds = {}
    /\ \/ /\ cmdq[p] # <<>> /\ "cmd" \in fds[p]
          /\ cmdq' = [cmdq EXCEPT ![p] = Tail(@)]
          /\ UNCHANGED dataq
       \/ /\ dataq[p] # <<>> /\ "data" \in fds[p]
          /\ dataq' = [dataq EXCEPT ![p] = Tail(@)]
          /\ UNCHANGED cmdq
    /\ UNCHANGED <<diag_cmds, features, diag_ids, diag_id, cntlq, transport,
                   outside>>

-----------------------------------------------------------------------------
(* Subsystems (external).                                                  *)

\* udev reports the nodes of a subsystem, data channel first.
Events(p, a) ==
    LET order == IF Channels[p] = AllChannels THEN <<"data", "cntl", "cmd">>
                                              ELSE <<"data", "cntl">>
    IN  [i \in 1..Len(order) |-> [action |-> a, rproc |-> p, channel |-> order[i]]]

Boot(p) ==
    /\ p \notin up
    /\ boots[p] < MaxBoots[p]
    /\ boots' = [boots EXCEPT ![p] = @ + 1]
    /\ up' = up \cup {p}
    /\ sent' = [sent EXCEPT ![p] = 0]
    /\ agreed' = [agreed EXCEPT ![p] = NoAnswer]
    /\ udev' = IF p \in Rpmsg THEN udev \o Events(p, "add") ELSE udev
    /\ UNCHANGED <<cntlVars, transport, inbox, dead, missed, told, commands, notices>>

\* The name service says BYE for a QRTR node.  The nodes of an RPMSG subsystem
\* go, and open channels lose their endpoint with what was unread.
GoDown(p) ==
    /\ p \in up
    /\ up' = up \ {p}
    /\ IF p \in Qrtr
       THEN inbox' = [inbox EXCEPT ![p] = Append(@, Bye)] /\ UNCHANGED <<udev, dead>>
       ELSE /\ inbox' = [inbox EXCEPT ![p] = <<>>]
            /\ udev' = udev \o Events(p, "remove")
            /\ dead' = IF fds[p] # {} THEN dead \cup {p} ELSE dead
    /\ UNCHANGED <<cntlVars, transport, boots, sent, missed, agreed, told, commands,
                   notices>>

\* The next packet of the script; an RPMSG channel has to be open on both ends.
SubsystemSend(p) ==
    /\ p \in up
    /\ p \in Qrtr \/ ("cntl" \in fds[p] /\ p \notin dead)
    /\ sent[p] < Len(Script[p])
    /\ sent' = [sent EXCEPT ![p] = @ + 1]
    /\ inbox' = [inbox EXCEPT ![p] = Append(@, Script[p][sent[p] + 1])]
    /\ UNCHANGED <<cntlVars, transport, up, boots, dead, udev, missed, agreed,
                   told, commands, notices>>

\* Something else than data arrives on a QRTR control socket.
Notice(p) ==
    /\ p \in Qrtr
    /\ notices < MaxNotices
    /\ notices' = notices + 1
    /\ \E n \in {Ignored, Failed} : inbox' = [inbox EXCEPT ![p] = Append(@, n)]
    /\ UNCHANGED <<cntlVars, transport, up, boots, sent, dead, udev, missed, agreed,
                   told, commands>>

RouterStep ==
    \/ \E p \in Perif : \/ qrtr_cntl_recv(p) \/ rpmsg_perif_cntl_recv(p)
                        \/ diag_cntl_recv(p)
                        \/ peripheral_open(p)
                        \/ \E c \in AllChannels : ChannelError(p, c)
                        \/ CntlWrite(p) \/ RequestWrite(p)
    \/ Select
    \/ peripheral_udev_update

Environment ==
    /\ ~crashed
    /\ \/ \E p \in Perif : Boot(p) \/ GoDown(p) \/ SubsystemSend(p) \/ Notice(p)
       \/ \E m \in DmCommand : diag_cmd_dispatch(m)

Next == RouterStep \/ Environment

Spec == Init /\ [][Next]_vars

\* The router is one thread: it takes a step whenever it can.
FairSpec == Spec /\ WF_vars(RouterStep)

-----------------------------------------------------------------------------
(* Properties.                                                             *)

\* The tables of the router and the state of transports and subsystems are
\* well typed.
TypeOK ==
    /\ DOMAIN diag_cmds \subseteq Entry
    /\ \A e \in DOMAIN diag_cmds : diag_cmds[e] \in Nat \ {0}
    /\ features \in [Perif -> SUBSET Feature]
    /\ diag_ids \in Seq(DiagId)
    /\ diag_id \in Nat
    /\ cntlq \in [Perif -> Seq(ControlPacket)]
    /\ cmdq \in [Perif -> Seq(DmCommand)]
    /\ dataq \in [Perif -> Seq(DmCommand)]
    /\ peripherals \subseteq Perif
    /\ fds \in [Perif -> SUBSET AllChannels]
    /\ cntl_open \subseteq Qrtr
    /\ deaf \subseteq Qrtr
    /\ timer \subseteq Rpmsg
    /\ devnodes \subseteq Rpmsg \X AllChannels
    /\ rfds \subseteq (Perif \X AllChannels) \cup {Monitor}
    /\ DOMAIN parsing = Perif
    /\ crashed \in BOOLEAN
    /\ up \subseteq Perif
    /\ boots \in [Perif -> Nat]
    /\ sent \in [Perif -> Nat]
    /\ DOMAIN inbox = Perif
    /\ dead \subseteq Rpmsg
    /\ missed \subseteq Rpmsg
    /\ agreed \in [Perif -> (SUBSET Feature) \cup {NoAnswer}]
    /\ told \in [Name \cup {Garbage} -> SUBSET Nat]
    /\ commands \in Nat
    /\ notices \in Nat

\* perif_rpmsg_close frees a peripheral: no registered command, timer, packet
\* under way or queued request refers to one that is not on the list.
NoStale ==
    \A p \in Perif \ peripherals :
        /\ \A e \in DOMAIN diag_cmds : e.peripheral # p
        /\ p \notin timer
        /\ fds[p] = {} /\ parsing[p] = <<>>
        /\ cntlq[p] = <<>> /\ cmdq[p] = <<>> /\ dataq[p] = <<>>

\* The router's session with p is one with the subsystem that is running, and
\* everything the subsystem has sent has been looked at.
Settled(p) ==
    /\ p \in up \ dead
    /\ p \in peripherals /\ "cntl" \in fds[p]
    /\ inbox[p] = <<>> /\ parsing[p] = <<>>

\* The commands of a packet diag_cntl_recv looks at: none behind a truncated one.
Readable(cmds) == {j \in 1..Len(cmds) : \A k \in 1..(j - 1) : cmds[k].op # "truncated"}

\* Positions of commands of the script that have been sent, and their order.
SentAt(p) == UNION {{i} \X Readable(Script[p][i]) : i \in 1..sent[p]}
At(p, x) == Script[p][x[1]][x[2]]
Later(x, y) == x[1] > y[1] \/ (x[1] = y[1] /\ x[2] > y[2])

\* Where the commands at H register entry e and do not deregister it again, with
\* the ranges of the command that do.
RegisteredAt(p, e, H) ==
    UNION {{x} \X {i \in 1..Len(At(p, x).ranges) : EntryOf(p, At(p, x), i) = e} :
        x \in {y \in H : /\ At(p, y).op = "register"
                         /\ \A z \in H : At(p, z).op = "deregister" /\ Later(z, y)
                                              => e \notin Entries(p, At(p, z))}}

\* How often p has registered entry e since it last deregistered it.
Registrations(p, e) == Cardinality(RegisteredAt(p, e, SentAt(p)))

\* The command table is exactly what the running subsystems have registered and
\* not deregistered, each entry as often, also after they were restarted, so a
\* command is forwarded once to whom it concerns and to nobody else.  A QRTR
\* peripheral is excepted after its first restart: nothing removes its entries.
RegistryExact ==
    \A p \in Perif : Settled(p) /\ (p \in Qrtr => boots[p] = 1) =>
        /\ \A e \in DOMAIN diag_cmds : e.peripheral = p =>
              diag_cmds[e] = Registrations(p, e)
        /\ \A x \in SentAt(p) : At(p, x).op = "register" =>
              \A e \in Entries(p, At(p, x)) : Times(e) = Registrations(p, e)

\* Router and subsystem agree on the features once the subsystem has its
\* answer: diag_cntl_feature_mask answers with what it keeps.
FeaturesAgree ==
    \A p \in Perif :
        Settled(p) /\ cntlq[p] = <<>> /\ sent[p] > 0 => agreed[p] = features[p]

\* A process is told one diag id for good, and no two processes the same one,
\* whichever peripherals they ask through, in whichever version, and however
\* often their subsystem restarts.
IdsAgree ==
    \A n \in Name :
        /\ Cardinality(told[n]) <= 1
        /\ \A m \in Name \ {n} : told[n] \cap told[m] = {}

\* perif_rpmsg_send picks the queue by a feature that was agreed earlier: it is
\* always the queue of a channel that is open.
QueueHasChannel ==
    \A p \in Perif : /\ cmdq[p] # <<>> => "cmd" \in fds[p]
                     /\ dataq[p] # <<>> => "data" \in fds[p]

Served(p) == fds[p] # {} /\ p \notin dead

\* "routing of diagnostics related messages between host and various
\* subsystems": a subsystem that stays up is served in the end, its channels are
\* opened and stay open, unless the loop was lost in freed memory.
SubsystemsServed ==
    \A p \in Rpmsg : <>[](p \in up) => <>[](Served(p) \/ crashed)

\* Nothing else than being down at the moment of peripheral_open keeps a running
\* subsystem from being served: not a restart before its old channels were closed,
\* nor udev events of several boots that are still unread, nor other descriptors
\* that keep the timer waiting.
RestartsServed ==
    \A p \in Rpmsg :
        <>[](p \in up \ missed) => <>[](Served(p) \/ crashed)

\* Every packet for a peripheral leaves the router in the end, or its control
\* connection is closed: one peripheral's restart does not hold up another's
\* queue, unless the loop was lost in freed memory.
CntlDrained ==
    \A p \in Perif :
        cntlq[p] # <<>> ~> cntlq[p] = <<>> \/ ~CntlWatched(p) \/ crashed
=============================================================================
