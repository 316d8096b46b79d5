-------------------------------- MODULE Router -------------------------------
(***************************************************************************)
(* The diag router as one process: the event loop of Watch.tla running the *)
(* callbacks of dm.c, unix.c, usb.c, router.c and peripheral-qrtr.c, and   *)
(* the environment those callbacks meet.                                   *)
(*                                                                         *)
(* A DM (diagnostic monitor) is a UNIX client or the USB host.  Traffic of *)
(* a peripheral's data socket is broadcast to every enabled DM, charged to *)
(* the peripheral's flow.  A command of a DM is answered by the router or  *)
(* forwarded to the command queue of peripherals, whose answers come back  *)
(* on the command socket and are broadcast without flow control.           *)
(***************************************************************************)
EXTENDS Watch

CONSTANTS
    Client,         \* connections of UNIX clients; each has its descriptor
    Perif,          \* QRTR peripherals, named by their data_fd
    cmd_fd,         \* perif->cmd_fd of each peripheral
    QrtrSockets,    \* the sockets of both kinds in the order they are watched
    Usb, BulkOut, Ep0, Listen,      \* the remaining descriptors
    UseUsb,         \* diag_usb_open succeeded
    OutBuf,         \* the mbuf diag_usb_open allocates
    NoClient,
    Command,        \* commands a DM can send
    Route,          \* peripherals each command is registered for; none: the
                    \* router answers the command itself
    Slow,           \* clients that may leave their socket buffer full
    MaxInbox,       \* bound on unread packets per peripheral socket
    Budget          \* bound on the environment's events, by kind

Dm    == Client \cup {Usb}
CmdFd == {cmd_fd[p] : p \in Perif}

\* Environment events of each kind are bounded: commands of DMs, clients that
\* go away, hosts that come, refused submissions, packets other than data,
\* servers that come or go, servers announced once more, answers of peripherals.
Kinds == {"command", "close", "plug", "refuse", "fault", "server", "again",
          "answer"}

ASSUME RouterAssumption ==
    /\ IsFiniteSet(Client)
    /\ cmd_fd \in [Perif -> Fd]
    /\ \A p, q \in Perif : cmd_fd[p] = cmd_fd[q] => p = q
    /\ QrtrSockets \in Seq(Perif \cup CmdFd)
    /\ \A f \in Perif \cup CmdFd :
          \E i \in 1..Len(QrtrSockets) : QrtrSockets[i] = f
    /\ Fd = Client \cup Perif \cup CmdFd \cup {Usb, BulkOut, Ep0, Listen}
    /\ Client \cap (Perif \cup CmdFd) = {}
    /\ Perif \cap CmdFd = {}
    /\ {Usb, BulkOut, Ep0, Listen} \cap (Client \cup Perif \cup CmdFd) = {}
    /\ Usb \notin {BulkOut, Ep0, Listen}
    /\ BulkOut \notin {Ep0, Listen}
    /\ Ep0 # Listen
    /\ Flow = Perif
    /\ UseUsb \in BOOLEAN
    /\ OutBuf \in Mbuf
    /\ NoClient \notin Client
    /\ Route \in [Command -> SUBSET Perif]
    /\ Slow \subseteq Client
    /\ MaxInbox \in Nat
    /\ Budget \in [Kinds -> Nat]

VARIABLES
    diag_clients,  \* registered DMs, in list order
    enabled,       \* DMs with dm->enabled
    serving,       \* client whose dm_recv_raw loop is running
    data_open,     \* peripherals with perif->data_open
    sock,          \* state of each client's connection; "reset" until the
                   \* error is reported, to a write ("eof") or a read ("failed")
    rx,            \* commands of each client not read yet
    inbox,         \* packets of each peripheral socket not read yet
    announced,     \* peripherals whose command server is known to the name server
    plugged,       \* the host has the USB function configured
    ep0,           \* event the ep0 descriptor has to report
    budget         \* environment events that may still happen, by kind

dmVars  == <<diag_clients, enabled, serving, data_open>>
envVars == <<sock, rx, inbox, announced, plugged, ep0, budget>>
vars    == <<watchVars, dmVars, envVars>>

Packets == {"data", "bad", "other", "bye", "error", "new_server", "del_server"}

DmTypeOK ==
    /\ diag_clients \in Seq(Dm)
    /\ enabled \subseteq Dm
    /\ serving \in Client \cup {NoClient}
    /\ data_open \subseteq Perif

EnvTypeOK ==
    /\ sock \in [Client -> {"none", "backlog", "open", "reset", "failed", "eof"}]
    /\ rx \in [Client -> Seq(Command)]
    /\ inbox \in [Perif \cup CmdFd -> Seq(Packets)]
    /\ announced \subseteq Perif
    /\ plugged \in BOOLEAN
    /\ ep0 \in {"none", "enable", "disable"}
    /\ budget \in [Kinds -> Nat]

\* The state of the loop, of the DMs and of their environment is well typed.
TypeOK ==
    /\ MemoryTypeOK
    /\ ListTypeOK
    /\ KernelTypeOK
    /\ LoopTypeOK
    /\ DmTypeOK
    /\ EnvTypeOK

Registered == {diag_clients[i] : i \in 1..Len(diag_clients)}

\* main: diag_usb_open, diag_unix_open and the QRTR sockets.  The command
\* socket has no write watch until its server shows up.
Init ==
    /\ WatchInit((IF UseUsb THEN <<Ep0, Listen>> ELSE <<Listen>>) \o QrtrSockets,
                 IF UseUsb THEN <<Usb>> ELSE <<>>)
    /\ queue = [f \in Fd |-> IF UseUsb /\ f = BulkOut THEN <<OutBuf>> ELSE <<>>]
    /\ charge = [m \in Mbuf |-> IF UseUsb /\ m = OutBuf THEN NoFlow
                                                        ELSE Unallocated]
    /\ diag_clients = IF UseUsb THEN <<Usb>> ELSE <<>>
    /\ enabled = {}
    /\ serving = NoClient
    /\ data_open = {}
    /\ sock = [c \in Client |-> "none"]
    /\ rx = [c \in Client |-> <<>>]
    /\ inbox = [f \in Perif \cup CmdFd |-> <<>>]
    /\ announced = {}
    /\ plugged = FALSE
    /\ ep0 = "none"
    /\ budget = Budget

-----------------------------------------------------------------------------
(* What the kernel says of the descriptors (external).                     *)

Readable(f) ==
    \/ f \in Client /\ (rx[f] # <<>> \/ sock[f] \in {"reset", "failed", "eof"})
    \/ f \in Perif \cup CmdFd /\ inbox[f] # <<>>
    \/ f = Listen /\ \E c \in Client : sock[c] = "backlog"
    \/ f = Ep0 /\ ep0 # "none"

\* Flow context each read watch was added with: only the data sockets have one.
WatchFlow == [f \in Fd |-> IF f \in Perif THEN f ELSE NoFlow]

\* What a synchronous write or read on f can return.  A peer that is gone is an
\* error; a full socket buffer, or bulk_out (O_NONBLOCK) without host, EAGAIN.
SyncResults(f) ==
    CASE f \in Client -> IF sock[f] \in {"reset", "failed", "eof"} THEN {"err"}
                         ELSE {"ok"} \cup (IF f \in Slow THEN {"eagain"} ELSE {})
      [] f = BulkOut  -> IF plugged THEN {} ELSE {"eagain"}
      [] f = Usb      -> {}
      [] OTHER        -> {"ok", "err"}

Spend(k) ==
    /\ budget[k] > 0
    /\ budget' = [budget EXCEPT ![k] = @ - 1]

-----------------------------------------------------------------------------
(* The loop: submission, select and completion.                            *)

\* A write that meets a connection reset consumes the error.
SubmitSocket(w, res) ==
    LET f == aio_watches[w].fd
    IN  /\ SubmitSync(w, res)
        /\ res \in SyncResults(f)
        /\ sock' = [c \in Client |-> IF c = f /\ sock[c] = "reset" THEN "eof"
                                                                  ELSE sock[c]]
        /\ UNCHANGED <<dmVars, rx, inbox, announced, plugged, ep0, budget>>

\* bulk_in is opened without O_NONBLOCK: without host, io_submit blocks.
SubmitEndpoint(w) ==
    /\ SubmitAsync(w)
    /\ aio_watches[w].fd \in {Usb, BulkOut}
    /\ plugged
    /\ UNCHANGED <<dmVars, envVars>>

SubmitFailed(w) ==
    /\ SubmitRefused(w)
    /\ Spend("refuse")
    /\ UNCHANGED <<dmVars, sock, rx, inbox, announced, plugged, ep0>>

LoopSelect ==
    /\ Select({f \in Fd : Readable(f)}, WatchFlow)
    /\ UNCHANGED <<dmVars, envVars>>

LoopReadEventfd  == ReadEventfd /\ UNCHANGED <<dmVars, envVars>>
LoopGetEvents    == GetEvents /\ UNCHANGED <<dmVars, envVars>>
LoopAbort(w)     == CompleteAbort(w) /\ UNCHANGED <<dmVars, envVars>>
LoopEagain(w)    == CompleteEagain(w) /\ UNCHANGED <<dmVars, envVars>>
LoopWrite(w)     == CompleteWrite(w) /\ UNCHANGED <<dmVars, envVars>>
LoopCompleteDone == CompleteDone /\ UNCHANGED <<dmVars, envVars>>
LoopDispatchDone == DispatchDone /\ UNCHANGED <<dmVars, envVars>>

-----------------------------------------------------------------------------
(* Commands.                                                               *)

\* The queues a command of DM d ends up in: those of the peripherals it is
\* registered for, else d's own with the answer, which dm_send drops while d
\* is disabled.
CommandTargets(d, c) ==
    IF Route[c] # {} THEN {cmd_fd[p] : p \in Route[c]}
                     ELSE {d} \cap enabled

diag_client_handle_command(d, c) == queue_push_flow(CommandTargets(d, c), NoFlow)

\* The DMs a broadcast reaches.
Listeners == Registered \cap enabled

dm_broadcast_Disabled(fl) == queue_push_flow(Registered, fl)

dm_broadcast(fl) == queue_push_flow(Listeners, fl)

-----------------------------------------------------------------------------
(* UNIX clients.                                                           *)

unix_listen(c) ==
    /\ Dispatch(Listen)
    /\ sock[c] = "backlog"
    /\ sock' = [sock EXCEPT ![c] = "open"]
    /\ watch_add_readfd(c)
    /\ watch_add_aio(c, TRUE)
    /\ diag_clients' = Append(diag_clients, c)
    /\ enabled' = enabled \cup {c}
    /\ rfds' = rfds \ {Listen}
    /\ UNCHANGED <<memory, kernel, pc, cur, events, serving, data_open,
                   rx, inbox, announced, plugged, ep0, budget>>

\* dm_recv_raw is entered; it reads until there is nothing left.
DmRecv(c) ==
    /\ c \in Client
    /\ Dispatch(c)
    /\ pc' = "dm_recv"
    /\ serving' = c
    /\ rfds' = rfds \ {c}
    /\ UNCHANGED <<memory, lists, pending, kernel, cur, events, diag_clients,
                   enabled, data_open, envVars>>

Returns == pc' = "dispatch" /\ serving' = NoClient

DmRecvCommand(c) ==
    /\ pc = "dm_recv" /\ serving = c
    /\ sock[c] # "reset" /\ rx[c] # <<>>
    /\ diag_client_handle_command(c, Head(rx[c]))
    /\ rx' = [rx EXCEPT ![c] = Tail(@)]
    /\ UNCHANGED <<lists, pending, kernel, loop, dmVars, sock, inbox, announced, plugged,
                   ep0, budget>>

DmRecvEagain(c) ==
    /\ pc = "dm_recv" /\ serving = c
    /\ sock[c] = "open" /\ rx[c] = <<>>
    /\ Returns
    /\ UNCHANGED <<memory, lists, pending, kernel, cur, rfds, events,
                   diag_clients, enabled, data_open, envVars>>

DmRecvEof_Early(c) ==
    /\ pc = "dm_recv" /\ serving = c
    /\ sock[c] = "eof"
    /\ watch_remove_read(c)
    /\ watch_remove_aio(c)
    /\ Returns
    /\ UNCHANGED <<memory, read_watches, aio_watches, pending, kernel, cur,
                   rfds, events, diag_clients, enabled, data_open, envVars>>

\* End of file: the watches of the descriptor go, the DM stays registered.
DmRecvEof(c) ==
    /\ pc = "dm_recv" /\ serving = c
    /\ sock[c] = "eof" /\ rx[c] = <<>>
    /\ watch_remove_read(c)
    /\ watch_remove_aio(c)
    /\ Returns
    /\ UNCHANGED <<memory, read_watches, aio_watches, pending, kernel, cur,
                   rfds, events, diag_clients, enabled, data_open, envVars>>

\* A read error is returned to the loop, which unlinks the read watch only.
DmRecvError(c) ==
    /\ pc = "dm_recv" /\ serving = c
    /\ sock[c] = "reset"
    /\ sock' = [sock EXCEPT ![c] = "failed"]
    /\ watch_remove_read(c)
    /\ Returns
    /\ UNCHANGED <<memory, read_watches, aio_watches, linked, pending, kernel,
                   cur, rfds, events, diag_clients, enabled, data_open, rx,
                   inbox, announced, plugged, ep0, budget>>

-----------------------------------------------------------------------------
(* The USB host.                                                           *)

\* Every ENABLE adds a watch on bulk_out; DISABLE takes none away.
ep0_recv ==
    /\ Dispatch(Ep0)
    /\ IF ep0 = "enable"
       THEN /\ watch_add_aio(BulkOut, FALSE)
            /\ enabled' = enabled \cup {Usb}
       ELSE /\ UNCHANGED <<aio_watches, linked, pending>>
            /\ enabled' = enabled \ {Usb}
    /\ ep0' = "none"
    /\ rfds' = rfds \ {Ep0}
    /\ UNCHANGED <<memory, read_watches, rlinked, kernel, pc, cur, events,
                   diag_clients, serving, data_open, sock, rx, inbox, announced, plugged,
                   budget>>

diag_ffs_recv_Lost(w) ==
    /\ CompleteNext(w)
    /\ ~Asserts(w)
    /\ Passed(w) # Hits(w)
    /\ ~aio_watches[w].is_write
    /\ pending' = [pending EXCEPT ![w] = NoMbuf]
    /\ UNCHANGED <<memory, lists, kernel, pc, rfds, events, dmVars, envVars>>

\* aio_complete of the bulk_out watch: decode what was received, if anything,
\* and put the buffer back on the queue it came from.
diag_ffs_recv(w) ==
    /\ CompleteNext(w)
    /\ ~Asserts(w)
    /\ Passed(w) # Hits(w)
    /\ ~aio_watches[w].is_write
    /\ \E D \in {{}} \cup {CommandTargets(Usb, c) : c \in Command} :
          LET used == CHOOSE f \in Allocations(D) : TRUE
          IN  /\ Allocations(D) # {}
              /\ (\E i \in Hits(w) : events[i].res = "ok") \/ D = {}
              /\ queue' = [q \in Fd |->
                     IF q \in D THEN Append(queue[q], used[q])
                     ELSE IF q = BulkOut THEN Append(queue[q], pending[w])
                     ELSE queue[q]]
              /\ charge' = [m \in Mbuf |-> IF \E q \in D : used[q] = m
                                           THEN NoFlow ELSE charge[m]]
    /\ pending' = [pending EXCEPT ![w] = NoMbuf]
    /\ UNCHANGED <<packets, lists, kernel, pc, rfds, events, dmVars, envVars>>

-----------------------------------------------------------------------------
(* QRTR peripherals.                                                       *)

\* A handler takes one packet of its socket.
Receive(f, k) ==
    /\ Dispatch(f)
    /\ inbox[f] # <<>>
    /\ k = Head(inbox[f])
    /\ inbox' = [inbox EXCEPT ![f] = Tail(@)]
    /\ rfds' = rfds \ {f}
    /\ UNCHANGED <<kernel, pc, cur, events, diag_clients, enabled, serving,
                   sock, rx, announced, plugged, ep0, budget, read_watches>>

\* The first packet connects the socket and adds its write watch, before the
\* frame is looked at; only a well-formed frame is broadcast.
qrtr_data_recv_data(p, k) ==
    /\ k \in {"data", "bad"}
    /\ IF p \in data_open
       THEN UNCHANGED <<aio_watches, linked, pending, data_open>>
       ELSE watch_add_aio(p, TRUE) /\ data_open' = data_open \cup {p}
    /\ IF k = "data" THEN dm_broadcast(p) ELSE UNCHANGED memory
    /\ UNCHANGED rlinked

qrtr_data_recv_bye(p, k) ==
    /\ k = "bye"
    /\ watch_remove_aio(p)
    /\ data_open' = data_open \ {p}
    /\ UNCHANGED <<memory, rlinked, aio_watches, pending>>

qrtr_data_recv(p) ==
    \E k \in Packets :
        /\ Receive(p, k)
        /\ \/ qrtr_data_recv_data(p, k)
           \/ qrtr_data_recv_bye(p, k)
           \/ /\ k \notin {"data", "bad", "bye", "error"}
              /\ UNCHANGED <<memory, rlinked, aio_watches, linked, pending,
                             data_open>>
           \/ /\ k = "error"
              /\ watch_remove_read(p)
              /\ UNCHANGED <<memory, aio_watches, linked, pending, data_open>>

\* A new server adds a write watch for the command queue, each time.
qrtr_cmd_recv(p) ==
    \E k \in Packets :
        /\ Receive(cmd_fd[p], k)
        /\ UNCHANGED data_open
        /\ \/ /\ k = "data"
              /\ dm_broadcast(NoFlow)
              /\ UNCHANGED <<rlinked, aio_watches, linked, pending>>
           \/ /\ k = "new_server"
              /\ watch_add_aio(cmd_fd[p], TRUE)
              /\ UNCHANGED <<memory, rlinked>>
           \/ /\ k = "del_server"
              /\ watch_remove_aio(cmd_fd[p])
              /\ UNCHANGED <<memory, rlinked, aio_watches, pending>>
           \/ /\ k \in {"bad", "other", "bye"}
              /\ UNCHANGED <<memory, rlinked, aio_watches, linked, pending>>
           \/ /\ k = "error"
              /\ watch_remove_read(cmd_fd[p])
              /\ UNCHANGED <<memory, aio_watches, linked, pending>>

-----------------------------------------------------------------------------
(* The environment.                                                        *)

ClientConnect(c) ==
    /\ sock[c] = "none"
    /\ sock' = [sock EXCEPT ![c] = "backlog"]
    /\ UNCHANGED <<watchVars, dmVars, rx, inbox, announced, plugged, ep0, budget>>

ClientSend(c, cmd) ==
    /\ sock[c] = "open"
    /\ Spend("command")
    /\ rx' = [rx EXCEPT ![c] = Append(@, cmd)]
    /\ UNCHANGED <<watchVars, dmVars, sock, inbox, announced, plugged, ep0>>

\* A client that goes with everything read leaves an end of file, one that
\* goes with unread packets a connection reset.
ClientClose(c) ==
    /\ sock[c] = "open"
    /\ \E how \in {"eof", "reset"} :
          /\ Spend("close")
          /\ sock' = [sock EXCEPT ![c] = how]
    /\ UNCHANGED <<watchVars, dmVars, rx, inbox, announced, plugged, ep0>>

\* Data is unlimited up to what a socket holds, everything else is budgeted.
PerifSend(p) ==
    /\ Len(inbox[p]) < MaxInbox
    /\ \E k \in {"data", "bad", "other", "bye", "error"} :
          /\ IF k = "data" THEN UNCHANGED budget ELSE Spend("fault")
          /\ inbox' = [inbox EXCEPT ![p] = Append(@, k)]
    /\ UNCHANGED <<watchVars, dmVars, sock, rx, announced, plugged, ep0>>

PerifCommandSocket(p) ==
    /\ Len(inbox[cmd_fd[p]]) < MaxInbox
    /\ \E k \in {"data", "bad", "other", "bye", "error"} :
          /\ Spend(IF k = "data" THEN "answer" ELSE "fault")
          /\ inbox' = [inbox EXCEPT ![cmd_fd[p]] = Append(@, k)]
    /\ UNCHANGED <<watchVars, dmVars, sock, rx, announced, plugged, ep0>>

\* The name server announces a server and its end.  A server that registers
\* again, or is found on another node, is announced once more without an end.
ServerUpDown(p) ==
    /\ Len(inbox[cmd_fd[p]]) < MaxInbox
    /\ \/ /\ p \in announced
          /\ Spend("server")
          /\ announced' = announced \ {p}
          /\ inbox' = [inbox EXCEPT ![cmd_fd[p]] = Append(@, "del_server")]
       \/ /\ Spend(IF p \in announced THEN "again" ELSE "server")
          /\ announced' = announced \cup {p}
          /\ inbox' = [inbox EXCEPT ![cmd_fd[p]] = Append(@, "new_server")]
    /\ UNCHANGED <<watchVars, dmVars, sock, rx, plugged, ep0>>

\* FunctionFS keeps only the latest of ENABLE and DISABLE for ep0, and has
\* finished every request before the function can be configured again.
Plug ==
    /\ UseUsb /\ ~plugged /\ inflight = {}
    /\ Spend("plug")
    /\ plugged' = TRUE
    /\ ep0' = "enable"
    /\ UNCHANGED <<watchVars, dmVars, sock, rx, inbox, announced>>

Unplug ==
    /\ plugged
    /\ plugged' = FALSE
    /\ ep0' = "disable"
    /\ UNCHANGED <<watchVars, dmVars, sock, rx, inbox, announced, budget>>

\* The host takes a packet, or sends a command; the unplugged function fails
\* its requests.
EndpointComplete(w) ==
    /\ \E res \in {"ok", "err"} :
          /\ KernelComplete(w, res)
          /\ IF res = "err" THEN ~plugged /\ UNCHANGED budget
             ELSE /\ plugged
                  /\ IF aio_watches[w].fd = BulkOut THEN Spend("command")
                                                    ELSE UNCHANGED budget
    /\ UNCHANGED <<dmVars, sock, rx, inbox, announced, plugged, ep0>>

-----------------------------------------------------------------------------
Handlers ==
    \/ \E c \in Client : \/ unix_listen(c) \/ DmRecv(c) \/ DmRecvCommand(c)
                         \/ DmRecvEagain(c) \/ DmRecvEof(c) \/ DmRecvError(c)
    \/ ep0_recv
    \/ \E p \in Perif : qrtr_data_recv(p) \/ qrtr_cmd_recv(p)

Loop ==
    \/ \E w \in linked :
          \/ \E res \in Results : SubmitSocket(w, res)
          \/ SubmitEndpoint(w)
          \/ SubmitFailed(w)
          \/ LoopAbort(w) \/ LoopEagain(w) \/ LoopWrite(w) \/ diag_ffs_recv(w)
    \/ LoopSelect \/ LoopReadEventfd \/ LoopGetEvents
    \/ LoopCompleteDone \/ LoopDispatchDone
    \/ Handlers

\* Nothing happens any more once the process has aborted.
Environment ==
    /\ pc # "abort"
    /\ \/ \E c \in Client : \/ ClientConnect(c) \/ ClientClose(c)
                            \/ \E cmd \in Command : ClientSend(c, cmd)
       \/ \E p \in Perif : \/ PerifSend(p) \/ PerifCommandSocket(p)
                           \/ ServerUpDown(p)
       \/ Plug \/ Unplug
       \/ \E w \in inflight : EndpointComplete(w)

Next == Loop \/ Environment

Spec == Init /\ [][Next]_vars

\* The router is one thread: whenever it can take a step, it takes one.
Fairness == WF_vars(Loop)

FairSpec == Spec /\ Fairness

-----------------------------------------------------------------------------
(* Properties.                                                             *)

Charged(p) == {m \in Mbuf : charge[m] = p}

\* watch_flow_inc and watch_flow_dec balance: a peripheral's counter is the
\* number of allocated buffers charged to it, whatever happened to the DMs
\* they are queued for, so "unbalanced flow control" is never reported.
FlowBalanced == \A p \in Flow : packets[p] = Cardinality(Charged(p))

\* The skip of blocked flows in watch_run bounds a peripheral's backlog: one
\* broadcast at most follows the last pass in which it was under the watermark.
FlowBound == \A p \in Flow : packets[p] <= FLOW_WATERMARK + Cardinality(Dm)

\* A data socket select() reported is still under the watermark when its
\* callback runs.
FlowReady == \A p \in Flow \cap rfds : packets[p] <= FLOW_WATERMARK

Places(m) ==
    (UNION {{<<f, i>> : i \in {j \in 1..Len(queue[f]) : queue[f][j] = m}} : f \in Fd})
    \cup {<<"pending", w>> : w \in {v \in linked : pending[v] = m}}

\* The watches that have been freed with a buffer pending.
Leaks == {w \in 1..Len(pending) \ linked : pending[w] # NoMbuf}

\* A buffer is in one queue or pending on one watch of the lists while it is
\* allocated, and nowhere once it is freed: no double free, no buffer on two
\* lists.  Only a buffer watch_remove_fd has leaked is allocated and nowhere.
OneOwner ==
    /\ \A m \in Mbuf :
          Cardinality(Places(m)) =
              IF charge[m] = Unallocated \/ \E w \in Leaks : pending[w] = m
              THEN 0 ELSE 1
    /\ \A w \in Leaks : charge[pending[w]] # Unallocated

\* What leaks is the one packet of a client whose write met EAGAIN before the
\* client went away; no other watch is freed with a buffer pending.
OnlySlowLeak ==
    \A w \in Leaks :
        /\ aio_watches[w].fd \in Slow
        /\ sock[aio_watches[w].fd] = "eof"

\* Every buffer has one owner from mbuf_alloc to free, but for what slow clients
\* that close make the router leak.
Ownership == OneOwner /\ OnlySlowLeak

\* Watches whose iocb is known to the kernel or lies in the ring.
Outstanding == inflight \cup {ring[i].obj : i \in 1..Len(ring)}

\* watch_remove_fd and watch_remove_writeq free a watch, and with it its iocb:
\* never while a completion that refers to that iocb is still to be fetched.
NoDangling == Outstanding \subseteq linked

\* A completion on the ring is never left without a count on the eventfd that
\* wakes select(), except between the read of the counter and io_getevents.
NoStranded == pc # "getevents" => Len(ring) <= evfd

\* io_getevents is called without anything to return, and the loop sleeps there
\* while descriptors are readable, only for a completion posted between an
\* earlier read of the eventfd and its io_getevents: that call has fetched it
\* and left its count.  Only the endpoints of the USB gadget complete so late.
GetEventsReturns ==
    /\ pc = "getevents" /\ ring = <<>> => raced
    /\ raced => UseUsb

\* assert(w->pending_aio) in watch_handle_eventfd.
AssertHolds == pc # "abort"

\* A DM that is still broadcast to although watch_remove_fd has taken the watch
\* that would drain its queue.
Detached(d) ==
    /\ d \in Listeners
    /\ \A w \in linked : aio_watches[w].fd # d

\* A DM whose watch is pending for ever, on a write that met EAGAIN.
Stalled(d) ==
    /\ d \in Listeners \cap Slow
    /\ \E w \in linked : /\ aio_watches[w].fd = d
                         /\ pending[w] # NoMbuf
                         /\ w \notin Outstanding
                         /\ ~(pc = "complete" /\ Hits(w) # {})

\* The loop sleeps in select() with a packet to submit: io_submit was refused,
\* and is tried again only after some descriptor has woken the loop.
Asleep ==
    /\ pc = "submit" /\ ToSubmit = {} /\ evfd = 0
    /\ \E w \in linked : pending[w] = NoMbuf /\ queue[aio_watches[w].fd] # <<>>
    /\ \A r \in rlinked : \/ ~Readable(read_watches[r])
                          \/ watch_flow_blocked(WatchFlow[read_watches[r]])

\* What keeps the loop from draining the queues of all DMs.
Undrained == Asleep \/ \E d \in Dm : Detached(d) \/ Stalled(d)

\* Every packet a peripheral sends is read and passed on: the watermark delays a
\* peripheral and silences it only if some DM is undrained from then on.
DataServed ==
    \A p \in Perif : inbox[p] # <<>> ~> (inbox[p] = <<>> \/ []Undrained)

\* Every buffer that is allocated is written and freed again, unless some DM is
\* undrained from then on.
BuffersFreed ==
    \A m \in Mbuf : charge[m] # Unallocated
                        ~> (charge[m] = Unallocated \/ []Undrained)

\* Commands of a client are read, also while a peripheral keeps sending and
\* after the client has closed; only a connection reset ends it.
CommandsServed ==
    \A c \in Client :
        rx[c] # <<>> /\ sock[c] \in {"open", "eof"}
            ~> rx[c] = <<>> \/ sock[c] \in {"reset", "failed"}

\* "Submit AIO if none is pending" (watch_run): a watch is passed over by the
\* submission loop only while its request is with the kernel, on the ring or
\* fetched.  A descriptor that may give EAGAIN is excepted: watch_handle_eventfd
\* passes such a completion over and the watch stays pending with no request.
PendingIsOutstanding ==
    \A w \in linked : pending[w] # NoMbuf =>
        \/ w \in Outstanding
        \/ pc = "complete" /\ Hits(w) # {}
        \/ aio_watches[w].fd \in Slow

-----------------------------------------------------------------------------
(* Refinement.                                                             *)

\* The packets on their way to DM d: the one its watch has taken, and those in
\* its queue.
PendingTo(d) ==
    {w \in 1..Len(aio_watches) : aio_watches[w].fd = d /\ pending[w] # NoMbuf}

Channel(d) ==
    [i \in 1..Cardinality(PendingTo(d)) |-> charge[pending[CHOOSE w \in PendingTo(d) : TRUE]]]
    \o [i \in 1..Len(queue[d]) |-> charge[queue[d][i]]]

Promise == INSTANCE Broadcast WITH chan <- [d \in Dm |-> Channel(d)],
                                   listening <- Listeners

\* The queues, watches, completions and flow counters of the router implement
\* the channels of Broadcast: dm_broadcast is atomic for all enabled DMs, no
\* packet is lost, duplicated or overtaken on the way through io_submit and
\* io_getevents, and no peripheral sends while it is over the watermark.
BroadcastSpec == Promise!Spec

=============================================================================
