------------------------------ MODULE AioProofs ------------------------------
(***************************************************************************)
(* Proofs about the asynchronous I/O of Router.tla: what is known of the   *)
(* AIO watches, of the requests the kernel works on and of the completions *)
(* on the ring.                                                            *)
(***************************************************************************)
EXTENDS RouterProofs

-----------------------------------------------------------------------------
(* The AIO watches of a descriptor.                                        *)

UsbFds == {Usb, BulkOut}

\* The watches ever added for a descriptor, and whether one is on the list.
On(f)      == {w \in 1..Len(aio_watches) : aio_watches[w].fd = f}
Watched(f) == \E w \in linked : aio_watches[w].fd = f

\* A DM has one watch for good: dm_add is called once for each descriptor.
OneWatchPerDm ==
    \A v, w \in 1..Len(aio_watches) :
        aio_watches[v].fd = aio_watches[w].fd /\ aio_watches[v].fd \in Dm => v = w

\* A connection that has not been accepted is not watched.
ClientsWatched ==
    \A c \in Client : sock[c] \in {"none", "backlog"} => On(c) = {}

\* The watches of the endpoints stay, and there are none without the gadget.
EndpointsWatched ==
    /\ On(Usb) \cup On(BulkOut) \subseteq linked
    /\ On(Ep0) \cup On(Listen) = {}
    /\ ~UseUsb => On(Usb) \cup On(BulkOut) = {} /\ ~plugged /\ ep0 # "enable"

DmWatches == OneWatchPerDm /\ ClientsWatched /\ EndpointsWatched

\* A socket of a peripheral has one watch on the list.
OneWatchPerSocket ==
    \A v, w \in linked :
        aio_watches[v].fd = aio_watches[w].fd /\ aio_watches[v].fd \in Perif \cup CmdFd
            => v = w

\* A data socket without perif->data_open is not watched.
DataWatched == \A p \in Perif : p \notin data_open => ~Watched(p)

\* The points at which peripheral p's command server is known: position 0
\* stands for the router, which has its watch, the last one for a name server
\* that has yet to announce it.
ServerUp(p, i) ==
    \/ i = 0 /\ Watched(cmd_fd[p])
    \/ /\ i \in 1..Len(inbox[cmd_fd[p]])
       /\ inbox[cmd_fd[p]][i] = "new_server"
    \/ i = Len(inbox[cmd_fd[p]]) + 1 /\ p \notin announced

ServerDown(p, i) == inbox[cmd_fd[p]][i] = "del_server"

\* Between two of them the end of the server is reported, so the watch on the
\* command queue has gone when the next one is added.
ServersAlternate ==
    \A p \in Perif : \A i, j \in 0..(Len(inbox[cmd_fd[p]]) + 1) :
        i < j /\ ServerUp(p, i) /\ ServerUp(p, j)
            => \E k \in (i + 1)..(j - 1) : ServerDown(p, k)

SocketWatches == OneWatchPerSocket /\ DataWatched /\ ServersAlternate

\* No server is announced again while it is known: without this a command socket
\* has two watches (qrtr_cmd_recv adds one for each NEW_SERVER).
AnnouncedOnce == Budget["again"] = 0

-----------------------------------------------------------------------------
(* What steps do to the list of AIO watches.                               *)

\* An added watch comes last and is on the list.
LEMMA AddedAt ==
    ASSUME ListTypeOK, NEW f \in Fd, NEW b \in BOOLEAN, watch_add_aio(f, b)
    PROVE  /\ Len(aio_watches) \in Nat
           /\ Len(aio_watches') = Len(aio_watches) + 1
           /\ \A v \in 1..Len(aio_watches) : aio_watches'[v] = aio_watches[v]
           /\ aio_watches'[Len(aio_watches) + 1].fd = f
           /\ linked' = linked \cup {Len(aio_watches) + 1}
           /\ linked \subseteq 1..Len(aio_watches)
           /\ \A v \in 1..Len(aio_watches) : pending'[v] = pending[v]
           /\ pending'[Len(aio_watches) + 1] = NoMbuf
<1> DEFINE W == [fd : Fd, is_write : BOOLEAN]
           w == [fd |-> f, is_write |-> b]
<1>1. w \in W /\ w.fd = f
  OBVIOUS
<1>2. aio_watches \in Seq(W) /\ aio_watches' = Append(aio_watches, w)
  BY DEF ListTypeOK, watch_add_aio
<1>3. pending \in Seq(Mbuf \cup {NoMbuf}) /\ pending' = Append(pending, NoMbuf)
  BY DEF ListTypeOK, watch_add_aio
<1>4. /\ Len(aio_watches) \in Nat
      /\ Len(aio_watches') = Len(aio_watches) + 1
      /\ \A v \in 1..Len(aio_watches) : aio_watches'[v] = aio_watches[v]
      /\ aio_watches'[Len(aio_watches) + 1] = w
  <2> HIDE DEF W, w
  <2> QED BY <1>1, <1>2, AppendAt
<1>5. /\ \A v \in 1..Len(pending) : pending'[v] = pending[v]
      /\ pending'[Len(pending) + 1] = NoMbuf
  BY <1>3, AppendAt
<1> HIDE DEF w
<1> QED BY <1>1, <1>4, <1>5 DEF ListTypeOK, watch_add_aio

\* The same for the watches of a descriptor.
LEMMA AddedOn ==
    ASSUME ListTypeOK, NEW f \in Fd, NEW b \in BOOLEAN, watch_add_aio(f, b)
    PROVE  /\ On(f)' = On(f) \cup {Len(aio_watches) + 1}
           /\ \A g \in Fd : g # f => On(g)' = On(g) /\ (Watched(g)' <=> Watched(g))
           /\ Watched(f)'
<1>1. /\ Len(aio_watches) \in Nat
      /\ Len(aio_watches') = Len(aio_watches) + 1
      /\ \A v \in 1..Len(aio_watches) : aio_watches'[v] = aio_watches[v]
      /\ aio_watches'[Len(aio_watches) + 1].fd = f
      /\ linked' = linked \cup {Len(aio_watches) + 1}
      /\ linked \subseteq 1..Len(aio_watches)
  BY AddedAt
<1>2. 1..Len(aio_watches') = 1..Len(aio_watches) \cup {Len(aio_watches) + 1}
  BY <1>1
<1> QED BY <1>1, <1>2 DEF On, Watched

\* Removing the watches of f takes them off the list and leaves the others.
LEMMA RemovedOn ==
    ASSUME ListTypeOK, NEW f, watch_remove_aio(f), UNCHANGED aio_watches
    PROVE  /\ ~Watched(f)'
           /\ \A g : On(g)' = On(g)
           /\ \A g : g # f => (Watched(g)' <=> Watched(g))
           /\ linked' \subseteq linked
           /\ \A w \in linked : aio_watches[w].fd # f => w \in linked'
BY DEF On, Watched, watch_remove_aio

\* Nothing added or removed.
LEMMA SameOn ==
    ASSUME UNCHANGED <<aio_watches, linked>>
    PROVE  \A g : On(g)' = On(g) /\ (Watched(g)' <=> Watched(g))
BY DEF On, Watched

\* The descriptors a watch can be on.
LEMMA Descriptors ==
    /\ Client \subseteq Fd /\ Perif \subseteq Fd /\ CmdFd \subseteq Fd
    /\ UsbFds \cup {Ep0, Listen} \subseteq Fd
    /\ Client \cap (Perif \cup CmdFd \cup UsbFds \cup {Ep0, Listen}) = {}
    /\ Perif \cap (CmdFd \cup UsbFds \cup {Ep0, Listen}) = {}
    /\ CmdFd \cap (UsbFds \cup {Ep0, Listen}) = {}
    /\ UsbFds \cap {Ep0, Listen} = {}
    /\ Usb # BulkOut
    /\ Fd = Client \cup Perif \cup CmdFd \cup UsbFds \cup {Ep0, Listen}
    /\ \A p \in Perif : cmd_fd[p] \in CmdFd
    /\ \A p, q \in Perif : cmd_fd[p] = cmd_fd[q] => p = q
BY ZenonT(30), RouterAssumption DEF UsbFds, CmdFd

\* Every step adds a watch for a connection it accepts, for bulk_out when the
\* host is back or for a socket of a peripheral, removes those of a descriptor
\* other than an endpoint, or leaves the list alone.
LEMMA WatchSteps ==
    ASSUME TypeOK, [Next]_vars
    PROVE  \/ UNCHANGED <<aio_watches, linked, data_open>>
           \/ \E c \in Client : /\ watch_add_aio(c, TRUE)
                                /\ sock[c] = "backlog" /\ sock'[c] = "open"
                                /\ UNCHANGED data_open
           \/ \E b \in BOOLEAN : /\ watch_add_aio(BulkOut, b) /\ ep0 = "enable"
                                 /\ UNCHANGED data_open
           \/ \E p \in Perif : /\ watch_add_aio(p, TRUE)
                               /\ p \notin data_open
                               /\ data_open' = data_open \cup {p}
           \/ \E p \in Perif : /\ watch_add_aio(cmd_fd[p], TRUE)
                               /\ Receive(cmd_fd[p], "new_server")
                               /\ UNCHANGED data_open
           \/ \E f \in Fd \ UsbFds : /\ watch_remove_aio(f) /\ UNCHANGED aio_watches
                                     /\ data_open \subseteq data_open' \cup {f}
<1> DEFINE Same == UNCHANGED <<aio_watches, linked, data_open>>
           Gone == \E f \in Fd \ UsbFds : /\ watch_remove_aio(f)
                                          /\ UNCHANGED aio_watches
                                          /\ data_open \subseteq data_open' \cup {f}
<1>1. CASE Loop
  <2>1. ASSUME NEW w \in linked,
               \/ \E res \in Results : SubmitSocket(w, res)
               \/ SubmitEndpoint(w) \/ SubmitFailed(w)
               \/ LoopAbort(w) \/ LoopEagain(w) \/ LoopWrite(w) \/ diag_ffs_recv(w)
        PROVE  Same
    BY <2>1 DEF SubmitSocket, SubmitSync, SubmitEndpoint, SubmitAsync, SubmitFailed,
                SubmitRefused, LoopAbort, CompleteAbort, LoopEagain, CompleteEagain,
                LoopWrite, CompleteWrite, diag_ffs_recv, lists, dmVars
  <2>2. CASE LoopSelect \/ LoopReadEventfd \/ LoopGetEvents \/ LoopCompleteDone
             \/ LoopDispatchDone
    BY <2>2 DEF LoopSelect, Select, LoopReadEventfd, ReadEventfd, LoopGetEvents,
                GetEvents, LoopCompleteDone, CompleteDone, LoopDispatchDone,
                DispatchDone, lists, dmVars
  <2>3. ASSUME NEW c \in Client,
               \/ DmRecv(c) \/ DmRecvCommand(c) \/ DmRecvEagain(c) \/ DmRecvError(c)
        PROVE  Same
    BY <2>3 DEF DmRecv, DmRecvCommand, DmRecvEagain, DmRecvError, lists, dmVars
  <2>4. ASSUME NEW c \in Client, unix_listen(c)
        PROVE  /\ watch_add_aio(c, TRUE) /\ sock[c] = "backlog" /\ sock'[c] = "open"
               /\ UNCHANGED data_open
    BY <2>4 DEF unix_listen, TypeOK, EnvTypeOK
  <2>5. ASSUME NEW c \in Client, DmRecvEof(c)
        PROVE  Gone
    <3>1. c \in Fd \ UsbFds
      BY Descriptors
    <3> QED BY <2>5, <3>1 DEF DmRecvEof
  <2>6. CASE ep0_recv
    BY <2>6 DEF ep0_recv
  <2>7. ASSUME NEW p \in Perif, qrtr_data_recv(p)
        PROVE  \/ Same \/ Gone
               \/ /\ watch_add_aio(p, TRUE) /\ p \notin data_open
                  /\ data_open' = data_open \cup {p}
    <3>1. p \in Fd \ UsbFds
      BY Descriptors
    <3>2. PICK k \in Packets :
            \/ qrtr_data_recv_data(p, k)
            \/ qrtr_data_recv_bye(p, k)
            \/ UNCHANGED <<aio_watches, linked, data_open>>
      BY <2>7 DEF qrtr_data_recv
    <3> QED BY <3>1, <3>2 DEF qrtr_data_recv_data, qrtr_data_recv_bye
  <2>8. ASSUME NEW p \in Perif, qrtr_cmd_recv(p)
        PROVE  \/ Same \/ Gone
               \/ /\ watch_add_aio(cmd_fd[p], TRUE) /\ Receive(cmd_fd[p], "new_server")
                  /\ UNCHANGED data_open
    <3>1. cmd_fd[p] \in Fd \ UsbFds
      BY Descriptors
    <3> QED BY <2>8, <3>1 DEF qrtr_cmd_recv
  <2>9. CASE Handlers
    BY <2>3, <2>4, <2>5, <2>6, <2>7, <2>8, <2>9 DEF Handlers
  <2> QED BY <1>1, <2>1, <2>2, <2>9 DEF Loop
<1>2. CASE Environment
  BY <1>2 DEF Environment, ClientConnect, ClientClose, ClientSend, PerifSend,
              PerifCommandSocket, ServerUpDown, Plug, Unplug, EndpointComplete,
              KernelComplete, watchVars, lists, dmVars
<1>3. CASE UNCHANGED vars
  BY <1>3 DEF vars, watchVars, lists, dmVars
<1> QED BY <1>1, <1>2, <1>3 DEF Next

\* An accepted connection is never one to accept again, and without the gadget
\* no host shows up.
LEMMA ConnectionSteps ==
    ASSUME TypeOK, [Next]_vars
    PROVE  /\ \A c \in Client : sock'[c] \in {"none", "backlog"}
                                    => sock[c] \in {"none", "backlog"}
           /\ ~UseUsb => /\ plugged' => plugged
                         /\ ep0' = "enable" => plugged' \/ ep0 = "enable"
<1> DEFINE Kept == UNCHANGED <<sock, plugged, ep0>>
<1> USE DEF TypeOK
<1>t. sock \in [Client -> {"none", "backlog", "open", "reset", "failed", "eof"}]
  BY DEF EnvTypeOK
<1>1. CASE Loop
  <2>1. ASSUME NEW w \in linked,
               \/ SubmitEndpoint(w) \/ SubmitFailed(w)
               \/ LoopAbort(w) \/ LoopEagain(w) \/ LoopWrite(w) \/ diag_ffs_recv(w)
        PROVE  Kept
    BY <2>1 DEF SubmitEndpoint, SubmitFailed, LoopAbort, LoopEagain, LoopWrite,
                diag_ffs_recv, envVars
  <2>2. ASSUME NEW w \in linked, NEW res \in Results, SubmitSocket(w, res)
        PROVE  /\ UNCHANGED <<plugged, ep0>>
               /\ \A c \in Client : sock'[c] = sock[c] \/ sock'[c] = "eof"
    BY <2>2 DEF SubmitSocket, dmVars
  <2>3. CASE LoopSelect \/ LoopReadEventfd \/ LoopGetEvents \/ LoopCompleteDone
             \/ LoopDispatchDone
    BY <2>3 DEF LoopSelect, LoopReadEventfd, LoopGetEvents, LoopCompleteDone,
                LoopDispatchDone, envVars
  <2>4. ASSUME NEW c \in Client,
               \/ DmRecv(c) \/ DmRecvCommand(c) \/ DmRecvEagain(c) \/ DmRecvEof(c)
        PROVE  Kept
    BY <2>4 DEF DmRecv, DmRecvCommand, DmRecvEagain, DmRecvEof, envVars
  <2>5. ASSUME NEW c \in Client, unix_listen(c) \/ DmRecvError(c)
        PROVE  /\ UNCHANGED <<plugged, ep0>>
               /\ \A d \in Client : \/ sock'[d] = sock[d]
                                    \/ sock'[d] \in {"open", "failed"}
    BY <1>t, <2>5 DEF unix_listen, DmRecvError
  <2>6. CASE ep0_recv
    BY <2>6 DEF ep0_recv
  <2>7. ASSUME NEW p \in Perif, qrtr_data_recv(p) \/ qrtr_cmd_recv(p)
        PROVE  Kept
    BY <2>7 DEF qrtr_data_recv, qrtr_cmd_recv, Receive
  <2>9. CASE Handlers
    BY <2>4, <2>5, <2>6, <2>7, <2>9 DEF Handlers
  <2> QED BY <1>1, <2>1, <2>2, <2>3, <2>9 DEF Loop
<1>2. CASE Environment
  <2>1. ASSUME NEW c \in Client, ClientConnect(c) \/ ClientClose(c)
        PROVE  /\ UNCHANGED <<plugged, ep0>>
               /\ \A d \in Client : \/ sock'[d] = sock[d]
                                    \/ sock[d] = "none"
                                    \/ sock'[d] \in {"eof", "reset"}
    BY <1>t, <2>1 DEF ClientConnect, ClientClose, dmVars
  <2>2. ASSUME NEW c \in Client, NEW cmd \in Command, ClientSend(c, cmd)
        PROVE  Kept
    BY <2>2 DEF ClientSend, dmVars
  <2>3. ASSUME NEW p \in Perif,
               PerifSend(p) \/ PerifCommandSocket(p) \/ ServerUpDown(p)
        PROVE  Kept
    BY <2>3 DEF PerifSend, PerifCommandSocket, ServerUpDown, dmVars
  <2>4. CASE Plug \/ Unplug
    BY <2>4 DEF Plug, Unplug, dmVars
  <2>5. ASSUME NEW w \in inflight, EndpointComplete(w)
        PROVE  Kept
    BY <2>5 DEF EndpointComplete, dmVars
  <2> QED BY <1>2, <2>1, <2>2, <2>3, <2>4, <2>5 DEF Environment
<1>3. CASE UNCHANGED vars
  BY <1>3 DEF vars, envVars
<1> QED BY <1>1, <1>2, <1>3 DEF Next

-----------------------------------------------------------------------------
(* The watches of DMs.                                                     *)

\* Every step preserves what is known of the watches of DMs.
LEMMA NextDmWatches == TypeOK /\ DmWatches /\ [Next]_vars => DmWatches'
<1> SUFFICES ASSUME TypeOK, DmWatches, [Next]_vars PROVE DmWatches'
  OBVIOUS
<1>t. ListTypeOK
  BY DEF TypeOK
<1>c. /\ \A c \in Client : sock'[c] \in {"none", "backlog"}
                                => sock[c] \in {"none", "backlog"}
      /\ ~UseUsb => ~plugged' /\ ep0' # "enable"
  BY ConnectionSteps DEF DmWatches, EndpointsWatched
<1>1. ASSUME \A f \in Fd : On(f)' = On(f), OneWatchPerDm',
             \A f \in UsbFds : On(f) \subseteq linked'
      PROVE  DmWatches'
  <2>1. ClientsWatched'
    BY <1>c, <1>1, Descriptors DEF DmWatches, ClientsWatched
  <2>2. EndpointsWatched'
    BY <1>c, <1>1, Descriptors DEF DmWatches, EndpointsWatched, UsbFds
  <2> QED BY <1>1, <2>1, <2>2 DEF DmWatches
<1>2. CASE UNCHANGED <<aio_watches, linked>>
  <2>1. OneWatchPerDm'
    BY <1>2 DEF DmWatches, OneWatchPerDm
  <2> QED BY <1>1, <1>2, <2>1, SameOn DEF DmWatches, EndpointsWatched, UsbFds
<1>3. ASSUME NEW f \in Fd \ UsbFds, watch_remove_aio(f), UNCHANGED aio_watches
      PROVE  DmWatches'
  <2>1. OneWatchPerDm'
    BY <1>3 DEF DmWatches, OneWatchPerDm
  <2>2. \A g \in UsbFds : On(g) \subseteq linked'
    BY <1>3 DEF DmWatches, EndpointsWatched, UsbFds, On, watch_remove_aio
  <2> QED BY <1>1, <1>3, <1>t, <2>1, <2>2, RemovedOn
<1>4. ASSUME NEW f \in Fd \ {Ep0, Listen, Usb}, NEW b \in BOOLEAN,
             watch_add_aio(f, b),
             f \in Client => sock[f] = "backlog" /\ sock'[f] = "open",
             f = BulkOut => UseUsb
      PROVE  DmWatches'
  <2>1. /\ On(f)' = On(f) \cup {Len(aio_watches) + 1}
        /\ \A g \in Fd : g # f => On(g)' = On(g)
        /\ linked' = linked \cup {Len(aio_watches) + 1}
    BY <1>4, <1>t, AddedOn DEF watch_add_aio
  <2>2. f \in Client => On(f) = {}
    BY <1>4 DEF DmWatches, ClientsWatched
  <2>3. OneWatchPerDm'
    <3>1. f \in Dm => On(f) = {}
      BY <1>4, <2>2 DEF Dm
    <3>2. /\ Len(aio_watches) \in Nat
          /\ Len(aio_watches') = Len(aio_watches) + 1
          /\ \A v \in 1..Len(aio_watches) : aio_watches'[v] = aio_watches[v]
          /\ aio_watches'[Len(aio_watches) + 1].fd = f
      BY <1>4, <1>t, AddedAt
    <3>3. \A v \in 1..Len(aio_watches') :
             v \in 1..Len(aio_watches) \/ v = Len(aio_watches) + 1
      BY <3>2
    <3> QED BY <3>1, <3>2, <3>3 DEF DmWatches, OneWatchPerDm, On
  <2>4. ClientsWatched'
    BY <1>c, <1>4, <2>1, Descriptors DEF DmWatches, ClientsWatched
  <2>5. EndpointsWatched'
    <3>1. /\ On(Usb)' = On(Usb) /\ On(Ep0)' = On(Ep0) /\ On(Listen)' = On(Listen)
          /\ f # BulkOut => On(BulkOut)' = On(BulkOut)
      BY <1>4, <2>1, Descriptors DEF UsbFds
    <3>2. On(BulkOut)' \subseteq On(BulkOut) \cup {Len(aio_watches) + 1}
      BY <2>1, <3>1
    <3> QED BY <1>c, <1>4, <2>1, <3>1, <3>2 DEF DmWatches, EndpointsWatched
  <2> QED BY <2>3, <2>4, <2>5 DEF DmWatches
<1>5. ASSUME NEW f \in Client, watch_add_aio(f, TRUE), sock[f] = "backlog",
             sock'[f] = "open"
      PROVE  DmWatches'
  BY <1>4, <1>5, Descriptors DEF UsbFds
<1>6. ASSUME NEW b \in BOOLEAN, watch_add_aio(BulkOut, b), ep0 = "enable"
      PROVE  DmWatches'
  <2>1. BulkOut \in Fd \ {Ep0, Listen, Usb} /\ BulkOut \notin Client
    BY Descriptors DEF UsbFds
  <2>2. UseUsb
    BY <1>6 DEF DmWatches, EndpointsWatched
  <2> QED BY <1>4, <1>6, <2>1, <2>2
<1>7. ASSUME NEW f \in Perif \cup CmdFd, watch_add_aio(f, TRUE)
      PROVE  DmWatches'
  <2>1. f \in Fd \ {Ep0, Listen, Usb} /\ f \notin Client /\ f # BulkOut
    BY Descriptors DEF UsbFds
  <2> QED BY <1>4, <1>7, <2>1
<1> QED BY <1>2, <1>3, <1>5, <1>6, <1>7, WatchSteps, Descriptors

\* main adds a watch for bulk_in, if there is a gadget.
LEMMA InitWatches ==
    ASSUME Init
    PROVE  /\ \A w \in 1..Len(aio_watches) : w = 1 /\ UseUsb /\ aio_watches[w].fd = Usb
           /\ linked = 1..Len(aio_watches)
<1> DEFINE writes == IF UseUsb THEN <<Usb>> ELSE <<>>
<1>1. /\ aio_watches = [i \in 1..Len(writes) |-> [fd |-> writes[i], is_write |-> TRUE]]
      /\ linked = 1..Len(writes)
  BY DEF Init, WatchInit
<1>2. DOMAIN aio_watches = 1..Len(writes)
  BY <1>1
<1>3. DOMAIN aio_watches = 1..Len(aio_watches)
  <2> DEFINE W == [fd : Fd, is_write : BOOLEAN]
  <2>1. aio_watches \in Seq(W)
    BY InitTypeOK DEF TypeOK, ListTypeOK
  <2> HIDE DEF W
  <2> QED BY <2>1, LenProperties
<1>4. /\ UseUsb => Len(writes) = 1 /\ writes[1] = Usb
      /\ ~UseUsb => Len(writes) = 0
  OBVIOUS
<1> HIDE DEF writes
<1>5. \A w \in 1..Len(writes) : w = 1 /\ UseUsb /\ writes[w] = Usb
  <2>1. CASE UseUsb
    <3>1. Len(writes) = 1 /\ writes[1] = Usb
      BY <1>4, <2>1
    <3>2. \A w \in 1..1 : w = 1
      OBVIOUS
    <3> QED BY <2>1, <3>1, <3>2
  <2>2. CASE ~UseUsb
    BY <1>4, <2>2
  <2> QED BY <2>1, <2>2
<1> QED BY <1>1, <1>2, <1>3, <1>5

\* What is known of the watches of DMs holds in every reachable state.
LEMMA DmWatchesAlways == Spec => []DmWatches
<1>1. Init => DmWatches
  <2> SUFFICES ASSUME Init PROVE DmWatches
    OBVIOUS
  <2>1. \A f \in Fd : f # Usb => On(f) = {}
    BY InitWatches DEF On
  <2>2. OneWatchPerDm
    BY InitWatches DEF OneWatchPerDm
  <2>3. ClientsWatched
    BY <2>1, Descriptors DEF ClientsWatched, UsbFds
  <2>4. On(Usb) \subseteq linked /\ (~UseUsb => On(Usb) = {})
    BY InitWatches DEF On
  <2>5. EndpointsWatched
    BY <2>1, <2>4, Descriptors DEF EndpointsWatched, UsbFds, Init
  <2> QED BY <2>2, <2>3, <2>5 DEF DmWatches
<1> QED BY <1>1, NextDmWatches, TypeCorrect, PTL DEF Spec

-----------------------------------------------------------------------------
(* The watches of peripherals' sockets.                                    *)

\* What a step does to the command socket of p: nothing, a packet is taken, one
\* that is no report of the name server arrives, or one that is.
CommandSocketStep(p) ==
    LET f     == cmd_fd[p]
        Known == p \in announced <=> p \in announced'
        Fewer == Watched(f)' => Watched(f)
    IN  \/ inbox'[f] = inbox[f] /\ Known /\ Fewer
        \/ /\ inbox[f] # <<>> /\ inbox'[f] = Tail(inbox[f]) /\ Known
           /\ \/ Head(inbox[f]) = "new_server"
              \/ Head(inbox[f]) = "del_server" /\ ~Watched(f)'
              \/ Head(inbox[f]) # "del_server" /\ Fewer
        \/ \E k \in Packets \ {"new_server", "del_server"} :
              inbox'[f] = Append(inbox[f], k) /\ Known /\ Fewer
        \/ /\ p \notin announced /\ p \in announced'
           /\ inbox'[f] = Append(inbox[f], "new_server") /\ Fewer
        \/ /\ p \notin announced'
           /\ inbox'[f] = Append(inbox[f], "del_server") /\ Fewer

\* Reports of the name server alternate for p, as ServersAlternate says.
Alternates(p) ==
    \A i, j \in 0..(Len(inbox[cmd_fd[p]]) + 1) :
        i < j /\ ServerUp(p, i) /\ ServerUp(p, j)
            => \E k \in (i + 1)..(j - 1) : ServerDown(p, k)

\* The steps of a command socket keep its reports alternating.
LEMMA AlternatesKept ==
    ASSUME TypeOK, NEW p \in Perif, Alternates(p), CommandSocketStep(p)
    PROVE  Alternates(p)'
<1> DEFINE f == cmd_fd[p]
           s == inbox[f]
<1>1. f \in Perif \cup CmdFd
  BY DEF CmdFd
<1>0. s \in Seq(Packets) /\ Len(s) \in Nat
  BY <1>1, LenProperties DEF TypeOK, EnvTypeOK
<1>2. PICK n \in Nat : n = Len(s) /\ s \in Seq(Packets)
  BY <1>0
<1>3. CASE /\ inbox'[f] = s /\ (p \in announced <=> p \in announced')
           /\ Watched(f)' => Watched(f)
  BY <1>3 DEF Alternates, ServerUp, ServerDown
<1>4. CASE /\ s # <<>> /\ inbox'[f] = Tail(s) /\ (p \in announced <=> p \in announced')
           /\ \/ Head(s) = "new_server"
              \/ Head(s) = "del_server" /\ ~Watched(f)'
              \/ Head(s) # "del_server" /\ (Watched(f)' => Watched(f))
  <2>1. /\ n \in Nat \ {0} /\ Len(Tail(s)) = n - 1 /\ Head(s) = s[1]
        /\ \A i \in 1..(n - 1) : Tail(s)[i] = s[i + 1]
    BY <1>2, <1>4, TailAt
  <2>0. 0..(Len(inbox'[f]) + 1) = 0..n
    BY <1>4, <2>1
  <2> SUFFICES ASSUME NEW i \in 0..n, NEW j \in 0..n, i < j,
                      ServerUp(p, i)', ServerUp(p, j)'
               PROVE  \E k \in (i + 1)..(j - 1) : ServerDown(p, k)'
    BY <2>0, Zenon DEF Alternates
  <2>2. \A l \in 1..n : ServerUp(p, l)' => ServerUp(p, l + 1)
    <3> SUFFICES ASSUME NEW l \in 1..n, ServerUp(p, l)'
                 PROVE  ServerUp(p, l + 1)
      OBVIOUS
    <3>1. CASE l \in 1..(n - 1) /\ Tail(s)[l] = "new_server"
      <4>1. l + 1 \in 1..n /\ s[l + 1] = "new_server"
        BY <1>2, <2>1, <3>1
      <4> QED BY <1>2, <4>1 DEF ServerUp
    <3>2. CASE l = n /\ p \notin announced
      BY <1>2, <3>2 DEF ServerUp
    <3>3. \/ l \in 1..(n - 1) /\ Tail(s)[l] = "new_server"
          \/ l = n /\ p \notin announced
      BY <1>2, <1>4, <2>1 DEF ServerUp
    <3> QED BY <3>1, <3>2, <3>3
  <2>3. \A k \in 2..n : ServerDown(p, k) => ServerDown(p, k - 1)'
    BY <1>4, <2>1 DEF ServerDown
  <2>4. CASE i # 0
    <3>1. ServerUp(p, i + 1) /\ ServerUp(p, j + 1)
      BY <1>2, <2>2, <2>4
    <3>2. PICK k \in (i + 2)..j : ServerDown(p, k)
      BY <1>2, <3>1 DEF Alternates
    <3>3. k - 1 \in (i + 1)..(j - 1) /\ k \in 2..n
      BY <1>2
    <3> QED BY <2>3, <3>2, <3>3
  <2>5. CASE i = 0 /\ Head(s) = "new_server"
    <3>1. ServerUp(p, 1) /\ ServerUp(p, j + 1)
      BY <1>2, <2>1, <2>2, <2>5 DEF ServerUp
    <3>2. PICK k \in 2..j : ServerDown(p, k)
      BY <1>2, <2>5, <3>1 DEF Alternates
    <3>3. k - 1 \in (i + 1)..(j - 1) /\ k \in 2..n
      BY <1>2, <2>5
    <3> QED BY <2>3, <3>2, <3>3
  <2>6. CASE i = 0 /\ Head(s) = "del_server" /\ ~Watched(f)'
    BY <1>2, <2>6 DEF ServerUp
  <2>7. CASE i = 0 /\ Head(s) # "del_server" /\ (Watched(f)' => Watched(f))
    <3>1. ServerUp(p, 0) /\ ServerUp(p, j + 1)
      BY <1>2, <2>2, <2>7 DEF ServerUp
    <3>2. PICK k \in 1..j : ServerDown(p, k)
      <4>1. 0 \in 0..(n + 1) /\ j + 1 \in 0..(n + 1) /\ 0 < j + 1
            /\ (0 + 1)..((j + 1) - 1) = 1..j
        BY <1>2, <2>7
      <4> QED BY <1>2, <3>1, <4>1 DEF Alternates
    <3>3. k # 1
      BY <2>1, <2>7, <3>2 DEF ServerDown
    <3>4. k - 1 \in (i + 1)..(j - 1) /\ k \in 2..n
      BY <1>2, <2>7, <3>3
    <3> QED BY <2>3, <3>2, <3>4
  <2> QED BY <1>4, <2>4, <2>5, <2>6, <2>7
<1>5. ASSUME NEW k \in Packets, inbox'[f] = Append(s, k), Watched(f)' => Watched(f),
             \/ /\ k \notin {"new_server", "del_server"}
                /\ p \in announced <=> p \in announced'
             \/ k = "new_server" /\ p \notin announced /\ p \in announced'
             \/ k = "del_server" /\ p \notin announced'
      PROVE  Alternates(p)'
  <2>1. /\ Len(inbox'[f]) = n + 1 /\ inbox'[f][n + 1] = k
        /\ \A i \in 1..n : inbox'[f][i] = s[i]
    BY <1>2, <1>5, AppendAt
  <2> SUFFICES ASSUME NEW i \in 0..(n + 2), NEW j \in 0..(n + 2), i < j,
                      ServerUp(p, i)', ServerUp(p, j)'
               PROVE  \E l \in (i + 1)..(j - 1) : ServerDown(p, l)'
    BY <1>2, <2>1 DEF Alternates
  <2>2. \A l \in 0..n : ServerUp(p, l)' => ServerUp(p, l)
    BY <1>2, <1>5, <2>1 DEF ServerUp
  <2>3. \A l \in 1..n : ServerDown(p, l) => ServerDown(p, l)'
    BY <2>1 DEF ServerDown
  <2>4. ServerUp(p, n + 1)' => k = "new_server" /\ ServerUp(p, n + 1)
    BY <1>2, <1>5, <2>1 DEF ServerUp
  <2>5. ServerUp(p, n + 2)' => \/ k = "del_server"
                               \/ k # "new_server" /\ ServerUp(p, n + 1)
    BY <1>2, <1>5, <2>1 DEF ServerUp
  <2>6. CASE j <= n + 1
    <3>1. ServerUp(p, i) /\ ServerUp(p, j)
      BY <1>2, <2>2, <2>4, <2>6
    <3>2. PICK l \in (i + 1)..(j - 1) : ServerDown(p, l)
      BY <1>2, <2>6, <3>1 DEF Alternates
    <3>3. l \in 1..n
      BY <1>2, <2>6
    <3> QED BY <2>3, <3>2, <3>3
  <2>7. CASE j = n + 2 /\ k = "del_server"
    <3>1. i # n + 1
      BY <2>4, <2>7
    <3>2. n + 1 \in (i + 1)..(j - 1)
      BY <1>2, <2>7, <3>1
    <3>3. ServerDown(p, n + 1)'
      BY <2>1, <2>7 DEF ServerDown
    <3> QED BY <3>2, <3>3
  <2>8. CASE j = n + 2 /\ k # "del_server"
    <3>1. ServerUp(p, n + 1) /\ i # n + 1
      BY <2>4, <2>5, <2>8
    <3>2. i \in 0..n /\ ServerUp(p, i)
      BY <1>2, <2>2, <2>8, <3>1
    <3>3. PICK l \in (i + 1)..n : ServerDown(p, l)
      BY <1>2, <3>1, <3>2 DEF Alternates
    <3>4. l \in 1..n /\ l \in (i + 1)..(j - 1)
      BY <1>2, <2>8, <3>2
    <3> QED BY <2>3, <3>3, <3>4
  <2> QED BY <1>2, <2>6, <2>7, <2>8
<1> QED BY <1>3, <1>4, <1>5 DEF CommandSocketStep, Packets

\* Sockets of peripherals change in these ways only.
LEMMA InboxSteps ==
    ASSUME TypeOK, [Next]_vars
    PROVE  \/ UNCHANGED <<inbox, announced>>
           \/ \E q \in Perif, k \in Packets : Receive(q, k)
           \/ \E q \in Perif : qrtr_cmd_recv(q)
           \/ \E q \in Perif :
                 PerifSend(q) \/ PerifCommandSocket(q) \/ ServerUpDown(q)
<1> DEFINE Same == UNCHANGED <<inbox, announced>>
<1>1. CASE Loop
  <2>1. ASSUME NEW w \in linked,
               \/ \E res \in Results : SubmitSocket(w, res)
               \/ SubmitEndpoint(w) \/ SubmitFailed(w)
               \/ LoopAbort(w) \/ LoopEagain(w) \/ LoopWrite(w) \/ diag_ffs_recv(w)
        PROVE  Same
    BY <2>1 DEF SubmitSocket, SubmitEndpoint, SubmitFailed, LoopAbort, LoopEagain,
                LoopWrite, diag_ffs_recv, envVars
  <2>2. CASE LoopSelect \/ LoopReadEventfd \/ LoopGetEvents \/ LoopCompleteDone
             \/ LoopDispatchDone
    BY <2>2 DEF LoopSelect, LoopReadEventfd, LoopGetEvents, LoopCompleteDone,
                LoopDispatchDone, envVars
  <2>3. ASSUME NEW c \in Client,
               \/ unix_listen(c) \/ DmRecv(c) \/ DmRecvCommand(c)
               \/ DmRecvEagain(c) \/ DmRecvEof(c) \/ DmRecvError(c)
        PROVE  Same
    BY <2>3 DEF unix_listen, DmRecv, DmRecvCommand, DmRecvEagain, DmRecvEof,
                DmRecvError, envVars
  <2>4. CASE ep0_recv
    BY <2>4 DEF ep0_recv
  <2>5. ASSUME NEW p \in Perif, qrtr_data_recv(p)
        PROVE  \E k \in Packets : Receive(p, k)
    BY <2>5 DEF qrtr_data_recv
  <2>6. CASE Handlers
    BY <2>3, <2>4, <2>5, <2>6 DEF Handlers
  <2> QED BY <1>1, <2>1, <2>2, <2>6 DEF Loop
<1>2. CASE Environment
  <2>1. ASSUME NEW c \in Client,
               \/ ClientConnect(c) \/ ClientClose(c)
               \/ \E cmd \in Command : ClientSend(c, cmd)
        PROVE  Same
    BY <2>1 DEF ClientConnect, ClientClose, ClientSend
  <2>2. CASE Plug \/ Unplug \/ \E w \in inflight : EndpointComplete(w)
    BY <2>2 DEF Plug, Unplug, EndpointComplete
  <2> QED BY <1>2, <2>1, <2>2 DEF Environment
<1>3. CASE UNCHANGED vars
  BY <1>3 DEF vars, envVars
<1> QED BY <1>1, <1>2, <1>3 DEF Next

\* A socket with a packet less is not as it was.
LEMMA TailDiffers ==
    ASSUME NEW S, NEW s \in Seq(S), s # <<>>
    PROVE  Tail(s) # s
<1>1. Len(Tail(s)) = Len(s) - 1 /\ Len(s) \in Nat
  BY TailAt
<1>2. \A n \in Nat : n - 1 # n
  OBVIOUS
<1> QED BY <1>1, <1>2, Zenon

\* Every step is such a step for each command socket.
LEMMA CommandSocketSteps ==
    ASSUME TypeOK, [Next]_vars, budget["again"] = 0, NEW p \in Perif
    PROVE  CommandSocketStep(p)
<1> DEFINE f == cmd_fd[p]
           Fewer == Watched(f)' => Watched(f)
<1>f. f \in CmdFd /\ f \in Fd /\ inbox \in [Perif \cup CmdFd -> Seq(Packets)]
  BY Descriptors DEF TypeOK, EnvTypeOK
<1>w. Fewer \/ Receive(f, "new_server")
  <2>t. ListTypeOK
    BY DEF TypeOK
  <2>1. CASE UNCHANGED <<aio_watches, linked>>
    BY <2>1, SameOn
  <2>2. ASSUME NEW g \in Fd, NEW b \in BOOLEAN, watch_add_aio(g, b), g # f
        PROVE  Fewer
    BY <1>f, <2>t, <2>2, AddedOn
  <2>3. ASSUME NEW g, watch_remove_aio(g), UNCHANGED aio_watches
        PROVE  Fewer
    BY <2>t, <2>3, RemovedOn
  <2>4. ASSUME NEW q \in Perif, watch_add_aio(cmd_fd[q], TRUE),
               Receive(cmd_fd[q], "new_server")
        PROVE  Fewer \/ Receive(f, "new_server")
    BY <2>2, <2>4, Descriptors
  <2>5. ASSUME NEW g \in Client \cup Perif \cup {BulkOut}, NEW b \in BOOLEAN,
               watch_add_aio(g, b)
        PROVE  Fewer
    <3>1. g \in Fd /\ g # f
      BY <1>f, Descriptors DEF UsbFds
    <3> QED BY <2>2, <2>5, <3>1
  <2> HIDE DEF Fewer, f
  <2> QED BY <2>1, <2>3, <2>4, <2>5, WatchSteps
<1>r. inbox'[f] = inbox[f] => Fewer
  <2>1. ASSUME Receive(f, "new_server") PROVE inbox'[f] # inbox[f]
    <3>1. inbox[f] \in Seq(Packets) /\ inbox[f] # <<>> /\ inbox'[f] = Tail(inbox[f])
      BY <1>f, <2>1 DEF Receive
    <3> QED BY <3>1, TailDiffers
  <2> QED BY <1>w, <2>1
<1>1. CASE UNCHANGED <<inbox, announced>>
  BY <1>1, <1>r DEF CommandSocketStep
<1>2. ASSUME NEW q \in Perif, NEW k \in Packets, Receive(q, k)
      PROVE  CommandSocketStep(p)
  <2>1. q # f /\ inbox'[f] = inbox[f] /\ announced' = announced
    BY <1>f, <1>2, Descriptors DEF Receive
  <2> QED BY <1>r, <2>1 DEF CommandSocketStep
<1>3. ASSUME NEW q \in Perif, qrtr_cmd_recv(q)
      PROVE  CommandSocketStep(p)
  <2>1. PICK k \in Packets :
          /\ Receive(cmd_fd[q], k)
          /\ k = "del_server" => watch_remove_aio(cmd_fd[q]) /\ UNCHANGED aio_watches
    BY <1>3 DEF qrtr_cmd_recv
  <2>2. CASE q = p
    <3>1. /\ inbox[f] # <<>> /\ inbox'[f] = Tail(inbox[f]) /\ announced' = announced
          /\ k = Head(inbox[f])
      BY <1>f, <2>1, <2>2 DEF Receive
    <3>2. k = "del_server" => ~Watched(f)'
      BY <2>1, <2>2, RemovedOn DEF TypeOK
    <3>3. k # "new_server" => Fewer
      BY <1>w, <3>1 DEF Receive
    <3> QED BY <3>1, <3>2, <3>3 DEF CommandSocketStep
  <2>3. CASE q # p
    <3>1. inbox'[f] = inbox[f] /\ announced' = announced
      BY <1>f, <2>1, <2>3, Descriptors DEF Receive
    <3> QED BY <1>r, <3>1 DEF CommandSocketStep
  <2> QED BY <2>2, <2>3
<1>4. ASSUME NEW q \in Perif,
             PerifSend(q) \/ PerifCommandSocket(q) \/ ServerUpDown(q)
      PROVE  CommandSocketStep(p)
  <2>1. Fewer
    BY <1>4, SameOn DEF PerifSend, PerifCommandSocket, ServerUpDown, watchVars, lists
  <2>2. CASE PerifSend(q)
    <3>1. q # f
      BY <1>f, Descriptors
    <3>2. inbox'[f] = inbox[f] /\ announced' = announced
      BY <1>f, <2>2, <3>1 DEF PerifSend
    <3> QED BY <2>1, <3>2 DEF CommandSocketStep
  <2>3. CASE q # p /\ (PerifCommandSocket(q) \/ ServerUpDown(q))
    <3>1. cmd_fd[q] # f
      BY <2>3, Descriptors
    <3>2. inbox'[f] = inbox[f] /\ (p \in announced <=> p \in announced')
      BY <1>f, <2>3, <3>1 DEF PerifCommandSocket, ServerUpDown
    <3> QED BY <2>1, <3>2 DEF CommandSocketStep
  <2>4. CASE q = p /\ PerifCommandSocket(q)
    BY <1>f, <2>1, <2>4 DEF PerifCommandSocket, CommandSocketStep, Packets
  <2>5. CASE q = p /\ ServerUpDown(q)
    <3>1. ~Spend("again")
      BY DEF Spend
    <3> QED BY <1>f, <2>1, <2>5, <3>1 DEF ServerUpDown, CommandSocketStep
  <2> QED BY <1>4, <2>2, <2>3, <2>4, <2>5
<1> QED BY <1>1, <1>2, <1>3, <1>4, InboxSteps

\* What is spent is not earned again.
LEMMA NextAnnouncedOnce ==
    TypeOK /\ budget["again"] = 0 /\ [Next]_vars => budget'["again"] = 0
<1> SUFFICES ASSUME TypeOK, budget["again"] = 0, [Next]_vars PROVE budget'["again"] = 0
  OBVIOUS
<1>k. budget \in [Kinds -> Nat] /\ "again" \in Kinds
  BY DEF TypeOK, EnvTypeOK, Kinds
<1>s. ASSUME NEW k, Spend(k) PROVE budget'["again"] = 0
  BY <1>k, <1>s DEF Spend
<1>1. CASE Loop
  <2>1. ASSUME NEW w \in linked,
               \/ \E res \in Results : SubmitSocket(w, res)
               \/ SubmitEndpoint(w)
               \/ LoopAbort(w) \/ LoopEagain(w) \/ LoopWrite(w) \/ diag_ffs_recv(w)
        PROVE  UNCHANGED budget
    BY <2>1 DEF SubmitSocket, SubmitEndpoint, LoopAbort, LoopEagain, LoopWrite,
                diag_ffs_recv, envVars
  <2>2. CASE LoopSelect \/ LoopReadEventfd \/ LoopGetEvents \/ LoopCompleteDone
             \/ LoopDispatchDone
    BY <2>2 DEF LoopSelect, LoopReadEventfd, LoopGetEvents, LoopCompleteDone,
                LoopDispatchDone, envVars
  <2>3. ASSUME NEW c \in Client,
               \/ unix_listen(c) \/ DmRecv(c) \/ DmRecvCommand(c)
               \/ DmRecvEagain(c) \/ DmRecvEof(c) \/ DmRecvError(c)
        PROVE  UNCHANGED budget
    BY <2>3 DEF unix_listen, DmRecv, DmRecvCommand, DmRecvEagain, DmRecvEof,
                DmRecvError, envVars
  <2>4. CASE ep0_recv
    BY <2>4 DEF ep0_recv
  <2>5. ASSUME NEW p \in Perif, qrtr_data_recv(p) \/ qrtr_cmd_recv(p)
        PROVE  UNCHANGED budget
    BY <2>5 DEF qrtr_data_recv, qrtr_cmd_recv, Receive
  <2>6. CASE Handlers
    BY <2>3, <2>4, <2>5, <2>6 DEF Handlers
  <2>7. ASSUME NEW w \in linked, SubmitFailed(w) PROVE budget'["again"] = 0
    BY <1>s, <2>7 DEF SubmitFailed
  <2> QED BY <1>1, <2>1, <2>2, <2>6, <2>7 DEF Loop
<1>2. CASE Environment
  BY <1>2, <1>s DEF Environment, ClientConnect, ClientSend, ClientClose, PerifSend,
              PerifCommandSocket, ServerUpDown, Plug, Unplug, EndpointComplete
<1>3. CASE UNCHANGED vars
  BY <1>3 DEF vars, envVars
<1> QED BY <1>1, <1>2, <1>3 DEF Next

\* Every step preserves what is known of the watches of peripherals' sockets.
LEMMA NextSocketWatches ==
    TypeOK /\ budget["again"] = 0 /\ SocketWatches /\ [Next]_vars => SocketWatches'
<1> SUFFICES ASSUME TypeOK, budget["again"] = 0, SocketWatches, [Next]_vars
             PROVE  SocketWatches'
  OBVIOUS
<1>t. ListTypeOK
  BY DEF TypeOK
<1>1. ServersAlternate'
  <2>1. \A p \in Perif : Alternates(p)
    BY DEF SocketWatches, ServersAlternate, Alternates
  <2>2. \A p \in Perif : Alternates(p)'
    BY <2>1, AlternatesKept, CommandSocketSteps
  <2> QED BY <2>2 DEF ServersAlternate, Alternates
<1>2. CASE UNCHANGED <<aio_watches, linked, data_open>>
  BY <1>1, <1>2 DEF SocketWatches, OneWatchPerSocket, DataWatched, Watched
<1>3. ASSUME NEW f, watch_remove_aio(f), UNCHANGED aio_watches,
             data_open \subseteq data_open' \cup {f}
      PROVE  SocketWatches'
  <2>1. OneWatchPerSocket'
    BY <1>3 DEF SocketWatches, OneWatchPerSocket, watch_remove_aio
  <2>2. DataWatched'
    BY <1>3, <1>t, RemovedOn DEF SocketWatches, DataWatched
  <2> QED BY <1>1, <2>1, <2>2 DEF SocketWatches
<1>4. ASSUME NEW f \in Fd, NEW b \in BOOLEAN, watch_add_aio(f, b),
             f \in Perif \cup CmdFd => ~Watched(f),
             data_open' = data_open \cup ({f} \cap Perif)
      PROVE  SocketWatches'
  <2>1. /\ Len(aio_watches) \in Nat
        /\ \A v \in 1..Len(aio_watches) : aio_watches'[v] = aio_watches[v]
        /\ aio_watches'[Len(aio_watches) + 1].fd = f
        /\ linked' = linked \cup {Len(aio_watches) + 1}
        /\ linked \subseteq 1..Len(aio_watches)
    BY <1>4, <1>t, AddedAt
  <2>2. OneWatchPerSocket'
    BY <1>4, <2>1 DEF SocketWatches, OneWatchPerSocket, Watched
  <2>3. DataWatched'
    <3>1. \A g \in Fd : g # f => (Watched(g)' <=> Watched(g))
      BY <1>4, <1>t, AddedOn
    <3> QED BY <1>4, <3>1, Descriptors DEF SocketWatches, DataWatched
  <2> QED BY <1>1, <2>2, <2>3 DEF SocketWatches
<1>5. ASSUME NEW f \in Client \cup {BulkOut}, NEW b \in BOOLEAN, watch_add_aio(f, b),
             UNCHANGED data_open
      PROVE  SocketWatches'
  <2>1. f \in Fd /\ f \notin Perif \cup CmdFd
    BY Descriptors DEF UsbFds
  <2> QED BY <1>4, <1>5, <2>1
<1>6. ASSUME NEW p \in Perif, watch_add_aio(p, TRUE), p \notin data_open,
             data_open' = data_open \cup {p}
      PROVE  SocketWatches'
  <2>1. p \in Fd /\ ~Watched(p) /\ {p} \cap Perif = {p}
    BY <1>6, Descriptors DEF SocketWatches, DataWatched
  <2> QED BY <1>4, <1>6, <2>1
<1>7. ASSUME NEW p \in Perif, watch_add_aio(cmd_fd[p], TRUE),
             Receive(cmd_fd[p], "new_server"), UNCHANGED data_open
      PROVE  SocketWatches'
  <2>1. cmd_fd[p] \in Fd /\ cmd_fd[p] \notin Perif /\ cmd_fd[p] \in CmdFd
    BY Descriptors
  <2>2. inbox[cmd_fd[p]] \in Seq(Packets) /\ inbox[cmd_fd[p]] # <<>>
        /\ Head(inbox[cmd_fd[p]]) = "new_server"
    BY <1>7, <2>1 DEF Receive, TypeOK, EnvTypeOK
  <2>3. /\ Len(inbox[cmd_fd[p]]) \in Nat \ {0}
        /\ inbox[cmd_fd[p]][1] = "new_server"
    BY <2>2, TailAt
  <2>4. ~Watched(cmd_fd[p])
    <3>1. ServerUp(p, 1)
      BY <2>3 DEF ServerUp
    <3>2. Watched(cmd_fd[p]) => ServerUp(p, 0)
      BY DEF ServerUp
    <3>3. /\ 0 \in 0..(Len(inbox[cmd_fd[p]]) + 1)
          /\ 1 \in 0..(Len(inbox[cmd_fd[p]]) + 1)
          /\ (0 + 1)..(1 - 1) = {} /\ 0 < 1
      BY <2>3
    <3> QED BY <3>1, <3>2, <3>3 DEF SocketWatches, ServersAlternate
  <2> QED BY <1>4, <1>7, <2>1, <2>4
<1> QED BY <1>2, <1>3, <1>5, <1>6, <1>7, WatchSteps

\* What is known of the watches of sockets holds in every reachable state.
LEMMA SocketWatchesAlways == Spec => [](AnnouncedOnce => SocketWatches)
<1>0. Spec => [](AnnouncedOnce => budget["again"] = 0)
  <2>1. Init => (AnnouncedOnce => budget["again"] = 0)
    BY DEF Init, AnnouncedOnce
  <2>2. /\ TypeOK /\ (AnnouncedOnce => budget["again"] = 0) /\ [Next]_vars
        => (AnnouncedOnce => budget["again"] = 0)'
    BY NextAnnouncedOnce DEF AnnouncedOnce
  <2> QED BY <2>1, <2>2, TypeCorrect, PTL DEF Spec
<1>1. Init => SocketWatches
  <2> SUFFICES ASSUME Init PROVE SocketWatches
    OBVIOUS
  <2>1. \A f \in Perif \cup CmdFd : ~Watched(f)
    BY InitWatches, Descriptors DEF Watched, UsbFds
  <2>2. OneWatchPerSocket
    BY InitWatches DEF OneWatchPerSocket
  <2>3. DataWatched
    BY <2>1 DEF DataWatched
  <2>4. ServersAlternate
    <3> SUFFICES ASSUME NEW p \in Perif, NEW i \in 0..(Len(inbox[cmd_fd[p]]) + 1),
                        NEW j \in 0..(Len(inbox[cmd_fd[p]]) + 1), i < j,
                        ServerUp(p, i), ServerUp(p, j)
                 PROVE  FALSE
      BY DEF ServersAlternate
    <3>1. cmd_fd[p] \in CmdFd
      BY Descriptors
    <3>2. inbox[cmd_fd[p]] = <<>>
      BY <3>1 DEF Init
    <3>3. Len(inbox[cmd_fd[p]]) = 0
      BY <3>2
    <3>4. i = 0
      BY <3>3
    <3> QED BY <2>1, <3>1, <3>3, <3>4 DEF ServerUp
  <2> QED BY <2>2, <2>3, <2>4 DEF SocketWatches
<1>2. /\ TypeOK /\ (AnnouncedOnce => budget["again"] = 0)
      /\ (AnnouncedOnce => SocketWatches) /\ [Next]_vars
      => (AnnouncedOnce => SocketWatches)'
  BY NextSocketWatches DEF AnnouncedOnce
<1> QED BY <1>0, <1>1, <1>2, TypeCorrect, PTL DEF Spec

-----------------------------------------------------------------------------
(* The receive buffer of the USB gadget.                                   *)

\* Only the watches on bulk_out read, and what is queued for them or pending on
\* them is the one buffer diag_usb_open allocated.
BulkOutBuffer ==
    /\ \A w \in 1..Len(aio_watches) :
          ~aio_watches[w].is_write => aio_watches[w].fd = BulkOut
    /\ \A i \in 1..Len(queue[BulkOut]) : queue[BulkOut][i] = OutBuf
    /\ \A w \in 1..Len(aio_watches) :
          aio_watches[w].fd = BulkOut => pending[w] \in {NoMbuf, OutBuf}

\* A watch keeps its descriptor and its kind; watches are only added, with
\* nothing pending.
LEMMA PositionsKept ==
    ASSUME TypeOK, [Next]_vars
    PROVE  /\ \A v \in 1..Len(aio_watches) :
                 v \in 1..Len(aio_watches') /\ aio_watches'[v] = aio_watches[v]
           /\ \A v \in 1..Len(aio_watches') :
                 \/ v \in 1..Len(aio_watches)
                 \/ /\ v = Len(aio_watches) + 1 /\ pending'[v] = NoMbuf
                    /\ ~aio_watches'[v].is_write => aio_watches'[v].fd = BulkOut
<1>t. ListTypeOK
  BY DEF TypeOK
<1>1. CASE UNCHANGED aio_watches
  BY <1>1
<1>2. ASSUME NEW f \in Fd, NEW b \in BOOLEAN, watch_add_aio(f, b), b \/ f = BulkOut
      PROVE  /\ \A v \in 1..Len(aio_watches) :
                   v \in 1..Len(aio_watches') /\ aio_watches'[v] = aio_watches[v]
             /\ \A v \in 1..Len(aio_watches') :
                   \/ v \in 1..Len(aio_watches)
                   \/ /\ v = Len(aio_watches) + 1 /\ pending'[v] = NoMbuf
                      /\ ~aio_watches'[v].is_write => aio_watches'[v].fd = BulkOut
  <2>1. /\ Len(aio_watches) \in Nat
        /\ Len(aio_watches') = Len(aio_watches) + 1
        /\ \A v \in 1..Len(aio_watches) : aio_watches'[v] = aio_watches[v]
        /\ pending'[Len(aio_watches) + 1] = NoMbuf
    BY <1>2, <1>t, AddedAt
  <2>2. aio_watches'[Len(aio_watches) + 1] = [fd |-> f, is_write |-> b]
    <3> DEFINE W == [fd : Fd, is_write : BOOLEAN]
               w == [fd |-> f, is_write |-> b]
    <3>1. w \in W
      OBVIOUS
    <3>2. aio_watches \in Seq(W) /\ aio_watches' = Append(aio_watches, w)
      BY <1>2 DEF TypeOK, ListTypeOK, watch_add_aio
    <3> HIDE DEF W
    <3> QED BY <3>1, <3>2, AppendAt
  <2>3. LET v == aio_watches'[Len(aio_watches) + 1]
        IN  ~v.is_write => v.fd = BulkOut
    BY <1>2, <2>2
  <2>4. \A v \in 1..Len(aio_watches) : v \in 1..Len(aio_watches')
    BY <2>1
  <2>5. \A v \in 1..Len(aio_watches') :
             v \in 1..Len(aio_watches) \/ v = Len(aio_watches) + 1
    BY <2>1
  <2> QED BY <2>1, <2>3, <2>4, <2>5
<1>3. /\ \A c \in Client \cup Perif \cup CmdFd \cup {BulkOut} : c \in Fd
      /\ \A p \in Perif : cmd_fd[p] \in CmdFd
  BY Descriptors DEF UsbFds
<1> QED BY <1>1, <1>2, <1>3, WatchSteps

\* Every step preserves what is known of the receive buffer.
LEMMA NextBulkOutBuffer ==
    TypeOK /\ TypeOK' /\ BulkOutBuffer /\ [Next]_vars => BulkOutBuffer'
<1> SUFFICES ASSUME TypeOK, TypeOK', BulkOutBuffer, [Next]_vars PROVE BulkOutBuffer'
  OBVIOUS
<1>t. /\ MemoryTypeOK /\ ListTypeOK /\ Len(pending) = Len(aio_watches)
      /\ queue \in [Fd -> Seq(Mbuf)] /\ BulkOut \in Fd
      /\ linked \subseteq 1..Len(aio_watches)
  BY Descriptors DEF TypeOK, MemoryTypeOK, ListTypeOK, UsbFds
<1>k. /\ \A v \in 1..Len(aio_watches) :
            v \in 1..Len(aio_watches') /\ aio_watches'[v] = aio_watches[v]
      /\ \A v \in 1..Len(aio_watches') :
            \/ v \in 1..Len(aio_watches)
            \/ /\ v = Len(aio_watches) + 1 /\ pending'[v] = NoMbuf
               /\ ~aio_watches'[v].is_write => aio_watches'[v].fd = BulkOut
  BY PositionsKept
<1>1. ASSUME \A i \in 1..Len(queue'[BulkOut]) : queue'[BulkOut][i] = OutBuf,
             \A v \in 1..Len(aio_watches) :
                 aio_watches[v].fd = BulkOut => pending'[v] \in {NoMbuf, OutBuf}
      PROVE  BulkOutBuffer'
  BY <1>k, <1>1 DEF BulkOutBuffer
<1>2. PendingKept => \A v \in 1..Len(aio_watches) : pending'[v] = pending[v]
  <2>1. pending' = Append(pending, NoMbuf) =>
          \A v \in 1..Len(pending) : pending'[v] = pending[v]
    BY <1>t, AppendAt DEF ListTypeOK
  <2> QED BY <1>t, <2>1 DEF PendingKept
<1>3. CASE UNCHANGED <<queue, charge>> /\ PendingKept
  BY <1>1, <1>2, <1>3 DEF BulkOutBuffer
<1>4. ASSUME NEW w \in linked, SubmitNext(w), Accepted(w)
      PROVE  BulkOutBuffer'
  <2> DEFINE q == aio_watches[w].fd
  <2>1. q \in Fd /\ queue[q] # <<>> /\ queue[q] \in Seq(Mbuf)
    BY <1>t, <1>4, WatchFd DEF SubmitNext, IsFirst, ToSubmit
  <2>2. /\ Len(queue[q]) \in Nat \ {0}
        /\ Len(Tail(queue[q])) = Len(queue[q]) - 1
        /\ \A i \in 1..Len(Tail(queue[q])) : Tail(queue[q])[i] = queue[q][i + 1]
        /\ Head(queue[q]) = queue[q][1]
    BY <2>1, TailAt
  <2>3. /\ pending'[w] = Head(queue[q])
        /\ \A v \in 1..Len(pending) : v # w => pending'[v] = pending[v]
    BY <1>t, <1>4, PendingSet DEF Accepted
  <2>4. queue'[BulkOut] = IF q = BulkOut THEN Tail(queue[q]) ELSE queue[BulkOut]
    BY <1>t, <1>4, <2>1 DEF Accepted
  <2> HIDE DEF q
  <2>5. \A i \in 1..Len(queue'[BulkOut]) : queue'[BulkOut][i] = OutBuf
    <3>1. CASE q = BulkOut
      <4>1. \A i \in 1..Len(Tail(queue[q])) : i + 1 \in 1..Len(queue[q])
        BY <2>2
      <4>2. \A i \in 1..Len(Tail(queue[q])) : Tail(queue[q])[i] = OutBuf
        BY <2>2, <3>1, <4>1 DEF BulkOutBuffer
      <4>3. queue'[BulkOut] = Tail(queue[q])
        BY <2>4, <3>1
      <4> QED BY <4>2, <4>3, Zenon
    <3>2. CASE q # BulkOut
      BY <2>4, <3>2 DEF BulkOutBuffer
    <3> QED BY <3>1, <3>2
  <2>6. q = BulkOut => Head(queue[q]) = OutBuf
    <3>1. 1 \in 1..Len(queue[q])
      BY <2>2
    <3> QED BY <2>2, <3>1 DEF BulkOutBuffer
  <2> QED BY <1>1, <1>t, <2>3, <2>5, <2>6 DEF BulkOutBuffer, q
<1>5. ASSUME NEW w \in linked, pending' = [pending EXCEPT ![w] = NoMbuf]
      PROVE  \A v \in 1..Len(aio_watches) :
                 aio_watches[v].fd = BulkOut => pending'[v] \in {NoMbuf, OutBuf}
  BY <1>t, <1>5, PendingSet DEF BulkOutBuffer
<1>6. ASSUME NEW w \in linked, LoopWrite(w)
      PROVE  BulkOutBuffer'
  BY <1>1, <1>5, <1>6 DEF LoopWrite, CompleteWrite, BulkOutBuffer
<1>8. ASSUME NEW w \in linked, diag_ffs_recv(w)
      PROVE  BulkOutBuffer'
  <2>1. aio_watches[w].fd = BulkOut /\ pending' = [pending EXCEPT ![w] = NoMbuf]
    BY <1>t, <1>8 DEF diag_ffs_recv, BulkOutBuffer
  <2>2. pending[w] = OutBuf
    BY <1>t, <1>8, <2>1, PendingMbuf, WatchAssumption DEF diag_ffs_recv, BulkOutBuffer
  <2>3. PICK D \in {{}} \cup {CommandTargets(Usb, c) : c \in Command} :
          \A q \in Fd : q \notin D => queue'[q] = IF q = BulkOut
                                                  THEN Append(queue[q], pending[w])
                                                  ELSE queue[q]
    BY ZenonT(30), <1>8 DEF diag_ffs_recv
  <2>4. D \subseteq CmdFd \cup {Usb}
    BY TargetsWithin
  <2>5. BulkOut \notin D
    BY <2>4, Descriptors DEF UsbFds
  <2>6. queue'[BulkOut] = Append(queue[BulkOut], OutBuf)
    BY <1>t, <2>2, <2>3, <2>5
  <2>7. /\ Len(queue[BulkOut]) \in Nat
        /\ Len(queue'[BulkOut]) = Len(queue[BulkOut]) + 1
        /\ \A i \in 1..Len(queue[BulkOut]) : queue'[BulkOut][i] = queue[BulkOut][i]
        /\ queue'[BulkOut][Len(queue[BulkOut]) + 1] = OutBuf
    BY <1>t, <2>6, AppendAt, RouterAssumption
  <2>8. \A i \in 1..Len(queue'[BulkOut]) : queue'[BulkOut][i] = OutBuf
    BY <2>7 DEF BulkOutBuffer
  <2> QED BY <1>1, <1>5, <2>1, <2>8
<1>9. ASSUME NEW D \in SUBSET (Dm \cup CmdFd), NEW fl, queue_push_flow(D, fl),
             PendingKept
      PROVE  BulkOutBuffer'
  <2>1. BulkOut \notin D
    BY Descriptors DEF UsbFds, Dm
  <2>2. queue'[BulkOut] = queue[BulkOut]
    BY <1>9, <1>t, <2>1 DEF queue_push_flow
  <2> QED BY <1>1, <1>2, <1>9, <2>2 DEF BulkOutBuffer
<1> QED BY <1>3, <1>4, <1>6, <1>8, <1>9, BufferSteps

\* What is known of the receive buffer holds in every reachable state.
LEMMA BulkOutBufferAlways == Spec => []BulkOutBuffer
<1>1. Init => BulkOutBuffer
  <2> SUFFICES ASSUME Init PROVE BulkOutBuffer
    OBVIOUS
  <2>1. \A w \in 1..Len(aio_watches) : aio_watches[w].is_write
    <3>1. \A w \in DOMAIN aio_watches : aio_watches[w].is_write
      BY DEF Init, WatchInit
    <3>2. DOMAIN aio_watches = 1..Len(aio_watches)
      <4> DEFINE W == [fd : Fd, is_write : BOOLEAN]
      <4>1. aio_watches \in Seq(W)
        BY InitTypeOK DEF TypeOK, ListTypeOK
      <4> HIDE DEF W
      <4> QED BY <4>1, LenProperties
    <3> QED BY <3>1, <3>2
  <2>2. \A w \in 1..Len(aio_watches) : aio_watches[w].fd # BulkOut
    BY InitWatches, Descriptors
  <2>3. \A i \in 1..Len(queue[BulkOut]) : queue[BulkOut][i] = OutBuf
    <3>1. queue[BulkOut] = <<OutBuf>> \/ queue[BulkOut] = <<>>
      BY Descriptors DEF Init, UsbFds
    <3> QED BY <3>1
  <2> QED BY <2>1, <2>2, <2>3 DEF BulkOutBuffer
<1> QED BY <1>1, NextBulkOutBuffer, TypeCorrect, PTL DEF Spec

-----------------------------------------------------------------------------
(* Requests and completions.                                               *)

\* The descriptors that are read or written through io_submit.
AioFd == Client \cup Perif \cup CmdFd \cup (IF UseUsb THEN UsbFds ELSE {})

\* ev[] in watch_handle_eventfd has room for a completion of each of them.
CompletionsFit == Cardinality(AioFd) <= MaxEvents

\* What the proofs below use of the sections above, with and without what is
\* known of the sockets of peripherals.
DmInv    == TypeOK /\ OwnInv /\ DmWatches /\ BulkOutBuffer
WatchInv == TypeOK /\ OwnInv /\ DmWatches /\ SocketWatches /\ BulkOutBuffer

\* No request has two completions, or one while the kernel works on it.
RingDistinct ==
    /\ \A i, j \in 1..Len(ring) : ring[i].obj = ring[j].obj => i = j
    /\ \A i \in 1..Len(ring) : ring[i].obj \notin inflight

\* A request has the buffer it was submitted with.
OutstandingHeld == \A w \in Outstanding : pending[w] # NoMbuf

\* Only the endpoints work asynchronously, and only their completions can be
\* outstanding once io_getevents has returned, when callbacks run.
InflightOnEndpoints == \A w \in inflight : aio_watches[w].fd \in UsbFds

Late == {"complete", "dispatch", "dm_recv", "abort"}

OnlyEndpointsLeft ==
    pc \in Late => \A w \in Outstanding : aio_watches[w].fd \in UsbFds

\* A descriptor with a fetched completion has no request under way.
FetchedSettled ==
    pc = "complete" =>
        \A w \in Outstanding, i \in 1..Len(events) :
            events[i].fd # aio_watches[w].fd

AioInv == /\ RingDistinct /\ OutstandingHeld /\ InflightOnEndpoints
          /\ OnlyEndpointsLeft /\ FetchedSettled /\ NoDangling /\ NoStranded

\* Elements of the ring.
LEMMA RingAt ==
    ASSUME KernelTypeOK
    PROVE  /\ Len(ring) \in Nat /\ DOMAIN ring = 1..Len(ring)
           /\ \A i \in 1..Len(ring) : /\ ring[i].obj \in 1..Len(aio_watches)
                                      /\ ring[i].res \in Results
           /\ evfd \in Nat
           /\ inflight \subseteq 1..Len(aio_watches)
           /\ Outstanding \subseteq 1..Len(aio_watches)
<1> DEFINE R == [obj : 1..Len(aio_watches), res : Results]
<1>1. ring \in Seq(R) /\ evfd \in Nat /\ inflight \subseteq 1..Len(aio_watches)
  BY DEF KernelTypeOK
<1>2. /\ Len(ring) \in Nat /\ DOMAIN ring = 1..Len(ring)
      /\ \A i \in 1..Len(ring) : ring[i] \in R
  <2> HIDE DEF R
  <2> QED BY <1>1, LenProperties, ElementOfSeq
<1>3. \A i \in 1..Len(ring) : /\ ring[i].obj \in 1..Len(aio_watches)
                              /\ ring[i].res \in Results
  BY <1>2
<1> QED BY <1>1, <1>2, <1>3 DEF Outstanding

\* A completion is put last on the ring.
LEMMA RingAppended ==
    ASSUME KernelTypeOK, NEW w \in 1..Len(aio_watches), NEW res \in Results,
           ring' = Append(ring, [obj |-> w, res |-> res])
    PROVE  /\ Len(ring') = Len(ring) + 1
           /\ \A i \in 1..Len(ring) : ring'[i] = ring[i]
           /\ ring'[Len(ring) + 1].obj = w
           /\ ring'[Len(ring) + 1].res = res
<1> DEFINE R == [obj : 1..Len(aio_watches), res : Results]
           r == [obj |-> w, res |-> res]
<1>1. ring \in Seq(R) /\ r \in R /\ ring' = Append(ring, r)
  BY DEF KernelTypeOK
<1>2. /\ Len(ring') = Len(ring) + 1
      /\ \A i \in 1..Len(ring) : ring'[i] = ring[i]
      /\ ring'[Len(ring) + 1] = r
  <2> HIDE DEF R, r
  <2> QED BY <1>1, AppendAt
<1> QED BY <1>2

\* Two watches on the list that have a buffer pending are on two descriptors.
LEMMA OneRequestPerFd ==
    ASSUME WatchInv, NEW v \in linked, NEW w \in linked,
           pending[v] # NoMbuf, pending[w] # NoMbuf,
           aio_watches[v].fd = aio_watches[w].fd
    PROVE  v = w
<1>1. /\ v \in 1..Len(aio_watches) /\ w \in 1..Len(aio_watches)
      /\ v \in 1..Len(pending) /\ w \in 1..Len(pending)
  BY DEF WatchInv, TypeOK, ListTypeOK
<1>2. aio_watches[v].fd \in Fd
  BY <1>1, WatchFd DEF WatchInv, TypeOK
<1>3. CASE aio_watches[v].fd = BulkOut
  <2>1. pending[v] = OutBuf /\ pending[w] = OutBuf
    BY <1>1, <1>3 DEF WatchInv, BulkOutBuffer
  <2> QED BY <1>1, <2>1 DEF WatchInv, OwnInv, HoldersDisjoint
<1>4. CASE aio_watches[v].fd \in Dm
  BY <1>1, <1>4 DEF WatchInv, DmWatches, OneWatchPerDm
<1>5. CASE aio_watches[v].fd \in Perif \cup CmdFd
  BY <1>5 DEF WatchInv, SocketWatches, OneWatchPerSocket
<1>6. aio_watches[v].fd \notin {Ep0, Listen}
  BY <1>1 DEF WatchInv, DmWatches, EndpointsWatched, On
<1> QED BY <1>2, <1>3, <1>4, <1>5, <1>6, Descriptors DEF Dm, UsbFds

\* The sockets of peripherals are finitely many: QrtrSockets lists them.
LEMMA AioFdFinite == IsFiniteSet(AioFd)
<1>1. IsFiniteSet(Perif \cup CmdFd)
  <2> DEFINE I == 1..Len(QrtrSockets)
             f == [i \in I |-> QrtrSockets[i]]
  <2>1. Len(QrtrSockets) \in Nat /\ \A i \in I : QrtrSockets[i] \in Perif \cup CmdFd
    BY RouterAssumption, LenProperties, ElementOfSeq
  <2>2. IsFiniteSet(I)
    BY <2>1, FS_Interval
  <2>3. f \in Surjection(I, Perif \cup CmdFd)
    BY <2>1, RouterAssumption DEF Surjection
  <2> HIDE DEF I, f
  <2> QED BY <2>2, <2>3, FS_Surjection DEF ExistsSurjection
<1>2. IsFiniteSet(Client \cup (Perif \cup CmdFd))
  BY <1>1, RouterAssumption, FS_Union
<1>3. IsFiniteSet(UsbFds)
  <2>1. IsFiniteSet({Usb} \cup {BulkOut})
    BY FS_Singleton, FS_AddElement
  <2>2. UsbFds = {Usb} \cup {BulkOut}
    BY DEF UsbFds
  <2> QED BY <2>1, <2>2
<1>4. IsFiniteSet((Client \cup (Perif \cup CmdFd)) \cup UsbFds)
  BY <1>2, <1>3, FS_Union
<1>5. AioFd \subseteq (Client \cup (Perif \cup CmdFd)) \cup UsbFds
  BY DEF AioFd
<1> QED BY <1>4, <1>5, FS_Subset

\* The ring has at most one completion for each descriptor.
LEMMA RingFits ==
    ASSUME WatchInv, AioInv, CompletionsFit
    PROVE  Len(ring) <= MaxEvents
<1> DEFINE I == 1..Len(ring)
           f == [i \in I |-> aio_watches[ring[i].obj].fd]
<1>1. /\ Len(ring) \in Nat /\ \A i \in I : ring[i].obj \in 1..Len(aio_watches)
  BY RingAt DEF WatchInv, TypeOK
<1>2. \A i \in I : ring[i].obj \in linked /\ pending[ring[i].obj] # NoMbuf
  BY DEF AioInv, NoDangling, OutstandingHeld, Outstanding
<1>3. \A i \in I : f[i] \in AioFd
  <2> SUFFICES ASSUME NEW w \in 1..Len(aio_watches)
               PROVE  aio_watches[w].fd \in AioFd
    BY <1>1
  <2>1. aio_watches[w].fd \in Fd
    BY WatchFd DEF WatchInv, TypeOK
  <2>2. aio_watches[w].fd \notin {Ep0, Listen}
    BY DEF WatchInv, DmWatches, EndpointsWatched, On
  <2>3. ~UseUsb => aio_watches[w].fd \notin {Usb, BulkOut}
    BY DEF WatchInv, DmWatches, EndpointsWatched, On
  <2> QED BY <2>1, <2>2, <2>3, Descriptors DEF AioFd, UsbFds
<1>4. \A i, j \in I : f[i] = f[j] => i = j
  <2> SUFFICES ASSUME NEW i \in I, NEW j \in I, f[i] = f[j] PROVE i = j
    OBVIOUS
  <2>1. ring[i].obj = ring[j].obj
    BY <1>2, OneRequestPerFd
  <2> QED BY <2>1 DEF AioInv, RingDistinct
<1>5. f \in Injection(I, AioFd)
  BY <1>3, <1>4 DEF Injection, IsInjective
<1>6. IsFiniteSet(I) /\ Cardinality(I) = Len(ring)
  <2>1. Cardinality(I) = IF 1 > Len(ring) THEN 0 ELSE Len(ring) - 1 + 1
    BY <1>1, FS_Interval
  <2>2. IsFiniteSet(I)
    BY <1>1, FS_Interval
  <2>3. (IF 1 > Len(ring) THEN 0 ELSE Len(ring) - 1 + 1) = Len(ring)
    BY <1>1
  <2> HIDE DEF I
  <2> QED BY <2>1, <2>2, <2>3
<1>7. Cardinality(I) <= Cardinality(AioFd)
  <2> HIDE DEF I, f
  <2> QED BY <1>5, AioFdFinite, FS_Injection DEF ExistsInjection
<1>8. Cardinality(AioFd) \in Nat /\ MaxEvents \in Nat
  BY AioFdFinite, FS_CardinalityType, WatchAssumption
<1> QED BY <1>1, <1>6, <1>7, <1>8 DEF CompletionsFit

-----------------------------------------------------------------------------
(* What the steps of the loop do to requests and completions.              *)

\* Requests and completions are left alone, watches are not added or removed.
LEMMA QuietAio ==
    ASSUME AioInv, UNCHANGED <<aio_watches, linked, pending, kernel>>,
           pc' \in Late => pc \in Late,
           pc' = "complete" => pc = "complete" /\ events' = events,
           pc = "getevents" => pc' = "getevents"
    PROVE  AioInv'
<1>1. Outstanding' = Outstanding
  BY DEF kernel, Outstanding
<1>2. RingDistinct' /\ OutstandingHeld' /\ InflightOnEndpoints' /\ NoDangling'
  BY <1>1 DEF AioInv, RingDistinct, OutstandingHeld, InflightOnEndpoints, NoDangling,
              kernel
<1>3. OnlyEndpointsLeft' /\ FetchedSettled'
  BY <1>1 DEF AioInv, OnlyEndpointsLeft, FetchedSettled
<1>4. NoStranded'
  BY DEF AioInv, NoStranded, kernel
<1> QED BY <1>2, <1>3, <1>4 DEF AioInv

\* io_submit accepts a request of a watch that has none.
LEMMA SubmitAio ==
    ASSUME WatchInv, AioInv, NEW w \in linked, SubmitNext(w), Accepted(w),
           UNCHANGED <<aio_watches, linked, pc>>,
           \/ /\ \E res \in Results : ring' = Append(ring, [obj |-> w, res |-> res])
              /\ evfd' = evfd + 1
              /\ UNCHANGED inflight
           \/ /\ inflight' = inflight \cup {w} /\ aio_watches[w].fd \in UsbFds
              /\ UNCHANGED <<ring, evfd>>
    PROVE  AioInv'
<1> USE DEF WatchInv, TypeOK
<1>1. /\ Len(ring) \in Nat /\ evfd \in Nat /\ w \in 1..Len(aio_watches)
      /\ Outstanding \subseteq 1..Len(aio_watches)
      /\ Len(pending) = Len(aio_watches)
  BY RingAt DEF ListTypeOK
<1>2. w \notin Outstanding
  BY DEF SubmitNext, IsFirst, ToSubmit, AioInv, OutstandingHeld
<1>3. pending'[w] # NoMbuf /\ \A v \in Outstanding : pending'[v] = pending[v]
  <2>1. aio_watches[w].fd \in Fd
    BY <1>1, WatchFd
  <2>2. queue[aio_watches[w].fd] \in Seq(Mbuf) /\ queue[aio_watches[w].fd] # <<>>
    BY <2>1 DEF MemoryTypeOK, SubmitNext, IsFirst, ToSubmit
  <2>3. Head(queue[aio_watches[w].fd]) \in Mbuf
    BY <2>2, HeadTailProperties
  <2> QED BY <1>1, <1>2, <2>3, PendingSet, WatchAssumption DEF Accepted
<1>4. pc' = "submit" /\ pc = "submit"
  BY DEF SubmitNext
<1>5. CASE /\ \E res \in Results : ring' = Append(ring, [obj |-> w, res |-> res])
           /\ evfd' = evfd + 1
           /\ UNCHANGED inflight
  <2>1. PICK res \in Results : ring' = Append(ring, [obj |-> w, res |-> res])
    BY <1>5
  <2>2. /\ Len(ring') = Len(ring) + 1
        /\ \A i \in 1..Len(ring) : ring'[i] = ring[i]
        /\ ring'[Len(ring) + 1].obj = w
    BY <1>1, <2>1, RingAppended
  <2>3. \A i \in 1..Len(ring') : i \in 1..Len(ring) \/ i = Len(ring) + 1
    BY <1>1, <2>2
  <2>4. RingDistinct'
    BY <1>2, <1>5, <2>2, <2>3 DEF AioInv, RingDistinct, Outstanding
  <2>5. \A v \in Outstanding' : v \in Outstanding \/ v = w
    BY <1>5, <2>2, <2>3 DEF Outstanding
  <2>6. NoStranded'
    BY <1>1, <1>4, <1>5, <2>2 DEF AioInv, NoStranded
  <2>7. OutstandingHeld' /\ NoDangling' /\ InflightOnEndpoints'
    BY <1>3, <1>5, <2>5 DEF AioInv, OutstandingHeld, NoDangling, InflightOnEndpoints
  <2> QED BY <1>4, <2>4, <2>6, <2>7
          DEF AioInv, OnlyEndpointsLeft, FetchedSettled, Late
<1>6. CASE /\ inflight' = inflight \cup {w} /\ aio_watches[w].fd \in UsbFds
           /\ UNCHANGED <<ring, evfd>>
  <2>1. RingDistinct' /\ NoStranded'
    BY <1>2, <1>6 DEF AioInv, RingDistinct, NoStranded, Outstanding
  <2>2. Outstanding' = Outstanding \cup {w}
    BY <1>6 DEF Outstanding
  <2>3. OutstandingHeld' /\ NoDangling' /\ InflightOnEndpoints'
    BY <1>3, <1>6, <2>2 DEF AioInv, OutstandingHeld, NoDangling, InflightOnEndpoints
  <2> QED BY <1>4, <2>1, <2>3
          DEF AioInv, OnlyEndpointsLeft, FetchedSettled, Late
<1> QED BY <1>5, <1>6

\* The kernel finishes a request of an endpoint.
LEMMA KernelAio ==
    ASSUME WatchInv, AioInv, NEW w \in inflight, NEW res \in Results,
           KernelComplete(w, res)
    PROVE  AioInv'
<1>1. /\ Len(ring) \in Nat /\ evfd \in Nat /\ w \in 1..Len(aio_watches)
  BY RingAt DEF WatchInv, TypeOK
<1>2. /\ Len(ring') = Len(ring) + 1
      /\ \A i \in 1..Len(ring) : ring'[i] = ring[i]
      /\ ring'[Len(ring) + 1].obj = w
  BY <1>1, RingAppended DEF KernelComplete, WatchInv, TypeOK
<1>3. /\ inflight' = inflight \ {w} /\ evfd' = evfd + 1
      /\ UNCHANGED <<aio_watches, linked, pending, pc, events>>
  BY DEF KernelComplete, lists, loop
<1>4. \A i \in 1..Len(ring') : i \in 1..Len(ring) \/ i = Len(ring) + 1
  BY <1>1, <1>2
<1>5. \A v \in Outstanding' : v \in Outstanding
  BY <1>2, <1>3, <1>4 DEF Outstanding
<1>6. RingDistinct'
  BY <1>2, <1>3, <1>4 DEF AioInv, RingDistinct
<1>7. NoStranded'
  BY <1>1, <1>2, <1>3 DEF AioInv, NoStranded
<1>8. OutstandingHeld' /\ NoDangling' /\ InflightOnEndpoints'
  BY <1>3, <1>5 DEF AioInv, OutstandingHeld, NoDangling, InflightOnEndpoints
<1>9. OnlyEndpointsLeft' /\ FetchedSettled'
  BY <1>3, <1>5 DEF AioInv, OnlyEndpointsLeft, FetchedSettled
<1> QED BY <1>6, <1>7, <1>8, <1>9 DEF AioInv

\* io_getevents takes the whole ring, and knows the descriptor of each.
LEMMA Fetched ==
    ASSUME WatchInv, AioInv, CompletionsFit, LoopGetEvents
    PROVE  /\ ring' = <<>> /\ pc' = "complete" /\ cur' = 0
           /\ UNCHANGED <<inflight, evfd, aio_watches, linked, pending>>
           /\ Len(events') = Len(ring)
           /\ \A i \in 1..Len(ring) :
                 /\ events'[i].fd = aio_watches[ring[i].obj].fd
                 /\ events'[i].res = ring[i].res
<1>1. /\ Len(ring) \in Nat /\ Len(ring) <= MaxEvents /\ MaxEvents \in Nat
      /\ \A i \in 1..Len(ring) : ring[i].obj \in linked
  BY RingAt, RingFits, WatchAssumption DEF WatchInv, TypeOK, AioInv, NoDangling, Outstanding
<1> DEFINE n == IF Len(ring) < MaxEvents THEN Len(ring) ELSE MaxEvents
<1>2. n = Len(ring)
  BY <1>1
<1>3. GetEvents
  BY DEF LoopGetEvents
<1>4. /\ \E g \in [1..n -> Fd] :
            /\ \A i \in 1..n : ring[i].obj \in linked =>
                                   g[i] = aio_watches[ring[i].obj].fd
            /\ events' = [i \in 1..n |-> [fd |-> g[i], res |-> ring[i].res]]
      /\ ring' = SubSeq(ring, n + 1, Len(ring))
  BY <1>3 DEF GetEvents
<1>5. PICK g \in [1..Len(ring) -> Fd] :
         /\ \A i \in 1..Len(ring) : g[i] = aio_watches[ring[i].obj].fd
         /\ events' = [i \in 1..Len(ring) |-> [fd |-> g[i], res |-> ring[i].res]]
  BY <1>1, <1>2, <1>4
<1>6. ring' = <<>>
  <2> DEFINE R == [obj : 1..Len(aio_watches), res : Results]
  <2>1. ring \in Seq(R) /\ ring' = SubSeq(ring, Len(ring) + 1, Len(ring))
    BY <1>2, <1>4 DEF WatchInv, TypeOK, KernelTypeOK
  <2>2. ring' \in Seq(R) /\ Len(ring') = 0
    <3>1. \A i \in (Len(ring) + 1)..Len(ring) : ring[i] \in R
      BY <1>1
    <3>2. /\ SubSeq(ring, Len(ring) + 1, Len(ring)) \in Seq(R)
          /\ Len(SubSeq(ring, Len(ring) + 1, Len(ring)))
               = IF Len(ring) + 1 <= Len(ring) THEN Len(ring) - (Len(ring) + 1) + 1 ELSE 0
      <4> HIDE DEF R
      <4> QED BY <1>1, <2>1, <3>1, SubSeqProperties
    <3>3. ~(Len(ring) + 1 <= Len(ring))
      BY <1>1
    <3> HIDE DEF R
    <3> QED BY <2>1, <3>2, <3>3, Zenon
  <2> HIDE DEF R
  <2> QED BY <2>2, EmptySeq
<1>7. Len(events') = Len(ring)
  <2> DEFINE E == [fd : Fd, res : Results]
  <2>1. events' \in [1..Len(ring) -> E]
    <3>1. \A i \in 1..Len(ring) : [fd |-> g[i], res |-> ring[i].res] \in E
      BY RingAt DEF WatchInv, TypeOK
    <3> QED BY <1>5, <3>1
  <2>2. events' \in Seq(E)
    <3> HIDE DEF E
    <3> QED BY <1>1, <2>1, SeqDef
  <2>3. DOMAIN events' = 1..Len(ring) /\ DOMAIN events' = 1..Len(events')
        /\ Len(events') \in Nat
    <3> HIDE DEF E
    <3> QED BY <2>1, <2>2, LenProperties
  <2> QED BY <1>1, <2>3
<1>8. \A i \in 1..Len(ring) : /\ events'[i].fd = aio_watches[ring[i].obj].fd
                              /\ events'[i].res = ring[i].res
  BY <1>5
<1> QED BY <1>3, <1>6, <1>7, <1>8 DEF GetEvents, lists

\* Once io_getevents has returned, nothing is left on the ring.
LEMMA FetchAio ==
    ASSUME WatchInv, AioInv, CompletionsFit, LoopGetEvents
    PROVE  AioInv'
<1>1. /\ ring' = <<>> /\ pc' = "complete"
      /\ UNCHANGED <<inflight, evfd, aio_watches, linked, pending>>
      /\ Len(events') = Len(ring)
      /\ \A i \in 1..Len(ring) : events'[i].fd = aio_watches[ring[i].obj].fd
  BY Fetched
<1>2. Len(ring') = 0 /\ evfd \in Nat
  BY <1>1, RingAt DEF WatchInv, TypeOK
<1>3. Outstanding' = inflight
  BY <1>1, <1>2 DEF Outstanding
<1>4. FetchedSettled'
  <2> SUFFICES ASSUME NEW w \in inflight, NEW i \in 1..Len(ring),
                      events'[i].fd = aio_watches[w].fd
               PROVE  FALSE
    BY <1>1, <1>3 DEF FetchedSettled
  <2>1. /\ w \in linked /\ pending[w] # NoMbuf
        /\ ring[i].obj \in linked /\ pending[ring[i].obj] # NoMbuf
    BY DEF AioInv, NoDangling, OutstandingHeld, Outstanding
  <2>2. ring[i].obj = w
    BY <1>1, <2>1, OneRequestPerFd
  <2> QED BY <2>2 DEF AioInv, RingDistinct
<1>5. RingDistinct' /\ NoStranded'
  BY <1>1, <1>2 DEF RingDistinct, NoStranded
<1>6. OutstandingHeld' /\ NoDangling' /\ InflightOnEndpoints' /\ OnlyEndpointsLeft'
  BY <1>1, <1>3 DEF AioInv, OutstandingHeld, NoDangling, InflightOnEndpoints,
                    OnlyEndpointsLeft, Outstanding
<1> QED BY <1>4, <1>5, <1>6 DEF AioInv

\* A completion walk settles a watch that has no request any more.
LEMMA SettleAio ==
    ASSUME WatchInv, AioInv, NEW w \in linked, CompleteNext(w),
           pending' = [pending EXCEPT ![w] = NoMbuf],
           UNCHANGED <<aio_watches, linked, kernel, pc, events>>
    PROVE  AioInv'
<1>1. w \notin Outstanding
  <2>1. pc = "complete" /\ \E i \in 1..Len(events) : events[i].fd = aio_watches[w].fd
    BY DEF CompleteNext, IsFirst, ToComplete, Hits
  <2> QED BY <2>1 DEF AioInv, FetchedSettled
<1>2. Outstanding' = Outstanding /\ Outstanding \subseteq 1..Len(pending)
  BY RingAt DEF kernel, Outstanding, WatchInv, TypeOK, ListTypeOK
<1>3. \A v \in Outstanding : pending'[v] = pending[v]
  BY <1>1, <1>2, PendingSet DEF WatchInv, TypeOK
<1>4. RingDistinct' /\ OutstandingHeld' /\ InflightOnEndpoints' /\ NoDangling'
  BY <1>2, <1>3 DEF AioInv, RingDistinct, OutstandingHeld, InflightOnEndpoints,
                    NoDangling, kernel
<1>5. OnlyEndpointsLeft' /\ FetchedSettled' /\ NoStranded'
  BY <1>2 DEF AioInv, OnlyEndpointsLeft, FetchedSettled, NoStranded, kernel
<1> QED BY <1>4, <1>5 DEF AioInv

\* A callback runs between io_getevents and the next submission; it leaves the
\* kernel alone.
LEMMA CallbackSteps ==
    ASSUME TypeOK, Handlers
    PROVE  /\ UNCHANGED <<kernel, events>> /\ PendingKept
           /\ pc \in {"dispatch", "dm_recv"} /\ pc' \in {"dispatch", "dm_recv"}
<1>1. ASSUME NEW c \in Client,
             \/ unix_listen(c) \/ DmRecv(c) \/ DmRecvEagain(c) \/ DmRecvEof(c)
             \/ DmRecvError(c)
      PROVE  /\ UNCHANGED <<kernel, events>> /\ PendingKept
             /\ pc \in {"dispatch", "dm_recv"} /\ pc' \in {"dispatch", "dm_recv"}
  BY <1>1 DEF unix_listen, Dispatch, watch_add_aio, DmRecv, DmRecvEagain, DmRecvEof,
              DmRecvError, Returns, PendingKept
<1>2. ASSUME NEW c \in Client, DmRecvCommand(c)
      PROVE  UNCHANGED <<kernel, events, pending, pc>> /\ pc = "dm_recv"
  BY <1>2 DEF DmRecvCommand, loop
<1>3. ASSUME ep0_recv
      PROVE  UNCHANGED <<kernel, events, pc>> /\ PendingKept /\ pc = "dispatch"
  BY <1>3 DEF ep0_recv, Dispatch, watch_add_aio, PendingKept
<1>4. ASSUME NEW p \in Perif, qrtr_data_recv(p)
      PROVE  UNCHANGED <<kernel, events, pc>> /\ PendingKept /\ pc = "dispatch"
  BY <1>4 DEF qrtr_data_recv, qrtr_data_recv_data, qrtr_data_recv_bye, Receive,
              Dispatch, watch_add_aio, PendingKept
<1>5. ASSUME NEW p \in Perif, qrtr_cmd_recv(p)
      PROVE  UNCHANGED <<kernel, events, pc>> /\ PendingKept /\ pc = "dispatch"
  BY <1>5 DEF qrtr_cmd_recv, Receive, Dispatch, watch_add_aio, PendingKept
<1> QED BY <1>1, <1>2, <1>3, <1>4, <1>5 DEF Handlers, PendingKept

\* Watches that were there keep what they have pending.
LEMMA PendingKeptAt ==
    ASSUME ListTypeOK, PendingKept
    PROVE  \A v \in 1..Len(aio_watches) : pending'[v] = pending[v]
<1>1. pending' = Append(pending, NoMbuf) =>
        \A v \in 1..Len(pending) : pending'[v] = pending[v]
  BY AppendAt DEF ListTypeOK
<1> QED BY <1>1 DEF PendingKept, ListTypeOK

\* A callback removes no watch that has a request outstanding.
LEMMA CallbackAio ==
    ASSUME WatchInv, AioInv, Handlers
    PROVE  AioInv'
<1>t. TypeOK /\ ListTypeOK /\ [Next]_vars
  BY DEF WatchInv, TypeOK, Next, Loop
<1>1. /\ UNCHANGED <<kernel, events>> /\ PendingKept
      /\ pc \in {"dispatch", "dm_recv"} /\ pc' \in {"dispatch", "dm_recv"}
  BY <1>t, CallbackSteps
<1>2. UNCHANGED <<inflight, ring, evfd>> /\ Outstanding' = Outstanding
  BY <1>1 DEF kernel, Outstanding
<1>3. \A w \in Outstanding : /\ w \in 1..Len(aio_watches) /\ w \in linked
                             /\ aio_watches[w].fd \in UsbFds
                             /\ pending[w] # NoMbuf
  BY <1>1, RingAt DEF WatchInv, TypeOK, AioInv, NoDangling, OnlyEndpointsLeft, Late,
                      OutstandingHeld
<1>4. \A w \in Outstanding : aio_watches'[w] = aio_watches[w] /\ pending'[w] # NoMbuf
  BY <1>1, <1>3, <1>t, PositionsKept, PendingKeptAt
<1>5. NoDangling'
  <2>1. \/ linked \subseteq linked'
        \/ \E f \in Fd \ UsbFds : watch_remove_aio(f)
    BY <1>t, WatchSteps DEF watch_add_aio
  <2>2. ASSUME NEW f \in Fd \ UsbFds, watch_remove_aio(f)
        PROVE  Outstanding \subseteq linked'
    BY <1>3, <2>2 DEF watch_remove_aio
  <2> QED BY <1>2, <1>3, <2>1, <2>2 DEF NoDangling
<1>6. RingDistinct' /\ NoStranded'
  BY <1>1, <1>2 DEF AioInv, RingDistinct, NoStranded
<1>7. OutstandingHeld' /\ InflightOnEndpoints' /\ OnlyEndpointsLeft' /\ FetchedSettled'
  <2>1. inflight \subseteq Outstanding
    BY DEF Outstanding
  <2> QED BY <1>1, <1>2, <1>3, <1>4, <2>1
          DEF OutstandingHeld, InflightOnEndpoints, OnlyEndpointsLeft, FetchedSettled
<1> QED BY <1>5, <1>6, <1>7 DEF AioInv

\* select() goes straight to the callbacks only with an empty ring.
LEMMA SelectAio ==
    ASSUME WatchInv, AioInv, LoopSelect
    PROVE  AioInv'
<1>1. /\ UNCHANGED <<aio_watches, linked, pending, inflight, ring, evfd>>
      /\ pc = "submit" /\ pc' = IF evfd > 0 THEN "eventfd" ELSE "dispatch"
  BY DEF LoopSelect, Select, lists, kernel
<1>2. Outstanding' = Outstanding
  BY <1>1 DEF Outstanding
<1>3. RingDistinct' /\ OutstandingHeld' /\ InflightOnEndpoints' /\ NoDangling'
      /\ NoStranded'
  BY <1>1, <1>2 DEF AioInv, RingDistinct, OutstandingHeld, InflightOnEndpoints,
                    NoDangling, NoStranded
<1>4. OnlyEndpointsLeft' /\ FetchedSettled'
  <2>1. pc' \in Late => Len(ring) = 0
    BY <1>1, RingAt DEF AioInv, NoStranded, WatchInv, TypeOK, Late
  <2>2. pc' \in Late => Outstanding = inflight
    BY <2>1 DEF Outstanding
  <2> QED BY <1>1, <1>2, <2>2
          DEF AioInv, InflightOnEndpoints, OnlyEndpointsLeft, FetchedSettled
<1> QED BY <1>3, <1>4 DEF AioInv

\* The read of the eventfd.
LEMMA EventfdAio ==
    ASSUME AioInv, LoopReadEventfd
    PROVE  AioInv'
<1>1. /\ UNCHANGED <<aio_watches, linked, pending, inflight, ring>>
      /\ pc' = "getevents"
  BY DEF LoopReadEventfd, ReadEventfd, lists
<1>2. Outstanding' = Outstanding
  BY <1>1 DEF Outstanding
<1> QED BY <1>1, <1>2 DEF AioInv, RingDistinct, OutstandingHeld, InflightOnEndpoints,
      NoDangling, NoStranded, OnlyEndpointsLeft, FetchedSettled, Late

\* Every step preserves what is known of requests and completions.
LEMMA NextAioInv ==
    WatchInv /\ CompletionsFit /\ AioInv /\ [Next]_vars => AioInv'
<1> SUFFICES ASSUME WatchInv, CompletionsFit, AioInv, [Next]_vars PROVE AioInv'
  OBVIOUS
<1>1. CASE Loop
  <2>1. ASSUME NEW w \in linked, NEW res \in Results, SubmitSocket(w, res)
        PROVE  AioInv'
    BY <2>1, SubmitAio DEF SubmitSocket, SubmitSync, lists
  <2>2. ASSUME NEW w \in linked, SubmitEndpoint(w)
        PROVE  AioInv'
    BY <2>2, SubmitAio DEF SubmitEndpoint, SubmitAsync, lists, UsbFds
  <2>3. ASSUME NEW w \in linked, SubmitFailed(w) \/ LoopAbort(w) \/ LoopEagain(w)
        PROVE  AioInv'
    <3>1. /\ UNCHANGED <<aio_watches, linked, pending, kernel, events>>
          /\ \/ pc = "submit" /\ pc' = "submit"
             \/ pc = "complete" /\ pc' \in {"complete", "abort"}
      BY <2>3 DEF SubmitFailed, SubmitRefused, SubmitNext, LoopAbort, CompleteAbort,
                  LoopEagain, CompleteEagain, CompleteNext, lists
    <3> QED BY <3>1, QuietAio DEF Late
  <2>4. ASSUME NEW w \in linked, LoopWrite(w) \/ diag_ffs_recv(w)
        PROVE  AioInv'
    BY <2>4, SettleAio DEF LoopWrite, CompleteWrite, diag_ffs_recv, lists
  <2>5. CASE LoopCompleteDone \/ LoopDispatchDone
    <3>1. /\ UNCHANGED <<aio_watches, linked, pending, kernel>>
          /\ \/ pc = "complete" /\ pc' = "dispatch"
             \/ pc = "dispatch" /\ pc' = "submit"
      BY <2>5 DEF LoopCompleteDone, CompleteDone, LoopDispatchDone, DispatchDone, lists
    <3> QED BY <3>1, QuietAio DEF Late
  <2> QED BY <1>1, <2>1, <2>2, <2>3, <2>4, <2>5, SelectAio, EventfdAio, FetchAio,
             CallbackAio DEF Loop
<1>2. CASE Environment
  <2>1. ASSUME NEW w \in inflight, EndpointComplete(w)
        PROVE  AioInv'
    BY <2>1, KernelAio DEF EndpointComplete, Results
  <2>2. \/ \E w \in inflight : EndpointComplete(w)
        \/ UNCHANGED watchVars
    BY <1>2 DEF Environment, ClientConnect, ClientClose, ClientSend, PerifSend,
                PerifCommandSocket, ServerUpDown, Plug, Unplug
  <2>3. CASE UNCHANGED watchVars
    BY <2>3, QuietAio DEF watchVars, lists, loop
  <2> QED BY <2>1, <2>2, <2>3
<1>3. CASE UNCHANGED vars
  BY <1>3, QuietAio DEF vars, watchVars, lists, loop
<1> QED BY <1>1, <1>2, <1>3 DEF Next

\* What the sections above prove holds in every reachable state.
LEMMA DmInvAlways == Spec => []DmInv
<1>1. TypeOK /\ OwnInv /\ DmWatches /\ BulkOutBuffer => DmInv
  BY DEF DmInv
<1> QED BY <1>1, TypeCorrect, OwnInvAlways, DmWatchesAlways, BulkOutBufferAlways, PTL

\* The same with the sockets of peripherals.
LEMMA WatchInvAlways == Spec => [](AnnouncedOnce => WatchInv)
<1>1. DmInv /\ (AnnouncedOnce => SocketWatches) => (AnnouncedOnce => WatchInv)
  BY DEF DmInv, WatchInv
<1> QED BY <1>1, DmInvAlways, SocketWatchesAlways, PTL

\* AioInv holds in every reachable state.
LEMMA AioInvAlways == Spec => [](CompletionsFit /\ AnnouncedOnce => AioInv)
<1>1. Init => AioInv
  <2> SUFFICES ASSUME Init PROVE AioInv
    OBVIOUS
  <2>1. inflight = {} /\ ring = <<>> /\ evfd = 0 /\ pc = "submit"
    BY DEF Init, WatchInit
  <2>2. Len(ring) = 0 /\ Outstanding = {}
    BY <2>1 DEF Outstanding
  <2> QED BY <2>1, <2>2 DEF AioInv, RingDistinct, OutstandingHeld, InflightOnEndpoints,
        NoDangling, NoStranded, OnlyEndpointsLeft, FetchedSettled, Late
<1>2. /\ (AnnouncedOnce => WatchInv) /\ (CompletionsFit /\ AnnouncedOnce => AioInv)
      /\ [Next]_vars
      => (CompletionsFit /\ AnnouncedOnce => AioInv)'
  BY NextAioInv DEF CompletionsFit, AnnouncedOnce, AioFd, UsbFds, CmdFd
<1> QED BY <1>1, <1>2, WatchInvAlways, PTL DEF Spec

\* No iocb is freed that the kernel or the ring still refers to, for any number of
\* clients and peripherals that ev[] in watch_handle_eventfd has room for: the
\* callbacks, which remove watches, run when io_getevents has emptied the ring.  The
\* name server is taken to report the end of a server before it is announced again.
THEOREM IocbsStay == Spec => [](CompletionsFit /\ AnnouncedOnce => NoDangling)
BY AioInvAlways, PTL DEF AioInv

\* Every completion on the ring is counted by the eventfd that wakes select(), except
\* between the read of the counter and io_getevents: watch_handle_eventfd, which
\* fetches once for each read of the counter, strands no completion that ev[] has
\* room for, if the name server announces no server twice.
THEOREM CompletionsWake == Spec => [](CompletionsFit /\ AnnouncedOnce => NoStranded)
BY AioInvAlways, PTL DEF AioInv

-----------------------------------------------------------------------------
(* The count of the eventfd and the completions on the ring.               *)

\* The counter of the eventfd exceeds the completions there are to fetch only
\* after one was posted between its read and io_getevents.
CountedOnce ==
    /\ pc = "eventfd" => evfd > 0
    /\ \/ raced
       \/ IF pc = "getevents" THEN evfd = 0 /\ ring # <<>> ELSE evfd <= Len(ring)

\* Without the gadget every request is finished inside io_submit.
NoneInflight == ~UseUsb => inflight = {} /\ ~raced

\* Without the gadget no endpoint is watched.
LEMMA NoEndpoint ==
    ASSUME DmInv, ~UseUsb, NEW w \in 1..Len(aio_watches)
    PROVE  aio_watches[w].fd \in Client \cup Perif \cup CmdFd
<1>1. aio_watches[w].fd \in Fd
  BY WatchFd DEF DmInv, TypeOK
<1>2. aio_watches[w].fd \notin UsbFds \cup {Ep0, Listen}
  BY DEF DmInv, DmWatches, EndpointsWatched, On, UsbFds
<1> QED BY <1>1, <1>2, Descriptors

\* Every step preserves CountedOnce.
LEMMA NextCountedOnce ==
    DmInv /\ CountedOnce /\ NoneInflight /\ [Next]_vars => CountedOnce' /\ NoneInflight'
<1> SUFFICES ASSUME DmInv, CountedOnce, NoneInflight, [Next]_vars
             PROVE  CountedOnce' /\ NoneInflight'
  OBVIOUS
<1>t. /\ Len(ring) \in Nat /\ evfd \in Nat /\ linked \subseteq 1..Len(aio_watches)
      /\ inflight \subseteq 1..Len(aio_watches) /\ raced \in BOOLEAN
  BY RingAt DEF DmInv, TypeOK, ListTypeOK, KernelTypeOK
<1>q. ASSUME UNCHANGED kernel, pc' \notin {"getevents", "eventfd"} \/ pc' = pc,
             pc # "getevents" \/ pc' = "getevents"
      PROVE  CountedOnce' /\ NoneInflight'
  BY <1>q DEF CountedOnce, NoneInflight, kernel
<1>1. CASE Loop
  <2>1. ASSUME NEW w \in linked, NEW res \in Results, SubmitSocket(w, res)
        PROVE  CountedOnce' /\ NoneInflight'
    <3>1. /\ ring' = Append(ring, [obj |-> w, res |-> res]) /\ evfd' = evfd + 1
          /\ UNCHANGED <<inflight, raced, pc>> /\ pc = "submit"
      BY <2>1 DEF SubmitSocket, SubmitSync, SubmitNext
    <3>2. Len(ring') = Len(ring) + 1
      BY <1>t, <3>1, RingAppended DEF DmInv, TypeOK
    <3> QED BY <1>t, <3>1, <3>2 DEF CountedOnce, NoneInflight
  <2>2. ASSUME NEW w \in linked, SubmitEndpoint(w)
        PROVE  CountedOnce' /\ NoneInflight'
    <3>1. aio_watches[w].fd \in UsbFds
      BY <2>2 DEF SubmitEndpoint, UsbFds
    <3>2. UseUsb
      BY <1>t, <3>1, NoEndpoint, Descriptors
    <3>3. UNCHANGED <<ring, evfd, raced, pc>> /\ pc = "submit"
      BY <2>2 DEF SubmitEndpoint, SubmitAsync, SubmitNext
    <3> QED BY <3>2, <3>3 DEF CountedOnce, NoneInflight
  <2>3. ASSUME NEW w \in linked,
               \/ SubmitFailed(w) \/ LoopAbort(w) \/ LoopEagain(w)
               \/ LoopWrite(w) \/ diag_ffs_recv(w)
        PROVE  CountedOnce' /\ NoneInflight'
    <3>1. /\ UNCHANGED kernel /\ pc # "getevents"
          /\ pc' = pc \/ pc' = "abort"
      BY <2>3 DEF SubmitFailed, SubmitRefused, SubmitNext, LoopAbort, CompleteAbort,
                  LoopEagain, CompleteEagain, LoopWrite, CompleteWrite, diag_ffs_recv,
                  CompleteNext
    <3> QED BY <1>q, <3>1
  <2>4. CASE LoopCompleteDone \/ LoopDispatchDone
    <3>1. UNCHANGED kernel /\ pc # "getevents" /\ pc' \in {"dispatch", "submit"}
      BY <2>4 DEF LoopCompleteDone, CompleteDone, LoopDispatchDone, DispatchDone
    <3> QED BY <1>q, <3>1
  <2>5. CASE LoopSelect
    BY <2>5 DEF LoopSelect, Select, CountedOnce, NoneInflight, kernel
  <2>6. CASE LoopReadEventfd
    <3>1. /\ UNCHANGED <<inflight, ring, raced>> /\ evfd' = 0 /\ pc = "eventfd"
          /\ pc' = "getevents"
      BY <2>6 DEF LoopReadEventfd, ReadEventfd
    <3>2. raced \/ Len(ring) # 0
      BY <1>t, <3>1 DEF CountedOnce
    <3>3. raced \/ ring # <<>>
      BY <3>2
    <3> QED BY <3>1, <3>3 DEF CountedOnce, NoneInflight
  <2>7. CASE LoopGetEvents
    <3>1. /\ UNCHANGED <<inflight, evfd>> /\ pc = "getevents" /\ pc' = "complete"
          /\ raced' = (raced /\ evfd > 0)
      BY <2>7 DEF LoopGetEvents, GetEvents
    <3>2. Len(ring') \in Nat
      <4>1. TypeOK'
        BY NextTypeOK DEF DmInv
      <4>2. KernelTypeOK'
        BY <4>1 DEF TypeOK
      <4> DEFINE R == [obj : 1..Len(aio_watches'), res : Results]
      <4>3. ring' \in Seq(R)
        BY <4>2 DEF KernelTypeOK
      <4> HIDE DEF R
      <4> QED BY <4>3, LenProperties
    <3>3. raced' \/ evfd = 0
      BY <1>t, <3>1 DEF CountedOnce
    <3>4. raced' \/ evfd' <= Len(ring')
      BY <3>1, <3>2, <3>3
    <3>5. raced' => raced
      BY <3>1
    <3> QED BY <3>1, <3>4, <3>5 DEF CountedOnce, NoneInflight
  <2>8. CASE Handlers
    BY <1>q, <2>8, CallbackSteps DEF DmInv
  <2> QED BY <1>1, <2>1, <2>2, <2>3, <2>4, <2>5, <2>6, <2>7, <2>8 DEF Loop
<1>2. CASE Environment
  <2>1. UNCHANGED watchVars \/ \E w \in inflight : EndpointComplete(w)
    BY <1>2 DEF Environment, ClientConnect, ClientClose, ClientSend, PerifSend,
                PerifCommandSocket, ServerUpDown, Plug, Unplug
  <2>2. CASE UNCHANGED watchVars
    BY <1>q, <2>2 DEF watchVars, loop
  <2>3. ASSUME NEW w \in inflight, EndpointComplete(w)
        PROVE  CountedOnce' /\ NoneInflight'
    <3>1. PICK res \in {"ok", "err"} : KernelComplete(w, res)
      BY <2>3 DEF EndpointComplete
    <3>2. /\ ring' = Append(ring, [obj |-> w, res |-> res]) /\ evfd' = evfd + 1
          /\ raced' = (raced \/ pc = "getevents") /\ UNCHANGED pc
      BY <3>1 DEF KernelComplete, loop
    <3>3. Len(ring') = Len(ring) + 1
      BY <1>t, <3>2, RingAppended DEF DmInv, TypeOK, Results
    <3>4. UseUsb
      BY DEF NoneInflight
    <3>p. evfd' > 0
      BY <1>t, <3>2 DEF DmInv, TypeOK, KernelTypeOK
    <3>n. NoneInflight'
      BY <3>4 DEF NoneInflight
    <3>5. CASE raced'
      BY <3>n, <3>p, <3>5 DEF CountedOnce
    <3>6. CASE ~raced'
      <4>1. pc # "getevents" /\ ~raced
        BY <3>2, <3>6
      <4>2. evfd <= Len(ring) /\ evfd \in Nat /\ Len(ring) \in Nat
        BY <1>t, <1>q, <4>1 DEF CountedOnce, DmInv, TypeOK, KernelTypeOK
      <4>3. evfd' <= Len(ring')
        BY <3>2, <3>3, <4>2
      <4>4. pc' # "getevents"
        BY <3>2, <4>1
      <4> QED BY <3>n, <3>p, <4>3, <4>4 DEF CountedOnce
    <3> QED BY <3>5, <3>6
  <2> QED BY <2>1, <2>2, <2>3
<1>3. CASE UNCHANGED vars
  BY <1>q, <1>3 DEF vars, watchVars, loop
<1> QED BY <1>1, <1>2, <1>3 DEF Next

\* CountedOnce holds in every reachable state.
LEMMA CountedOnceAlways == Spec => [](CountedOnce /\ NoneInflight)
<1>1. Init => CountedOnce /\ NoneInflight
  <2> SUFFICES ASSUME Init PROVE CountedOnce /\ NoneInflight
    OBVIOUS
  <2>1. inflight = {} /\ ring = <<>> /\ evfd = 0 /\ pc = "submit" /\ ~raced
    BY DEF Init, WatchInit
  <2>2. Len(ring) = 0
    BY <2>1
  <2> QED BY <2>1, <2>2 DEF CountedOnce, NoneInflight
<1> QED BY <1>1, NextCountedOnce, DmInvAlways, PTL DEF Spec

\* io_getevents is called to wait only after a completion was posted between an
\* earlier read of the eventfd and its io_getevents, which only the endpoints of the
\* gadget can do: otherwise the eventfd that select() reported counts completions that
\* are still on the ring, and watch_run does not sleep in watch_handle_eventfd while
\* descriptors are readable.
THEOREM LoopNeverSleeps == Spec => []GetEventsReturns
<1>1. CountedOnce /\ NoneInflight => GetEventsReturns
  BY DEF CountedOnce, NoneInflight, GetEventsReturns
<1> QED BY <1>1, CountedOnceAlways, PTL

-----------------------------------------------------------------------------
(* The completion walk over the watches of sockets.                        *)

\* What io_getevents fetched: one completion per descriptor, and each socket's
\* watch the walk has still to reach has the buffer its completion is about.
WalkReady ==
    pc = "complete" =>
        /\ \A i, j \in 1..Len(events) : events[i].fd = events[j].fd => i = j
        /\ \A w \in linked : w > cur /\ Hits(w) # {} =>
              pending[w] # NoMbuf \/ aio_watches[w].fd \in UsbFds

\* Of the sockets, only that of a slow client gives EAGAIN.
EagainIsSlow ==
    /\ \A i \in 1..Len(ring) :
          ring[i].res = "eagain" => aio_watches[ring[i].obj].fd \in Slow \cup UsbFds
    /\ pc = "complete" =>
          \A i \in 1..Len(events) :
              events[i].res = "eagain" => events[i].fd \in Slow \cup UsbFds

\* A socket's watch with a buffer pending has a request, a completion that the
\* walk has still to reach, or a slow client.
PendingHasRequest ==
    pc # "abort" => \A w \in linked : pending[w] # NoMbuf =>
        \/ w \in Outstanding
        \/ pc = "complete" /\ w > cur /\ Hits(w) # {}
        \/ aio_watches[w].fd \in Slow \cup UsbFds

WalkInv == WalkReady /\ EagainIsSlow /\ PendingHasRequest

\* What holds of every AIO watch's descriptor.
LEMMA SocketOrEndpoint ==
    ASSUME WatchInv, NEW w \in 1..Len(aio_watches)
    PROVE  aio_watches[w].fd \in Client \cup Perif \cup CmdFd \cup UsbFds
<1>1. aio_watches[w].fd \in Fd
  BY WatchFd DEF WatchInv, TypeOK
<1>2. aio_watches[w].fd \notin {Ep0, Listen}
  BY DEF WatchInv, DmWatches, EndpointsWatched, On
<1> QED BY <1>1, <1>2, Descriptors

\* A socket has one watch on the list.
LEMMA OneWatchPerFd ==
    ASSUME WatchInv, NEW v \in linked, NEW w \in linked,
           aio_watches[v].fd = aio_watches[w].fd, aio_watches[v].fd \notin UsbFds
    PROVE  v = w
<1>1. v \in 1..Len(aio_watches) /\ w \in 1..Len(aio_watches)
  BY DEF WatchInv, TypeOK, ListTypeOK
<1>2. CASE aio_watches[v].fd \in Client
  BY <1>1, <1>2 DEF WatchInv, DmWatches, OneWatchPerDm, Dm
<1>3. CASE aio_watches[v].fd \in Perif \cup CmdFd
  BY <1>3 DEF WatchInv, SocketWatches, OneWatchPerSocket
<1> QED BY <1>1, <1>2, <1>3, SocketOrEndpoint

\* Outside the completion walk, steps that leave the kernel alone and neither
\* give nor take buffers of watches.
LEMMA QuietWalk ==
    ASSUME WatchInv, WalkInv, [Next]_vars, UNCHANGED kernel, PendingKept,
           linked' \subseteq linked \cup {Len(aio_watches) + 1},
           pc \notin {"complete", "abort"}, pc' \notin {"complete", "abort"}
    PROVE  WalkInv'
<1>t. TypeOK /\ ListTypeOK /\ linked \subseteq 1..Len(aio_watches)
  BY DEF WatchInv, TypeOK, ListTypeOK
<1>1. UNCHANGED ring /\ Outstanding' = Outstanding
  BY DEF kernel, Outstanding
<1>2. \A v \in 1..Len(aio_watches) : aio_watches'[v] = aio_watches[v]
                                     /\ pending'[v] = pending[v]
  BY <1>t, PositionsKept, PendingKeptAt
<1>3. WalkReady'
  BY DEF WalkReady
<1>4. EagainIsSlow'
  BY <1>1, <1>2, RingAt DEF WatchInv, TypeOK, WalkInv, EagainIsSlow
<1>5. PendingHasRequest'
  <2> SUFFICES ASSUME NEW w \in linked', pending'[w] # NoMbuf
               PROVE  w \in Outstanding' \/ aio_watches'[w].fd \in Slow \cup UsbFds
    BY DEF PendingHasRequest
  <2>1. TypeOK'
    BY <1>t, NextTypeOK
  <2>2. w \in 1..Len(aio_watches')
    BY <2>1 DEF TypeOK, ListTypeOK
  <2>3. w \in 1..Len(aio_watches)
    BY <1>t, <2>2, PositionsKept
  <2>4. w \in linked
    <3>1. Len(aio_watches) + 1 \notin 1..Len(aio_watches)
      BY PendingAt, <1>t
    <3> QED BY <2>3, <3>1
  <2> QED BY <1>1, <1>2, <2>3, <2>4 DEF WalkInv, PendingHasRequest
<1> QED BY <1>3, <1>4, <1>5 DEF WalkInv

\* A write to a socket is finished when io_submit returns.
LEMMA SubmitWalk ==
    ASSUME WatchInv, WalkInv, NEW w \in linked, NEW res \in Results,
           SubmitSocket(w, res)
    PROVE  WalkInv'
<1>t. /\ ListTypeOK /\ KernelTypeOK /\ w \in 1..Len(aio_watches)
      /\ linked \subseteq 1..Len(aio_watches) /\ Len(pending) = Len(aio_watches)
      /\ Len(ring) \in Nat
  BY RingAt DEF WatchInv, TypeOK, ListTypeOK
<1>1. /\ ring' = Append(ring, [obj |-> w, res |-> res]) /\ pc = "submit"
      /\ UNCHANGED <<aio_watches, linked, inflight, pc>> /\ Accepted(w)
      /\ res \in SyncResults(aio_watches[w].fd)
  BY DEF SubmitSocket, SubmitSync, SubmitNext, lists
<1>2. /\ Len(ring') = Len(ring) + 1
      /\ \A i \in 1..Len(ring) : ring'[i] = ring[i]
      /\ ring'[Len(ring) + 1].obj = w
      /\ ring'[Len(ring) + 1].res = res
  BY <1>t, <1>1, RingAppended
<1>3. \A i \in 1..Len(ring') : i \in 1..Len(ring) \/ i = Len(ring) + 1
  BY <1>t, <1>2
<1>4. res = "eagain" => aio_watches[w].fd \in Slow \cup UsbFds
  BY <1>1 DEF SyncResults, UsbFds
<1>5. EagainIsSlow'
  BY <1>1, <1>2, <1>3, <1>4 DEF WalkInv, EagainIsSlow
<1>6. Outstanding \cup {w} \subseteq Outstanding'
  <2>1. /\ Len(ring) + 1 \in 1..Len(ring')
        /\ \A i \in 1..Len(ring) : i \in 1..Len(ring')
    BY <1>t, <1>2
  <2> QED BY <1>1, <1>2, <2>1 DEF Outstanding
<1>7. \A v \in linked : v # w => pending'[v] = pending[v]
  BY <1>t, <1>1, PendingSet DEF Accepted
<1>8. PendingHasRequest'
  BY <1>1, <1>6, <1>7 DEF WalkInv, PendingHasRequest
<1> QED BY <1>1, <1>5, <1>8 DEF WalkInv, WalkReady

\* A request of an endpoint is submitted, or finished.
LEMMA EndpointWalk ==
    ASSUME WatchInv, AioInv, WalkInv, NEW w \in 1..Len(aio_watches),
           \/ w \in linked /\ SubmitEndpoint(w)
           \/ w \in inflight /\ EndpointComplete(w)
    PROVE  WalkInv'
<1>t. /\ linked \subseteq 1..Len(aio_watches) /\ Len(pending) = Len(aio_watches)
      /\ Len(ring) \in Nat /\ ListTypeOK /\ KernelTypeOK
  BY RingAt DEF WatchInv, TypeOK, ListTypeOK
<1>u. aio_watches[w].fd \in UsbFds
  BY DEF SubmitEndpoint, AioInv, InflightOnEndpoints, UsbFds
<1>1. CASE w \in linked /\ SubmitEndpoint(w)
  <2>1. /\ UNCHANGED <<aio_watches, linked, ring, pc>> /\ pc = "submit" /\ Accepted(w)
        /\ Outstanding' = Outstanding \cup {w}
    BY <1>1 DEF SubmitEndpoint, SubmitAsync, SubmitNext, lists, Outstanding
  <2>2. \A v \in linked : v # w => pending'[v] = pending[v]
    BY <1>t, <2>1, PendingSet DEF Accepted
  <2>3. EagainIsSlow'
    BY <2>1 DEF WalkInv, EagainIsSlow
  <2>4. PendingHasRequest'
    BY <2>1, <2>2 DEF WalkInv, PendingHasRequest
  <2> QED BY <2>1, <2>3, <2>4 DEF WalkInv, WalkReady
<1>2. CASE w \in inflight /\ EndpointComplete(w)
  <2>1. PICK res \in {"ok", "err"} : KernelComplete(w, res)
    BY <1>2 DEF EndpointComplete
  <2>2. /\ UNCHANGED <<aio_watches, linked, pending, pc, cur, events>>
        /\ inflight' = inflight \ {w}
        /\ ring' = Append(ring, [obj |-> w, res |-> res])
    BY <2>1 DEF KernelComplete, lists, loop
  <2>3. /\ Len(ring') = Len(ring) + 1
        /\ \A i \in 1..Len(ring) : ring'[i] = ring[i]
        /\ ring'[Len(ring) + 1].obj = w
        /\ ring'[Len(ring) + 1].res = res
    BY <1>t, <2>2, RingAppended DEF Results
  <2>4. \A i \in 1..Len(ring') : i \in 1..Len(ring) \/ i = Len(ring) + 1
    BY <1>t, <2>3
  <2>5. Outstanding \subseteq Outstanding'
    <3>1. /\ Len(ring) + 1 \in 1..Len(ring')
          /\ \A i \in 1..Len(ring) : i \in 1..Len(ring')
      BY <1>t, <2>3
    <3> QED BY <2>2, <2>3, <3>1 DEF Outstanding
  <2>6. EagainIsSlow'
    BY <1>u, <2>2, <2>3, <2>4 DEF WalkInv, EagainIsSlow
  <2>7. \A v : Hits(v)' = Hits(v)
    BY <2>2 DEF Hits
  <2>8. PendingHasRequest' /\ WalkReady'
    BY <2>2, <2>5, <2>7 DEF WalkInv, PendingHasRequest, WalkReady
  <2> QED BY <2>6, <2>8 DEF WalkInv
<1> QED BY <1>1, <1>2

\* io_getevents hands the walk what it needs.
LEMMA FetchWalk ==
    ASSUME WatchInv, AioInv, CompletionsFit, WalkInv, LoopGetEvents
    PROVE  WalkInv'
<1>1. /\ ring' = <<>> /\ pc' = "complete" /\ cur' = 0
      /\ UNCHANGED <<inflight, aio_watches, linked, pending>>
      /\ Len(events') = Len(ring)
      /\ \A i \in 1..Len(ring) : /\ events'[i].fd = aio_watches[ring[i].obj].fd
                                 /\ events'[i].res = ring[i].res
  BY Fetched
<1>2. pc = "getevents" /\ Len(ring') = 0 /\ linked \subseteq 1..Len(aio_watches)
  BY <1>1 DEF LoopGetEvents, GetEvents, WatchInv, TypeOK, ListTypeOK
<1>3. \A i \in 1..Len(ring) : ring[i].obj \in linked /\ pending[ring[i].obj] # NoMbuf
  BY DEF AioInv, NoDangling, OutstandingHeld, Outstanding
<1>4. WalkReady'
  <2>1. ASSUME NEW i \in 1..Len(ring), NEW j \in 1..Len(ring),
               events'[i].fd = events'[j].fd
        PROVE  i = j
    <3>1. ring[i].obj = ring[j].obj
      BY <1>1, <1>3, <2>1, OneRequestPerFd
    <3> QED BY <3>1 DEF AioInv, RingDistinct
  <2>2. ASSUME NEW w \in linked, NEW i \in 1..Len(ring),
               events'[i].fd = aio_watches[w].fd, aio_watches[w].fd \notin UsbFds
        PROVE  pending[w] # NoMbuf
    <3>1. ring[i].obj = w
      BY <1>1, <1>3, <2>2, OneWatchPerFd
    <3> QED BY <1>3, <3>1
  <2> QED BY <1>1, <2>1, <2>2 DEF WalkReady, Hits
<1>5. EagainIsSlow'
  BY <1>1, <1>2 DEF WalkInv, EagainIsSlow
<1>6. PendingHasRequest'
  <2> SUFFICES ASSUME NEW w \in linked, pending[w] # NoMbuf, w \in Outstanding,
                      aio_watches[w].fd \notin UsbFds
               PROVE  w > 0 /\ Hits(w)' # {}
    BY <1>1, <1>2 DEF WalkInv, PendingHasRequest
  <2>1. PICK i \in 1..Len(ring) : ring[i].obj = w
    BY DEF AioInv, InflightOnEndpoints, Outstanding
  <2>2. i \in Hits(w)'
    BY <1>1, <2>1 DEF Hits
  <2> QED BY <1>2, <2>2
<1> QED BY <1>4, <1>5, <1>6 DEF WalkInv

\* A step of the walk that does not abort.
LEMMA WalkStep ==
    ASSUME WatchInv, WalkInv, NEW w \in linked, CompleteNext(w),
           UNCHANGED <<aio_watches, linked, kernel, pc, events>>,
           \/ pending' = [pending EXCEPT ![w] = NoMbuf]
           \/ UNCHANGED pending /\ Passed(w) = Hits(w)
    PROVE  WalkInv'
<1>t. ListTypeOK /\ linked \subseteq 1..Len(pending) /\ Len(pending) \in Nat /\ cur \in Nat
  BY PendingAt DEF WatchInv, TypeOK, LoopTypeOK
<1>1. /\ pc = "complete" /\ cur' = w /\ w > cur /\ Hits(w) # {}
      /\ \A v \in linked : v > cur /\ Hits(v) # {} => w <= v
  BY DEF CompleteNext, IsFirst, ToComplete
<1>2. Outstanding' = Outstanding /\ UNCHANGED ring /\ \A v : Hits(v)' = Hits(v)
  BY DEF kernel, Outstanding, Hits
<1>3. \A v \in linked : v # w => pending'[v] = pending[v]
  BY <1>t, PendingSet
<1>4. \A v \in linked : v > w => v > cur /\ v # w
  BY <1>t, <1>1
<1>5. WalkReady'
  BY <1>1, <1>2, <1>3, <1>4 DEF WalkInv, WalkReady
<1>6. EagainIsSlow'
  BY <1>2 DEF WalkInv, EagainIsSlow
<1>7. pending'[w] # NoMbuf => aio_watches[w].fd \in Slow \cup UsbFds
  <2>1. CASE pending' = [pending EXCEPT ![w] = NoMbuf]
    BY <1>t, <2>1, PendingSet
  <2>2. CASE Passed(w) = Hits(w)
    <3>1. PICK i \in Hits(w) : events[i].res = "eagain"
      BY <1>1, <2>2 DEF Passed
    <3> QED BY <1>1, <3>1 DEF WalkInv, EagainIsSlow, Hits
  <2> QED BY <2>1, <2>2
<1>8. PendingHasRequest'
  <2> SUFFICES ASSUME NEW v \in linked, pending'[v] # NoMbuf, v # w
               PROVE  \/ v \in Outstanding
                      \/ v > w /\ Hits(v) # {}
                      \/ aio_watches[v].fd \in Slow \cup UsbFds
    BY <1>1, <1>2, <1>7 DEF PendingHasRequest
  <2>1. v > cur /\ Hits(v) # {} => v > w
    BY <1>t, <1>1
  <2> QED BY <1>1, <1>3, <2>1 DEF WalkInv, PendingHasRequest
<1> QED BY <1>5, <1>6, <1>8 DEF WalkInv

\* The walk aborts at no watch of a socket.
LEMMA WalkHolds ==
    ASSUME WalkInv, NEW w \in linked, CompleteNext(w), aio_watches[w].fd \notin UsbFds
    PROVE  ~Asserts(w)
<1>1. pc = "complete" /\ w > cur /\ Hits(w) # {}
  BY DEF CompleteNext, IsFirst, ToComplete
<1>2. pending[w] # NoMbuf
  BY <1>1 DEF WalkInv, WalkReady
<1>3. \A i, j \in Hits(w) : i = j
  BY <1>1 DEF WalkInv, WalkReady, Hits
<1>4. \A i, j \in Hits(w) : ~(i < j)
  <2>1. \A i \in Hits(w) : i \in Int
    BY DEF Hits
  <2> QED BY <1>3, <2>1
<1> QED BY <1>2, <1>4 DEF Asserts

\* Every step preserves WalkInv.
LEMMA NextWalkInv ==
    WatchInv /\ AioInv /\ CompletionsFit /\ WalkInv /\ [Next]_vars => WalkInv'
<1> SUFFICES ASSUME WatchInv, AioInv, CompletionsFit, WalkInv, [Next]_vars
             PROVE  WalkInv'
  OBVIOUS
<1>t. /\ TypeOK /\ linked \subseteq 1..Len(aio_watches)
      /\ inflight \subseteq 1..Len(aio_watches)
  BY RingAt DEF WatchInv, TypeOK, ListTypeOK
<1>1. CASE Loop
  <2>1. ASSUME NEW w \in linked, SubmitEndpoint(w)
        PROVE  WalkInv'
    BY <1>t, <2>1, EndpointWalk
  <2>2. ASSUME NEW w \in linked, SubmitFailed(w)
        PROVE  WalkInv'
    <3>1. UNCHANGED <<kernel, pending, linked, pc>> /\ pc = "submit"
      BY <2>2 DEF SubmitFailed, SubmitRefused, SubmitNext, lists
    <3> QED BY <3>1, QuietWalk DEF PendingKept
  <2>3. ASSUME NEW w \in linked, LoopAbort(w)
        PROVE  WalkInv'
    <3>1. UNCHANGED <<ring, aio_watches>> /\ pc' = "abort"
      BY <2>3 DEF LoopAbort, CompleteAbort, lists, kernel
    <3> QED BY <3>1 DEF WalkInv, WalkReady, EagainIsSlow, PendingHasRequest
  <2>4. ASSUME NEW w \in linked, LoopEagain(w) \/ LoopWrite(w) \/ diag_ffs_recv(w)
        PROVE  WalkInv'
    BY <2>4, WalkStep DEF LoopEagain, CompleteEagain, LoopWrite, CompleteWrite,
                          diag_ffs_recv, lists
  <2>5. CASE LoopSelect \/ LoopReadEventfd
    <3>1. /\ UNCHANGED <<inflight, ring, aio_watches, pending, linked>>
          /\ pc \notin {"complete", "abort"} /\ pc' \notin {"complete", "abort"}
      BY <2>5 DEF LoopSelect, Select, LoopReadEventfd, ReadEventfd, lists, kernel
    <3>2. Outstanding' = Outstanding
      BY <3>1 DEF Outstanding
    <3> QED BY <3>1, <3>2 DEF WalkInv, WalkReady, EagainIsSlow, PendingHasRequest
  <2>6. CASE LoopCompleteDone
    <3>1. /\ UNCHANGED <<inflight, ring, aio_watches, pending, linked>>
          /\ pc = "complete" /\ pc' = "dispatch" /\ ToComplete = {}
      BY <2>6 DEF LoopCompleteDone, CompleteDone, lists, kernel
    <3>2. Outstanding' = Outstanding
      BY <3>1 DEF Outstanding
    <3>3. \A w \in linked : ~(w > cur /\ Hits(w) # {})
      BY <3>1 DEF ToComplete
    <3>4. PendingHasRequest'
      BY <3>1, <3>2, <3>3 DEF WalkInv, PendingHasRequest
    <3> QED BY <3>1, <3>4 DEF WalkInv, WalkReady, EagainIsSlow
  <2>7. CASE LoopDispatchDone
    <3>1. UNCHANGED <<kernel, pending, linked>> /\ pc = "dispatch" /\ pc' = "submit"
      BY <2>7 DEF LoopDispatchDone, DispatchDone, lists
    <3> QED BY <3>1, QuietWalk DEF PendingKept
  <2>8. CASE Handlers
    <3>1. /\ UNCHANGED kernel /\ PendingKept /\ pc \notin {"complete", "abort"}
          /\ pc' \notin {"complete", "abort"}
      BY <1>t, <2>8, CallbackSteps
    <3>2. linked' \subseteq linked \cup {Len(aio_watches) + 1}
      BY <1>t, WatchSteps DEF watch_add_aio, watch_remove_aio
    <3> QED BY <3>1, <3>2, QuietWalk
  <2> QED BY <1>1, <2>1, <2>2, <2>3, <2>4, <2>5, <2>6, <2>7, <2>8, SubmitWalk,
             FetchWalk DEF Loop
<1>2. CASE UNCHANGED watchVars
  <2>1. Outstanding' = Outstanding /\ \A w : Hits(w)' = Hits(w)
    BY <1>2 DEF watchVars, lists, kernel, loop, Outstanding, Hits
  <2> QED BY <1>2, <2>1 DEF WalkInv, WalkReady, EagainIsSlow, PendingHasRequest,
             watchVars, lists, kernel, loop
<1>3. CASE Environment
  <2>1. UNCHANGED watchVars \/ \E w \in inflight : EndpointComplete(w)
    BY <1>3 DEF Environment, ClientConnect, ClientClose, ClientSend, PerifSend,
                PerifCommandSocket, ServerUpDown, Plug, Unplug
  <2> QED BY <1>t, <1>2, <2>1, EndpointWalk
<1> QED BY <1>1, <1>2, <1>3 DEF Next, vars

\* WalkInv holds in every reachable state.
LEMMA WalkInvAlways == Spec => [](CompletionsFit /\ AnnouncedOnce => WalkInv)
<1>1. Init => WalkInv
  <2> SUFFICES ASSUME Init PROVE WalkInv
    OBVIOUS
  <2>1. ring = <<>> /\ pc = "submit" /\ linked \subseteq 1..Len(pending)
    BY InitTypeOK DEF Init, WatchInit, TypeOK, ListTypeOK
  <2>2. \A w \in 1..Len(pending) : pending[w] = NoMbuf
    <3>1. DOMAIN pending = 1..Len(pending)
      BY InitTypeOK, PendingAt DEF TypeOK
    <3>2. \A w \in DOMAIN pending : pending[w] = NoMbuf
      BY DEF Init, WatchInit
    <3> QED BY <3>1, <3>2
  <2>3. Len(ring) = 0
    BY <2>1
  <2>4. EagainIsSlow
    BY <2>1, <2>3 DEF EagainIsSlow
  <2>5. PendingHasRequest
    BY <2>1, <2>2 DEF PendingHasRequest
  <2> QED BY <2>1, <2>4, <2>5 DEF WalkInv, WalkReady
<1>2. /\ (AnnouncedOnce => WatchInv) /\ (CompletionsFit /\ AnnouncedOnce => AioInv)
      /\ (CompletionsFit /\ AnnouncedOnce => WalkInv) /\ [Next]_vars
      => (CompletionsFit /\ AnnouncedOnce => WalkInv)'
  BY NextWalkInv DEF CompletionsFit, AnnouncedOnce, AioFd, UsbFds, CmdFd
<1> QED BY <1>1, <1>2, WatchInvAlways, AioInvAlways, PTL DEF Spec

\* Only the walk can abort the router.
LEMMA AbortStep ==
    ASSUME [Next]_vars, AssertHolds
    PROVE  AssertHolds' \/ \E w \in linked : LoopAbort(w)
<1>1. CASE Handlers
  BY <1>1 DEF Handlers, unix_listen, Dispatch, DmRecv, DmRecvCommand, DmRecvEagain,
              DmRecvEof, DmRecvError, Returns, ep0_recv, qrtr_data_recv, qrtr_cmd_recv,
              Receive, AssertHolds, loop
<1>2. CASE Loop
  <2>1. ASSUME NEW w \in linked,
               \/ \E res \in Results : SubmitSocket(w, res)
               \/ SubmitEndpoint(w) \/ SubmitFailed(w)
               \/ LoopEagain(w) \/ LoopWrite(w) \/ diag_ffs_recv(w)
        PROVE  AssertHolds'
    BY <2>1 DEF SubmitSocket, SubmitSync, SubmitEndpoint, SubmitAsync, SubmitFailed,
                SubmitRefused, LoopEagain, CompleteEagain, LoopWrite, CompleteWrite,
                diag_ffs_recv, AssertHolds
  <2>2. CASE LoopSelect \/ LoopReadEventfd \/ LoopGetEvents \/ LoopCompleteDone
             \/ LoopDispatchDone
    BY <2>2 DEF LoopSelect, Select, LoopReadEventfd, ReadEventfd, LoopGetEvents,
                GetEvents, LoopCompleteDone, CompleteDone, LoopDispatchDone,
                DispatchDone, AssertHolds
  <2> QED BY <1>1, <1>2, <2>1, <2>2 DEF Loop
<1>3. CASE Environment
  BY <1>3 DEF Environment, ClientConnect, ClientClose, ClientSend, PerifSend,
              PerifCommandSocket, ServerUpDown, Plug, Unplug, EndpointComplete,
              KernelComplete, watchVars, loop, AssertHolds
<1>4. CASE UNCHANGED vars
  BY <1>4 DEF vars, watchVars, loop, AssertHolds
<1> QED BY <1>2, <1>3, <1>4 DEF Next

\* Without the gadget, and if the name server announces no server twice,
\* assert(w->pending_aio) in watch_handle_eventfd never fails: the completions it
\* fetches are of different descriptors, each of which has one watch on the list,
\* with its buffer still pending.
THEOREM NeverAborts ==
    Spec => [](CompletionsFit /\ AnnouncedOnce /\ ~UseUsb => AssertHolds)
<1> DEFINE Hyp == CompletionsFit /\ AnnouncedOnce /\ ~UseUsb
<1>1. Init => AssertHolds
  BY DEF Init, WatchInit, AssertHolds
<1>2. /\ (AnnouncedOnce => WatchInv) /\ (CompletionsFit /\ AnnouncedOnce => WalkInv)
      /\ (Hyp => AssertHolds) /\ [Next]_vars
      => (Hyp => AssertHolds)'
  <2> SUFFICES ASSUME WatchInv, WalkInv, ~UseUsb, AssertHolds, [Next]_vars
               PROVE  AssertHolds'
    BY DEF CompletionsFit, AnnouncedOnce, AioFd, UsbFds, CmdFd
  <2>1. ASSUME NEW w \in linked, LoopAbort(w) PROVE FALSE
    <3>1. CompleteNext(w) /\ Asserts(w)
      BY <2>1 DEF LoopAbort, CompleteAbort
    <3>2. w \in 1..Len(aio_watches) /\ DmInv
      BY DEF WatchInv, DmInv, TypeOK, ListTypeOK
    <3>3. aio_watches[w].fd \notin UsbFds
      BY <3>2, NoEndpoint, Descriptors
    <3> QED BY <3>1, <3>3, WalkHolds
  <2> QED BY <2>1, AbortStep
<1> QED BY <1>1, <1>2, WatchInvAlways, WalkInvAlways, PTL DEF Spec

\* Under the same conditions watch_run passes over a watch only while its request is
\* on the ring or fetched, or if a slow client has left it pending with EAGAIN.
THEOREM PassedOverIsBusy ==
    Spec => [](CompletionsFit /\ AnnouncedOnce /\ ~UseUsb => PendingIsOutstanding)
<1>1. ASSUME WatchInv, WalkInv, AssertHolds, ~UseUsb PROVE PendingIsOutstanding
  <2>1. \A w \in linked : aio_watches[w].fd \notin UsbFds
    <3>1. DmInv /\ linked \subseteq 1..Len(aio_watches)
      BY <1>1 DEF WatchInv, DmInv, TypeOK, ListTypeOK
    <3> QED BY <1>1, <3>1, NoEndpoint, Descriptors
  <2> QED BY <1>1, <2>1 DEF WalkInv, AssertHolds, PendingHasRequest, PendingIsOutstanding
<1>2. /\ (AnnouncedOnce => WatchInv) /\ (CompletionsFit /\ AnnouncedOnce => WalkInv)
      /\ (CompletionsFit /\ AnnouncedOnce /\ ~UseUsb => AssertHolds)
      => (CompletionsFit /\ AnnouncedOnce /\ ~UseUsb => PendingIsOutstanding)
  BY <1>1
<1> QED BY <1>2, WatchInvAlways, WalkInvAlways, NeverAborts, PTL

-----------------------------------------------------------------------------
(* The buffers of watches that are freed.                                  *)

\* A step that removes watches removes those of a client at its end of file, or
\* of a socket of a peripheral, and does so in a callback.
LEMMA RemovalSteps ==
    ASSUME TypeOK, [Next]_vars
    PROVE  \/ linked \subseteq linked'
           \/ \E f \in Client \cup Perif \cup CmdFd :
                 /\ watch_remove_aio(f) /\ UNCHANGED <<aio_watches, pending, sock>>
                 /\ f \in Client => sock[f] = "eof"
                 /\ Handlers
<1>1. CASE Handlers
  <2>1. ASSUME NEW c \in Client, DmRecvEof(c)
        PROVE  /\ watch_remove_aio(c) /\ UNCHANGED <<aio_watches, pending, sock>>
               /\ sock[c] = "eof"
    BY <2>1 DEF DmRecvEof, envVars
  <2>2. ASSUME NEW c \in Client,
               \/ unix_listen(c) \/ DmRecv(c) \/ DmRecvCommand(c)
               \/ DmRecvEagain(c) \/ DmRecvError(c)
        PROVE  linked \subseteq linked'
    BY <2>2 DEF unix_listen, watch_add_aio, DmRecv, DmRecvCommand, DmRecvEagain,
                DmRecvError, lists
  <2>3. CASE ep0_recv
    BY <2>3 DEF ep0_recv, watch_add_aio
  <2>4. ASSUME NEW p \in Perif, qrtr_data_recv(p)
        PROVE  \/ linked \subseteq linked'
               \/ watch_remove_aio(p) /\ UNCHANGED <<aio_watches, pending, sock>>
    BY <2>4 DEF qrtr_data_recv, Receive, qrtr_data_recv_data, qrtr_data_recv_bye,
                watch_add_aio
  <2>5. ASSUME NEW p \in Perif, qrtr_cmd_recv(p)
        PROVE  \/ linked \subseteq linked'
               \/ watch_remove_aio(cmd_fd[p]) /\ UNCHANGED <<aio_watches, pending, sock>>
    BY <2>5 DEF qrtr_cmd_recv, Receive, watch_add_aio
  <2>6. \A p \in Perif : p \notin Client /\ cmd_fd[p] \notin Client /\ cmd_fd[p] \in CmdFd
    BY Descriptors
  <2> QED BY <1>1, <2>1, <2>2, <2>3, <2>4, <2>5, <2>6 DEF Handlers
<1>2. CASE Loop /\ ~Handlers
  <2>1. ASSUME NEW w \in linked,
               \/ \E res \in Results : SubmitSocket(w, res)
               \/ SubmitEndpoint(w) \/ SubmitFailed(w)
               \/ LoopAbort(w) \/ LoopEagain(w) \/ LoopWrite(w) \/ diag_ffs_recv(w)
        PROVE  UNCHANGED linked
    BY <2>1 DEF SubmitSocket, SubmitSync, SubmitEndpoint, SubmitAsync, SubmitFailed,
                SubmitRefused, LoopAbort, CompleteAbort, LoopEagain, CompleteEagain,
                LoopWrite, CompleteWrite, diag_ffs_recv, lists
  <2>2. CASE LoopSelect \/ LoopReadEventfd \/ LoopGetEvents \/ LoopCompleteDone
             \/ LoopDispatchDone
    BY <2>2 DEF LoopSelect, Select, LoopReadEventfd, ReadEventfd, LoopGetEvents,
                GetEvents, LoopCompleteDone, CompleteDone, LoopDispatchDone,
                DispatchDone, lists
  <2> QED BY <1>2, <2>1, <2>2 DEF Loop
<1>3. CASE Environment
  BY <1>3 DEF Environment, ClientConnect, ClientClose, ClientSend, PerifSend,
              PerifCommandSocket, ServerUpDown, Plug, Unplug, EndpointComplete,
              KernelComplete, watchVars, lists
<1>4. CASE UNCHANGED vars
  BY <1>4 DEF vars, watchVars, lists
<1> QED BY <1>1, <1>2, <1>3, <1>4 DEF Next

\* The buffer of a watch that is off the list is never touched.
LEMMA FreedKeep ==
    ASSUME TypeOK, [Next]_vars
    PROVE  \A w \in 1..Len(pending') \ linked' :
               pending'[w] # NoMbuf => /\ w \in 1..Len(pending)
                                       /\ w \notin linked => pending[w] = pending'[w]
<1> SUFFICES ASSUME NEW w \in 1..Len(pending'), pending'[w] # NoMbuf
             PROVE  /\ w \in 1..Len(pending)
                    /\ w \notin linked => pending[w] = pending'[w]
  OBVIOUS
<1>t. ListTypeOK
  BY DEF TypeOK
<1>1. CASE PendingKept
  <2>1. CASE pending' = Append(pending, NoMbuf)
    <3>1. pending \in Seq(Mbuf \cup {NoMbuf})
      BY <1>t DEF ListTypeOK
    <3>2. Len(pending) \in Nat
      BY <3>1, LenProperties
    <3>3. /\ Len(pending') = Len(pending) + 1
          /\ \A v \in 1..Len(pending) : pending'[v] = pending[v]
          /\ pending'[Len(pending) + 1] = NoMbuf
      BY <2>1, <3>1, AppendAt
    <3>4. w \in 1..Len(pending)
      BY <3>2, <3>3
    <3> QED BY <3>3, <3>4
  <2> QED BY <1>1, <2>1 DEF PendingKept
<1>2. ASSUME NEW v \in linked, Accepted(v) \/ LoopWrite(v) \/ diag_ffs_recv(v)
      PROVE  /\ w \in 1..Len(pending)
             /\ w \notin linked => pending[w] = pending'[w]
  <2>1. \E x : pending' = [pending EXCEPT ![v] = x]
    BY <1>2 DEF Accepted, LoopWrite, CompleteWrite, diag_ffs_recv
  <2>2. DOMAIN pending = 1..Len(pending) /\ Len(pending) \in Nat
    BY <1>t, PendingAt
  <2>3. ListTypeOK'
    BY NextTypeOK DEF TypeOK
  <2>4. DOMAIN pending' = 1..Len(pending')
    BY <2>3, LenProperties DEF ListTypeOK
  <2> QED BY <2>1, <2>2, <2>4
<1> QED BY <1>1, <1>2, BufferSteps

\* The end of a connection is final.
LEMMA EndIsFinal ==
    ASSUME TypeOK, [Next]_vars
    PROVE  \A c \in Client : sock[c] = "eof" => sock'[c] = "eof"
<1>t. sock \in [Client -> {"none", "backlog", "open", "reset", "failed", "eof"}]
  BY DEF TypeOK, EnvTypeOK
<1>1. CASE Loop
  <2>1. ASSUME NEW w \in linked,
               \/ SubmitEndpoint(w) \/ SubmitFailed(w)
               \/ LoopAbort(w) \/ LoopEagain(w) \/ LoopWrite(w) \/ diag_ffs_recv(w)
        PROVE  UNCHANGED sock
    BY <2>1 DEF SubmitEndpoint, SubmitFailed, LoopAbort, LoopEagain, LoopWrite,
                diag_ffs_recv, envVars
  <2>2. ASSUME NEW w \in linked, NEW res \in Results, SubmitSocket(w, res)
        PROVE  \A c \in Client : sock[c] = "eof" => sock'[c] = "eof"
    BY <2>2 DEF SubmitSocket
  <2>3. CASE LoopSelect \/ LoopReadEventfd \/ LoopGetEvents \/ LoopCompleteDone
             \/ LoopDispatchDone
    BY <2>3 DEF LoopSelect, LoopReadEventfd, LoopGetEvents, LoopCompleteDone,
                LoopDispatchDone, envVars
  <2>4. ASSUME NEW c \in Client,
               \/ DmRecv(c) \/ DmRecvCommand(c) \/ DmRecvEagain(c) \/ DmRecvEof(c)
        PROVE  UNCHANGED sock
    BY <2>4 DEF DmRecv, DmRecvCommand, DmRecvEagain, DmRecvEof, envVars
  <2>5. ASSUME NEW c \in Client, unix_listen(c) \/ DmRecvError(c)
        PROVE  \A d \in Client : sock[d] = "eof" => sock'[d] = "eof"
    BY <1>t, <2>5 DEF unix_listen, DmRecvError
  <2>6. CASE ep0_recv
    BY <2>6 DEF ep0_recv
  <2>7. ASSUME NEW p \in Perif, qrtr_data_recv(p) \/ qrtr_cmd_recv(p)
        PROVE  UNCHANGED sock
    BY <2>7 DEF qrtr_data_recv, qrtr_cmd_recv, Receive
  <2>9. CASE Handlers
    BY <2>4, <2>5, <2>6, <2>7, <2>9 DEF Handlers
  <2> QED BY <1>1, <2>1, <2>2, <2>3, <2>9 DEF Loop
<1>2. CASE Environment
  <2>1. ASSUME NEW c \in Client, ClientConnect(c) \/ ClientClose(c)
        PROVE  \A d \in Client : sock[d] = "eof" => sock'[d] = "eof"
    BY <1>t, <2>1 DEF ClientConnect, ClientClose
  <2>2. ASSUME NEW c \in Client, NEW cmd \in Command, ClientSend(c, cmd)
        PROVE  UNCHANGED sock
    BY <2>2 DEF ClientSend
  <2>3. CASE \/ Plug \/ Unplug \/ \E w \in inflight : EndpointComplete(w)
             \/ \E p \in Perif : \/ PerifSend(p) \/ PerifCommandSocket(p)
                                 \/ ServerUpDown(p)
    BY <2>3 DEF Plug, Unplug, EndpointComplete, PerifSend, PerifCommandSocket,
                ServerUpDown
  <2> QED BY <1>2, <2>1, <2>2, <2>3 DEF Environment
<1>3. CASE UNCHANGED vars
  BY <1>3 DEF vars, envVars
<1> QED BY <1>1, <1>2, <1>3 DEF Next

\* Every step preserves OnlySlowLeak: a callback removes a socket's watch with a
\* buffer pending only if it is one that EAGAIN has left without a request.
LEMMA NextOnlySlowLeak ==
    WatchInv /\ AioInv /\ WalkInv /\ OnlySlowLeak /\ [Next]_vars => OnlySlowLeak'
<1> SUFFICES ASSUME WatchInv, AioInv, WalkInv, OnlySlowLeak, [Next]_vars,
                    NEW w \in 1..Len(pending') \ linked', pending'[w] # NoMbuf
             PROVE  /\ aio_watches'[w].fd \in Slow
                    /\ sock'[aio_watches'[w].fd] = "eof"
  BY DEF OnlySlowLeak, Leaks
<1>t. TypeOK /\ ListTypeOK /\ Len(pending) = Len(aio_watches) /\ Slow \subseteq Client
  BY RouterAssumption DEF WatchInv, TypeOK, ListTypeOK
<1>1. /\ w \in 1..Len(pending) /\ aio_watches'[w] = aio_watches[w]
      /\ w \notin linked => pending[w] = pending'[w]
  BY <1>t, FreedKeep, PositionsKept
<1>2. CASE w \notin linked
  <2>1. aio_watches[w].fd \in Slow /\ sock[aio_watches[w].fd] = "eof"
    BY <1>1, <1>2 DEF OnlySlowLeak, Leaks
  <2> QED BY <1>1, <1>t, <2>1, EndIsFinal
<1>3. CASE w \in linked
  <2>1. PICK f \in Client \cup Perif \cup CmdFd :
           /\ watch_remove_aio(f) /\ UNCHANGED <<aio_watches, pending, sock>>
           /\ f \in Client => sock[f] = "eof"
           /\ Handlers
    BY <1>t, <1>3, RemovalSteps
  <2>2. aio_watches[w].fd = f
    BY <1>3, <2>1 DEF watch_remove_aio
  <2>3. pc \in {"dispatch", "dm_recv"}
    BY <1>t, <2>1, CallbackSteps
  <2>4. f \notin UsbFds
    BY Descriptors
  <2>5. w \notin Outstanding
    BY <2>2, <2>3, <2>4 DEF AioInv, OnlyEndpointsLeft, Late
  <2>6. f \in Slow
    BY <1>3, <2>1, <2>2, <2>3, <2>4, <2>5 DEF WalkInv, PendingHasRequest
  <2> QED BY <1>t, <2>1, <2>2, <2>6
<1> QED BY <1>2, <1>3

\* From mbuf_alloc to free a buffer has one owner, a queue or a watch on the list,
\* whatever clients, hosts and peripherals do, with one exception: a client that met
\* EAGAIN and closes takes the packet pending on its watch with it, for
\* watch_remove_fd frees the watch and not the buffer.  ev[] in watch_handle_eventfd
\* has to have room for a completion of each descriptor, and the name server to
\* report the end of a server before it is announced again.
THEOREM BuffersOwned == Spec => [](CompletionsFit /\ AnnouncedOnce => Ownership)
<1>1. Init => OnlySlowLeak
  <2> SUFFICES ASSUME Init PROVE Leaks = {}
    BY DEF OnlySlowLeak
  <2>1. DOMAIN pending = 1..Len(pending)
    BY InitTypeOK, PendingAt DEF TypeOK
  <2>2. \A w \in DOMAIN pending : pending[w] = NoMbuf
    BY DEF Init, WatchInit
  <2> QED BY <2>1, <2>2 DEF Leaks
<1> DEFINE Hyp == CompletionsFit /\ AnnouncedOnce
<1>2. /\ (AnnouncedOnce => WatchInv) /\ (Hyp => AioInv) /\ (Hyp => WalkInv)
      /\ (Hyp => OnlySlowLeak) /\ [Next]_vars
      => (Hyp => OnlySlowLeak)'
  BY NextOnlySlowLeak DEF CompletionsFit, AnnouncedOnce, AioFd, UsbFds, CmdFd
<1>3. OneOwner /\ (Hyp => OnlySlowLeak) => (Hyp => Ownership)
  BY DEF Ownership
<1> QED BY <1>1, <1>2, <1>3, WatchInvAlways, AioInvAlways, WalkInvAlways,
           OneOwnerAlways, PTL DEF Spec
=============================================================================
