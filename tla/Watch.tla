-------------------------------- MODULE Watch --------------------------------
(***************************************************************************)
(* The event loop of router/watch.c and the packet buffers it moves: read  *)
(* watches, AIO watches over queues of mbufs, the completion ring and the  *)
(* eventfd of the kernel's AIO context, and the flow-control counters.     *)
(*                                                                         *)
(* The module holds the mechanism only.  Router.tla extends it with the    *)
(* callbacks the loop runs and with the environment that makes file        *)
(* descriptors readable and completes requests.                            *)
(*                                                                         *)
(* Watches are kept in the order they are added, as list_add does, and are *)
(* never forgotten: a linked watch is one that is still on its list, an    *)
(* unlinked one has been freed.  The position of a watch is its address.   *)
(* In this program a queue belongs to one file descriptor, so a queue is   *)
(* named by the descriptor it is written to (or read from).                *)
(***************************************************************************)
EXTENDS Naturals, Sequences, FiniteSets

CONSTANTS
    Fd,             \* file descriptors
    Mbuf,           \* addresses of packet buffers; a bound on the heap
    Flow,           \* flow-control contexts (one per peripheral)
    NoFlow,         \* a NULL flow pointer
    Unallocated,    \* charge of an mbuf that is not allocated
    NoMbuf,         \* a NULL pending_aio
    FLOW_WATERMARK, \* watch.c:52
    MaxEvents       \* size of ev[] in watch_handle_eventfd

ASSUME WatchAssumption ==
    /\ IsFiniteSet(Mbuf)
    /\ NoMbuf \notin Mbuf
    /\ NoFlow \notin Flow
    /\ Unallocated \notin Flow \cup {NoFlow}
    /\ FLOW_WATERMARK \in Nat
    /\ MaxEvents \in Nat \ {0}

VARIABLES
    queue,         \* list of mbufs waiting on each descriptor
    charge,        \* mbuf->flow, or Unallocated
    packets,       \* flow->packets
    read_watches,  \* descriptors of the read watches, in list order
    rlinked,       \* read watches still on their list
    aio_watches,   \* [fd, is_write] of the AIO watches, in list order
    linked,        \* AIO watches still on their list
    pending,       \* w->pending_aio of each AIO watch
    inflight,      \* AIO watches whose iocb the kernel is working on
    ring,          \* completions not fetched yet: [obj, res]
    evfd,          \* counter of the eventfd
    raced,         \* history: a completion was posted between a read of the
                   \* eventfd and its io_getevents, and its count may be left
    pc,            \* where watch_run is
    cur,           \* AIO watch reached by the current list walk
    rfds,          \* descriptors select() reported and not served yet
    events         \* completions fetched by io_getevents: [fd, res]

memory  == <<queue, charge, packets>>
lists   == <<read_watches, rlinked, aio_watches, linked>>
kernel  == <<inflight, ring, evfd, raced>>
loop    == <<pc, cur, rfds, events>>
watchVars == <<memory, lists, pending, kernel, loop>>

Results == {"ok", "eagain", "err"}
PC == {"submit", "eventfd", "getevents", "complete", "dispatch", "dm_recv",
       "abort"}

-----------------------------------------------------------------------------
(* Flow control and buffers.                                               *)

\* watch_flow_dec: a counter at zero stays there ("unbalanced flow control").
flow_dec(f) ==
    IF f \in Flow /\ packets[f] > 0
    THEN [packets EXCEPT ![f] = @ - 1]
    ELSE packets

watch_flow_blocked_Never(f) == f \in Flow /\ packets[f] < 0

watch_flow_blocked(f) == f \in Flow /\ packets[f] > FLOW_WATERMARK

FreeMbufs == {m \in Mbuf : charge[m] = Unallocated}

\* mbuf_alloc for every queue of D: which free buffers the heap hands out is
\* of no consequence, only that they are distinct.
Allocations(D) ==
    {f \in [D -> FreeMbufs] : \A d, e \in D : f[d] = f[e] => d = e}

queue_push_flow_Front(D, fl) ==
    /\ Allocations(D) # {}
    /\ LET f == CHOOSE g \in Allocations(D) : TRUE
       IN  /\ queue' = [q \in Fd |-> IF q \in D THEN <<f[q]>> \o queue[q]
                                              ELSE queue[q]]
           /\ charge' = [m \in Mbuf |-> IF m \in {f[d] : d \in D} THEN fl
                                                                 ELSE charge[m]]
           /\ packets' = [g \in Flow |-> IF g = fl
                                         THEN packets[g] + Cardinality(D)
                                         ELSE packets[g]]

\* queue_push_flow on every queue of D: one mbuf each, charged to flow fl.
queue_push_flow(D, fl) ==
    /\ Allocations(D) # {}
    /\ LET f == CHOOSE g \in Allocations(D) : TRUE
           used == {f[d] : d \in D}
       IN  /\ queue' = [q \in Fd |-> IF q \in D THEN Append(queue[q], f[q])
                                              ELSE queue[q]]
           /\ charge' = [m \in Mbuf |-> IF m \in used THEN fl ELSE charge[m]]
           /\ packets' = [g \in Flow |-> IF g = fl
                                         THEN packets[g] + Cardinality(D)
                                         ELSE packets[g]]

-----------------------------------------------------------------------------
(* Adding and removing watches.                                            *)

watch_add_readfd(fd) ==
    /\ read_watches' = Append(read_watches, fd)
    /\ rlinked' = rlinked \cup {Len(read_watches) + 1}

watch_add_aio_Malloc(fd, is_write) ==
    /\ aio_watches' = Append(aio_watches, [fd |-> fd, is_write |-> is_write])
    /\ linked' = linked \cup {Len(aio_watches) + 1}
    /\ pending' = Append(pending, Unallocated)

\* watch_add_readq and watch_add_writeq.
watch_add_aio(fd, is_write) ==
    /\ aio_watches' = Append(aio_watches, [fd |-> fd, is_write |-> is_write])
    /\ linked' = linked \cup {Len(aio_watches) + 1}
    /\ pending' = Append(pending, NoMbuf)

watch_remove_aio_Nothing(fd) == linked' = linked

\* The AIO half of watch_remove_fd, and all of watch_remove_writeq.  A buffer
\* that is still pending is not looked at.
watch_remove_aio(fd) ==
    linked' = {w \in linked : aio_watches[w].fd # fd}

watch_remove_read(fd) ==
    rlinked' = {r \in rlinked : read_watches[r] # fd}

-----------------------------------------------------------------------------
(* One pass of watch_run.                                                  *)

\* The watches the submission walk still has to serve.
ToSubmit ==
    {w \in linked : /\ w > cur
                    /\ pending[w] = NoMbuf
                    /\ queue[aio_watches[w].fd] # <<>>}

IsFirst(i, S) == i \in S /\ \A j \in S : i <= j

\* watch_submit_aio, up to the call of io_submit, for the next watch.
SubmitNext(w) ==
    /\ pc = "submit"
    /\ IsFirst(w, ToSubmit)
    /\ cur' = w

Accepted_NoDelete(w) ==
    /\ pending' = [pending EXCEPT ![w] = Head(queue[aio_watches[w].fd])]
    /\ UNCHANGED queue

\* io_submit returned 1: the mbuf moves from its queue to pending_aio.
Accepted(w) ==
    LET fd == aio_watches[w].fd
    IN  /\ pending' = [pending EXCEPT ![w] = Head(queue[fd])]
        /\ queue' = [queue EXCEPT ![fd] = Tail(@)]

SubmitSync_NoResfd(w, res) ==
    /\ SubmitNext(w)
    /\ Accepted(w)
    /\ ring' = Append(ring, [obj |-> w, res |-> res])
    /\ UNCHANGED <<charge, packets, lists, inflight, evfd, raced, pc, rfds, events>>

\* A descriptor without asynchronous I/O (a socket, or an endpoint that is
\* down and O_NONBLOCK) is read or written inside io_submit; its completion is
\* on the ring, and counted, when io_submit returns.
SubmitSync(w, res) ==
    /\ SubmitNext(w)
    /\ Accepted(w)
    /\ ring' = Append(ring, [obj |-> w, res |-> res])
    /\ evfd' = evfd + 1
    /\ UNCHANGED <<charge, packets, lists, inflight, raced, pc, rfds, events>>

\* An enabled FunctionFS endpoint completes later.
SubmitAsync(w) ==
    /\ SubmitNext(w)
    /\ Accepted(w)
    /\ inflight' = inflight \cup {w}
    /\ UNCHANGED <<charge, packets, lists, ring, evfd, raced, pc, rfds, events>>

SubmitRefused_Taken(w) ==
    /\ SubmitNext(w)
    /\ Accepted(w)
    /\ UNCHANGED <<charge, packets, lists, kernel, pc, rfds, events>>

\* io_submit failed: the mbuf stays first in its queue.
SubmitRefused(w) ==
    /\ SubmitNext(w)
    /\ UNCHANGED <<memory, lists, pending, kernel, pc, rfds, events>>

\* The kernel finishes a request it was working on.
KernelComplete(w, res) ==
    /\ w \in inflight
    /\ inflight' = inflight \ {w}
    /\ ring' = Append(ring, [obj |-> w, res |-> res])
    /\ evfd' = evfd + 1
    /\ raced' = (raced \/ pc = "getevents")
    /\ UNCHANGED <<memory, lists, pending, loop>>

\* select() over the eventfd and the read watches whose flow is not blocked;
\* readable is the set of descriptors with something to read.
Select(readable, flow) ==
    /\ pc = "submit"
    /\ ToSubmit = {}
    /\ rfds' = {f \in readable : \E r \in rlinked :
                    /\ read_watches[r] = f
                    /\ ~watch_flow_blocked(flow[f])}
    /\ evfd > 0 \/ rfds' # {}
    /\ pc' = IF evfd > 0 THEN "eventfd" ELSE "dispatch"
    /\ UNCHANGED <<memory, lists, pending, kernel, cur, events>>

ReadEventfd_Semaphore ==
    /\ pc = "eventfd"
    /\ evfd' = evfd - 1
    /\ pc' = "getevents"
    /\ UNCHANGED <<memory, lists, pending, inflight, ring, raced, cur, rfds, events>>

\* watch_handle_eventfd: read() returns the counter and resets it.
ReadEventfd ==
    /\ pc = "eventfd"
    /\ evfd' = 0
    /\ pc' = "getevents"
    /\ UNCHANGED <<memory, lists, pending, inflight, ring, raced, cur, rfds, events>>

GetEvents_One ==
    /\ pc = "getevents"
    /\ ring # <<>>
    /\ \E f \in Fd :
          /\ ring[1].obj \in linked => f = aio_watches[ring[1].obj].fd
          /\ events' = <<[fd |-> f, res |-> ring[1].res]>>
    /\ ring' = Tail(ring)
    /\ pc' = "complete"
    /\ cur' = 0
    /\ raced' = (raced /\ evfd > 0)
    /\ UNCHANGED <<memory, lists, pending, inflight, evfd, rfds>>

\* io_getevents(ioctx, 1, 32, ev, NULL) waits for a first completion and then
\* returns what there is, at most MaxEvents.  The descriptor of a completion
\* is read through its iocb, which is part of the watch: for a watch that has
\* been freed it can be anything.
GetEvents ==
    /\ pc = "getevents"
    /\ ring # <<>>
    /\ LET n == IF Len(ring) < MaxEvents THEN Len(ring) ELSE MaxEvents
       IN  /\ \E g \in [1..n -> Fd] :
                /\ \A i \in 1..n : ring[i].obj \in linked =>
                                       g[i] = aio_watches[ring[i].obj].fd
                /\ events' = [i \in 1..n |-> [fd |-> g[i], res |-> ring[i].res]]
           /\ ring' = SubSeq(ring, n + 1, Len(ring))
    /\ pc' = "complete"
    /\ cur' = 0
    /\ raced' = (raced /\ evfd > 0)
    /\ UNCHANGED <<memory, lists, pending, inflight, evfd, rfds>>

\* The completions that watch w takes for its own, by descriptor.
Hits(w) == {i \in 1..Len(events) : events[i].fd = aio_watches[w].fd}

\* The watches the completion walk still has to serve.
ToComplete == {w \in linked : w > cur /\ Hits(w) # {}}

\* EAGAIN is passed over, leaving pending_aio as it is.
Passed(w) == {i \in Hits(w) : events[i].res = "eagain"}

\* assert(w->pending_aio) fails: nothing is pending, or a completion follows
\* the one that cleared it.
Asserts(w) ==
    \/ pending[w] = NoMbuf
    \/ \E i \in Hits(w) \ Passed(w), j \in Hits(w) : i < j

CompleteNext(w) ==
    /\ pc = "complete"
    /\ IsFirst(w, ToComplete)
    /\ cur' = w

CompleteAbort(w) ==
    /\ CompleteNext(w)
    /\ Asserts(w)
    /\ pc' = "abort"
    /\ UNCHANGED <<memory, lists, pending, kernel, rfds, events>>

CompleteEagain(w) ==
    /\ CompleteNext(w)
    /\ ~Asserts(w)
    /\ Passed(w) = Hits(w)
    /\ UNCHANGED <<memory, lists, pending, kernel, pc, rfds, events>>

CompleteWrite_NoFlowDec(w) ==
    /\ CompleteNext(w)
    /\ ~Asserts(w)
    /\ Passed(w) # Hits(w)
    /\ aio_watches[w].is_write
    /\ charge' = [charge EXCEPT ![pending[w]] = Unallocated]
    /\ pending' = [pending EXCEPT ![w] = NoMbuf]
    /\ UNCHANGED <<queue, packets, lists, kernel, pc, rfds, events>>

\* aio_complete of a write watch: watch_free_write_aio.
CompleteWrite(w) ==
    /\ CompleteNext(w)
    /\ ~Asserts(w)
    /\ Passed(w) # Hits(w)
    /\ aio_watches[w].is_write
    /\ packets' = flow_dec(charge[pending[w]])
    /\ charge' = [charge EXCEPT ![pending[w]] = Unallocated]
    /\ pending' = [pending EXCEPT ![w] = NoMbuf]
    /\ UNCHANGED <<queue, lists, kernel, pc, rfds, events>>

CompleteDone ==
    /\ pc = "complete"
    /\ ToComplete = {}
    /\ pc' = "dispatch"
    /\ cur' = 0
    /\ events' = <<>>
    /\ UNCHANGED <<memory, lists, pending, kernel, rfds>>

\* The read watches the dispatch walk still has to serve.
ToDispatch == {r \in rlinked : read_watches[r] \in rfds}

\* A callback runs for descriptor fd, the next one in list order.
Dispatch(fd) ==
    /\ pc = "dispatch"
    /\ \E r \in ToDispatch : IsFirst(r, ToDispatch) /\ fd = read_watches[r]

DispatchDone ==
    /\ pc = "dispatch"
    /\ ToDispatch = {}
    /\ pc' = "submit"
    /\ cur' = 0
    /\ rfds' = {}
    /\ UNCHANGED <<memory, lists, pending, kernel, events>>

WatchInit(reads, writes) ==
    /\ packets = [f \in Flow |-> 0]
    /\ read_watches = reads
    /\ rlinked = 1..Len(reads)
    /\ aio_watches = [i \in 1..Len(writes) |->
                         [fd |-> writes[i], is_write |-> TRUE]]
    /\ linked = 1..Len(writes)
    /\ pending = [i \in 1..Len(writes) |-> NoMbuf]
    /\ inflight = {}
    /\ ring = <<>>
    /\ evfd = 0
    /\ raced = FALSE
    /\ pc = "submit"
    /\ cur = 0
    /\ rfds = {}
    /\ events = <<>>

MemoryTypeOK ==
    /\ queue \in [Fd -> Seq(Mbuf)]
    /\ charge \in [Mbuf -> Flow \cup {NoFlow, Unallocated}]
    /\ packets \in [Flow -> Nat]

ListTypeOK ==
    /\ read_watches \in Seq(Fd)
    /\ rlinked \subseteq 1..Len(read_watches)
    /\ aio_watches \in Seq([fd : Fd, is_write : BOOLEAN])
    /\ linked \subseteq 1..Len(aio_watches)
    /\ pending \in Seq(Mbuf \cup {NoMbuf})
    /\ Len(pending) = Len(aio_watches)

KernelTypeOK ==
    /\ inflight \subseteq 1..Len(aio_watches)
    /\ ring \in Seq([obj : 1..Len(aio_watches), res : Results])
    /\ evfd \in Nat
    /\ raced \in BOOLEAN

LoopTypeOK ==
    /\ pc \in PC
    /\ cur \in Nat
    /\ rfds \subseteq Fd
    /\ events \in Seq([fd : Fd, res : Results])
=============================================================================
