# A TLA+ model of the DIAG router

`diag-router` (`src/router/`) passes diagnostic packets between the host and the
subsystems of a Qualcomm SoC. It is one single-threaded process around a
hand-written event loop that mixes `select()`, Linux AIO, an eventfd and timers.
What is hard in it is not any one function: it is the order in which descriptors
become readable, requests complete, clients and peripherals come and go, and what
the loop's lists look like while that happens. This project models that.

## 1. Inventory

| Part | Source | State | Operations | Talks to |
|---|---|---|---|---|
| Event loop | `watch.c` | `read_watches`, `aio_watches`, each watch's `pending_aio`, timers, AIO context, eventfd | add and remove watches, submit, select, complete, dispatch; flow counters | everything registers callbacks with it |
| Buffers | `mbuf.c`, `diag.c` | mbufs, each with a `flow` | `mbuf_alloc`, `queue_push_flow` | queues are drained by AIO watches |
| DM clients | `dm.c` | `diag_clients`, `enabled`, `outq`, `encode_type`, recovery flag, counter and timer | add, enable, disable, receive, send, broadcast | command dispatch, queues |
| Transports | `unix.c`, `usb.c`, `socket.c`, `uart.c` | one descriptor per DM; USB: endpoints and `outq` | accept, ep0 events, bulk receive | DM clients, loop |
| QRTR peripherals | `peripheral-qrtr.c` | control, command, data socket; `cntl_open`, `data_open`; queues; flow | packets, BYE, NEW/DEL_SERVER | broadcast, control channel |
| RPMSG peripherals | `peripheral-rpmsg.c`, `peripheral.c` | device nodes, channel descriptors, open timer | udev add and remove, delayed open, receive, close | the same |
| Control channel | `diag_cntl.c` | `diag_cmds`, `features`, `diag_ids` and the id counter | register, deregister, features, diag id, masks, modes | peripherals, dispatch |
| Dispatch | `router.c` | `common_cmds`, `fallback_cmds` | match a command, forward or answer | DMs, peripherals |
| Masks | `masks.c`, `common_cmds.c` | log, message, event masks with their status | get, set, toggle, broadcast to peripherals | DMs, control channel |
| Framing | `hdlc.c`, `circ_buf.c` | decoder, circular buffer | encode, incremental decode | UART, USB, RPMSG |
| Answers | `app_cmds.c` | encoding switch | version, build id, keep-alive, diag ids | DMs |
| Tool | `tools/send_data.c` | none | write a frame, print answers | a client of the router |

Hard behaviours: a completion arriving for a watch that is gone; a full socket
buffer; more completions than one fetch returns; a peripheral blocked by its
watermark that nobody unblocks; clients that close with commands or packets
unread; a USB host that is unplugged in mid-transfer and comes back; peripherals
that restart without saying so; streams cut at any byte by packets, reads and the end
of a circular buffer; one DM switching the encoding of all others. `PROJECT.json` lists these hazards one by one,
each at its line, with the property that would notice.

## 2. Modules

    Watch ---- Router ---- MCRouter           (TLC)
                 |  \----- RouterProofs --- AioProofs   (TLAPS)
                 |                              |
             Broadcast ------------------ BroadcastProofs
             (what Router implements)

    Cntl ----- Peripherals ---- MCPeripherals (TLC)
                   \----------- PeripheralsProofs (TLAPS)

    Masks ---- MCMasks                       (TLC)
       \------ MasksProofs                   (TLAPS)

    Hdlc ----- HdlcProofs                     (TLAPS)
     | \           \
     |  \----- DataChannel ---- MCDataChannel (TLC)
     |             \----------- DataChannelProofs, with HdlcProofs (TLAPS)
     \-------- Encoding ------- MCEncoding    (TLC)
                   \----------- EncodingProofs, with HdlcProofs (TLAPS)

**Watch** is the mechanism of `watch.c` together with the buffers it moves. A
watch is a position in `read_watches` or `aio_watches`; `rlinked` and `linked` are
the watches still on their lists, so a freed watch is a position that is no longer
linked and the kernel may still refer to it. `pending` is `pending_aio`; `charge`
is `mbuf->flow`, or `Unallocated`. One pass of `watch_run` is cut where the kernel
or another party can interfere: every `io_submit` (`SubmitSync`, `SubmitAsync`,
`SubmitRefused`), `select` (`Select`), the read of the eventfd (`ReadEventfd`),
`io_getevents` (`GetEvents`), one watch's completions (`CompleteWrite`,
`CompleteEagain`, `CompleteAbort`, and Router's `diag_ffs_recv`), one callback
(`Dispatch` in each handler). `CompleteAbort` is the failed
`assert(w->pending_aio)`. `raced` is a history variable: a completion was posted between
a read of the eventfd and its `io_getevents`, and the count it left may still be there.

**Router** adds the callbacks: `unix_listen`; `dm_recv_raw` read by read
(`DmRecv`, `DmRecvCommand`, `DmRecvEagain`, `DmRecvEof`, `DmRecvError`), because a
client can send or close between two reads; `ep0_recv`; `diag_ffs_recv`;
`qrtr_data_recv` and `qrtr_cmd_recv`. It adds the environment: clients, the host,
QRTR and its name server. What the kernel does is modelled from how the code uses
it and marked external in the map:

* a write to a socket completes inside `io_submit`, with EAGAIN when the buffer is
  full (clients of `Slow`), an error when the peer is gone; a reset is reported once,
  to whichever call comes first;
* FunctionFS requests complete later; `bulk_out` is `O_NONBLOCK` and gives EAGAIN
  without host, `bulk_in` is not and blocks `io_submit`; ep0 reports only the
  latest of ENABLE and DISABLE;
* a server may be announced again without its end (`Budget["again"]`), as when it
  registers anew or is found on another node;
* the descriptor in a completion is read through the `iocb` inside the watch: if the
  watch has been freed it is any descriptor.

Payload is abstracted away: a buffer is an address and a charge, a command is a
member of `Command` with the set of peripherals it is registered for (`Route`), a
packet of a peripheral is one of the kinds its handler tells apart.

**Broadcast** is what the router promises its DMs: a packet enters the channels of
all listening DMs in one step, leaves each in order and once, and a peripheral over
the watermark does not send. Router implements it with `chan` mapped to the pending
buffer followed by the queue.

**Cntl** holds the operations of `diag_cntl.c` and the lookup of `router.c`:
registration and deregistration of command ranges, feature negotiation, diag ids,
what they queue for a peripheral, and which queue a DM's request goes to.
`diag_cmds` is a bag, since the order of the list only decides the order of
`peripheral_send` calls. Mask packets are opaque here: where the code queues one the
model does; Masks has their contents.

**Peripherals** drives these operations: `qrtr_cntl_recv`, `rpmsg_perif_cntl_recv`
and then `diag_cntl_recv`, one step per command of the packet;
`peripheral_udev_update` with `devnode_add`, `devnode_remove` and
`peripheral_create`; the open timer (`peripheral_open`, enabled only when nothing is
ready to read, as in `watch_run`); the read errors that end in `perif_rpmsg_close`
(`ChannelError`, one per channel); DM commands; the write watches, one step per
packet. Of the loop only the passes are kept: `Select` collects what is
ready, and each of those descriptors gets one callback (`Callback`) before the next
`Select`, so a channel that failed is closed in the pass that reads the udev event of
its removal. No callback starts while a packet is being parsed (`Busy`).
`ChannelError` has one extra outcome, `crashed`: the loop has saved the next watch
before it calls a handler, and a close frees the watches of all channels, so the loop
may go on in freed memory.

The environment is a subsystem per peripheral that boots, sends the packets of its
`Script`, goes down and boots again. When an RPMSG subsystem goes down its open
channels lose their endpoint (`dead`); a new boot announces its nodes whether or not
the router has noticed. A QRTR subsystem says BYE in order with its packets.

**Masks** has the tables of `masks.c`, one action per command of `common_cmds.c` that
sets a mask or sends one (`SetMsgMask`, `SetAllMsgMask`, `SetLogMask`, `GetLogMask`,
`DisableLog`, `SetEventMask`, `ToggleEvents`), the packets of `diag_cntl.c` and the two
occasions on which a peripheral is sent all message masks (`Open`, `AnswerFeatures`).
`view` is what a subsystem was told, packet by packet, `Unset` where it was told
nothing. The bounds of a message mask entry follow `diag_cmd_set_msg_mask` branch by
branch, with the size of the buffer (`allocated`); the lookups that set (`Sets`) and
get (`Gets`) are kept apart because the code's are different; the range a broadcast
shares is moved by each lookup (`Moved`). Widths matter where the code narrows: an
equipment id is 32 bits in a request, 8 in the table and in a packet, and the answer
it is taken from for the broadcast is half written when a mask has fewer than four
bytes (`Answered`); `memset` repeats the low byte of a word (`Filled`). Three
outcomes are the code's undefined behaviour: SET_ALL_MSG_MASK with a word that
enables messages reads a NULL range if there is a peripheral (`crashed`), a copy past
the end of a buffer may end the process (`Survives`), and the bytes of an answer that
were never written are any bytes. Such copies are the writes of a request that was cut
and the reads of every lookup of a range whose buffer a request has left shorter than
the one it was given first (`Overreads`), by a request, by a peripheral that opens or
negotiates, or by GET_MSG_MASK (`GetMsgMask`). Masks outside `ssid_first..ssid_last` are stored by the code
and never shown, so the model leaves them out. Other commands that only read are no
actions. Allocations do not fail.

Peripherals appear in Masks only as those with a control channel; how they come and
go is in Peripherals.

**Hdlc** is byte-level and has no state: `circ_buf.h` (`CIRC_SPACE`,
`CIRC_SPACE_TO_END`), the read into the ring (`Filled`) and the step of its tail
(`Advanced`), the CRC with its table computed from the polynomial, `hdlc_encode`, the
incremental `hdlc_decode_one` with a decoder that keeps what it has seen of a frame
(`Take` is one byte of it, `Fed` the bytes up to an end), and `nhdlc_frame`. `Run` says
what a stream of bytes means without any buffer, byte by byte: the frames that have ended
and the decoder behind them. A message is two bytes shorter than its frame, so its length can be
-1 (`msglen`), which is a crash where it is used; the CRC of what is received is not
looked at, as in the code.

**DataChannel** is `diag_data_recv` of an RPMSG peripheral: `circ_read` read by read,
`hdlc_decode_one` message by message, or `diag_data_recv_raw` when the router encodes;
and `diag_cmd_recv`, whose buffer is on the stack and keeps the bytes of earlier packets
(`stack`) and takes `CMD_SIZE` bytes of a packet (`Taken`). The loop reads the data
channel only while the flow of the peripheral is not blocked (`Blocked`): each message
charges it a buffer for every DM (`dm_broadcast`), and `Drain` is what Router has in
detail, the DMs that are sent these buffers, now or later or never. A failed read there is followed by the frame checks on what the buffer
holds: the old bytes, or nothing of use. The subsystem cuts its stream into packets as
it likes, may start a frame with an end marker, goes down and boots again. The channel
keeps packets apart, so a read shorter than its packet loses the rest (`cuts`).
`Messages`, the messages of `Run`, is the reference the decoder is compared with.
`missed` counts the end markers in what was lost. Peripherals has the other half of a restart (devices,
timers, lists); here `Reopen` is only the cleared peripheral.

**Encoding** is how DMs are read and answered. `dm_recv_encoded` is cut at every read
of `circ_read`, since streams go on growing meanwhile; `dm_recv_hdlc` frame by frame;
`dm_recv_nhdlc` looks for its packet at the start of the buffer wherever the tail is,
as the code does, and handles a bad packet like a good one after starting the recovery.
`Response` is the table of `app_cmds.c` with its length checks. `HDLC_DISABLE` is
answered in the encoding it came in and switches all encoded DMs. Three kinds of
transport differ: a stream (TCP, UART) has one buffer for ever, each USB transfer gets a
fresh one, a UNIX client is not encoded. A UART's descriptor is blocking and gives four
bytes or more; an error from a callback removes the read watch (`linked`); a TCP
connection that ended stays readable. A timer runs only when `select()` has nothing to
report (`Timer`); `others` says whether a descriptor that is no DM's (the eventfd, ep0,
those of peripherals) is readable, which comes and goes. The hosts talk one command at a time and follow the answer to
`HDLC_DISABLE`; the router's queue keeps a bounded number of answers, since what is
beyond it changes nothing in the router.

## 3. Runs

| Run | Instance | Shows |
|---|---|---|
| `unix` | 2 clients (one slow), 1 peripheral, 1 command, 1 close or reset, 1 refused submission; fair | `FlowBalanced`, `FlowBound`, `Ownership`, `NoDangling`, `PendingIsOutstanding`; `BroadcastSpec`; `DataServed`, `BuffersFreed`, `CommandsServed` |
| `qrtr` | 1 client, 1 peripheral: 3 server events, 1 answer, 1 other packet, 1 command | `AssertHolds` |
| `qrtr_again` | 1 client, a server announced twice | violated: the assertion of `watch.c:404` |
| `usb` | the host plugged twice, 1 command | `Ownership`, `NoStranded`, `GetEventsReturns`; `BroadcastSpec` |
| `usb_assert` | as `usb` | violated: the assertion of `watch.c:404` |
| `rpmsg` | an RPMSG subsystem with command channel that boots twice, 1 command, 1 failing or unknown QRTR packet; fair | `NoStale`, `RegistryExact`, `FeaturesAgree`; `RestartsServed`, `CntlDrained` |
| `subsystems` | RPMSG without command channel and QRTR that boots twice: overlapping ranges, four processes, ids in versions 1 to 3, 1 command | `RegistryExact`, `QueueHasChannel`, `IdsAgree` |
| `rpmsg_restart` | an RPMSG subsystem that boots twice; fair | violated: routing to a running subsystem |
| `masks` | 2 peripherals, 2 ranges of message ids, 2 equipment ids, 2 commands | `ToldMasksKept`, `MsgMasksCurrent`, `LogMasksCurrent`, `EventMasksCurrent` |
| `data` | messages that need escapes, a buffer of 8 bytes, packets of any length up to 8, 4 answers of which one is cut short and one is longer than a read, a watermark that each message passes, 2 boots; fair | `InOrder`, `AnswersIntact`, `DecoderInBounds`, `Resynchronises`; `AllDecoded` |
| `encoding` | hosts on USB, TCP, UART and UNIX, buffers of 16 bytes, 3 commands, 1 connection that ends, other descriptors; fair | `RecoveryArmed`, `OneEncoding`, `CommandsIntact`; `RecoveryEnds` |
| `masks_open` | 1 peripheral, 2 commands | violated: "Send current message mask to the newly found peripheral" |

The violations are disagreements between the code and its own text:

* **`usb_assert`**: each FUNCTIONFS_ENABLE adds a watch on `bulk_out`; after the
  second one a completion is claimed by both watches and the assertion aborts the
  router.
* **`rpmsg_restart`**: `peripheral_open` runs once. If the subsystem is down by then,
  a peripheral without channels stays on the list, and the next boot's data channel
  is taken for one that is already served. `RestartsServed`, in `rpmsg`, shows that
  nothing else keeps a running subsystem from being served.
* **`qrtr_again`**: each NEW_SERVER adds a write watch for the command socket and only
  DEL_SERVER removes one; announced twice, a server has two, and a completion of one is
  claimed by both.
* **`masks_open`**: a request may extend a range of message ids over the start of the
  next (4550-4650 in 4500-4573, before 4600). `diag_cmd_get_msg_mask` then finds the
  first entry for the second one's ids, so a new peripheral never gets the masks of the
  second, and changes of it are broadcast as the first.

`MsgMasksCurrent` holds until that happens (`reached`). `LogMasksCurrent` excepts the
equipment ids for which the last broadcast missed the table (`astray`): requests for
fewer than 25 items, or with an id beyond 8 bits. A peripheral is told log and event
masks only when they change, so `Unset` stays allowed for what was set before it
came.

`RegistryExact` excepts QRTR peripherals after a restart: BYE does not remove their
registrations, so they are registered a second time and requests are sent twice.

`usb` checks no assertion because of `usb_assert`, and `qrtr` announces each server once
because of `qrtr_again`. Other properties name what the code does not do:

* `Ownership` has two parts. `OneOwner`: an allocated buffer is in one queue or pending on
  one watch of the list, a freed one nowhere; a watch that is freed with a buffer pending
  leaks it (`Leaks`, `watch.c:244`). `OnlySlowLeak`: that happens only to a client whose
  write met EAGAIN and which then closed. Each such client costs the heap a buffer and its
  peripheral a packet of its watermark, for ever; `FlowBalanced` still holds, as the leaked
  buffer keeps its charge.
* `GetEventsReturns` excepts `raced`. With the gadget a completion may come between the
  read of the eventfd and `io_getevents`. That call fetches it, its count stays, and the
  next wake-up finds nothing: the loop sleeps in `io_getevents`, with every descriptor
  unserved, until the next USB request completes, and for ever if the host takes and sends
  nothing more. `usb` shows that this is the only way.
* `PendingIsOutstanding` excepts descriptors on which a write may give EAGAIN: that
  completion is skipped with `continue` (`watch.c:406`), so the watch stays pending with
  nothing outstanding and is never submitted again.
* `DataServed` and `BuffersFreed` except a DM that is `Undrained` from some time on. There
  are three ways to it, all in the run: end of file removes the watches but not the DM
  (`Detached`, `dm.c:123`); a write of a connected client met EAGAIN (`Stalled`,
  `watch.c:406`); a submission was refused and no descriptor wakes the loop to try again
  (`Asleep`, `watch.c:371`). The queue then grows at the peripheral's expense until that is
  blocked for all DMs. The properties say that there is no fourth way.
* `FlowBound` is about QRTR, whose callback takes one packet. `diag_data_recv` of RPMSG
  reads until EAGAIN and passes the watermark by as many messages as it finds.
* `AllDecoded` excepts a peripheral that stays blocked by its flow, a read that ended where
  the buffer does, and frames that start with an end marker: the decoder takes the empty
  frame for the end of its input. In the second case `circ_read` reads again and returns
  the EAGAIN of that, although its comment says "0 if fifo is full or fd depleted"
  (`circ_buf.c:42`); `diag_data_recv_hdlc` gives up, and whole frames wait in the buffer for
  the next packet.
* `InOrder` and `DecoderInBounds` hold while no packet has lost its end (`cuts = 0`);
  `Resynchronises` says what a loss costs (one message damaged at most, and one lost
  besides those that end in the lost part), unless it leaves a frame of one byte
  (`crashed`).
* `AnswersIntact` is silent about the moment after a read that failed, when the old
  bytes of the buffer may be passed on once more.
* `CommandsIntact` excepts hosts whose encoding another DM, or a recovery, has switched;
  streams of which one read ended within a frame, since `dm_recv_hdlc` has a new decoder
  for every call (`dm.c:99`); and streams that gave up HDLC, on which no packet is ever
  found again (`dm.c:182`).
* `RecoveryEnds` excepts a router that waits in `read()` of a UART (a read that fills the
  buffer is followed by one that blocks), and descriptors that keep `select()` from timing
  out: a TCP connection at its end, a full buffer without HDLC, or others that become
  readable again and again. That the timer runs does not mean that the stream is read
  again: its watch may be gone.

Bounds. `unix` has two DMs and the watermark 0, so that the first packet blocks the
peripheral until both DMs have taken it; the broadcast overshoots, and an answer may queue
behind it. `usb` and `qrtr` have the watermark 1 and queues of two data packets, enough for
order to matter. `MaxEvents = 32` as
in the code, more than there are descriptors; the mutant that fetches one completion at a
time shows that the properties notice when that is not so. A
transfer on `bulk_out` carries one command here; that all frames of a buffer are handled
is in Encoding and Hdlc. `Mbuf` has four or five
addresses: watermark, overshoot, one answer or command, and the USB receive buffer
never need more, so no handler waits for memory. `MaxInbox = 1`: a second packet
can always arrive as soon as the first is read. `Budget` bounds every kind of
environment event except data. Clients are not symmetric (one is slow), so no
symmetry is used. `CHECK_DEADLOCK FALSE`: the router may sleep in `select` for ever
when nothing happens, and stops after an abort.

In `MCPeripherals` two boots are what a restart needs and one command per run shows
each queue; `MSG_MASK_TBL_CNT = 1` stands for 25 packets of the same kind. The
scripts hold two ranges in one packet, a range registered again under the other
spelling of the same key, an unknown command and a truncated one in mid-packet. The
two subsystems play different roles, so there is no symmetry.

In `MCMasks`, MAX_SSID_PER_RANGE is 3 and the ranges are 0..1 and 3..3, which has the
shape of 4500..4573 and 4600..4615 with 200: the requests for every first and last id
up to 5 include empty, exact, cut, refused and overlapping ones. Log requests of 0, 1
and 512 bytes and ids of 8 bits, of more, and of nobody are the cases the code tells
apart; event masks of 1, 2 and 3 bytes shrink, fit and grow. Two commands are what a
stale mask needs; the bounds are proved for sequences of any length. The two
peripherals are interchangeable, so `Symmetry` is sound: no value depends on which is
which and the run has no liveness property.

In `MCDataChannel` the buffer of 8 bytes is shorter than two frames, so head and tail
wrap at every place and packets are cut by the end of the buffer; the bytes 126 and 125
and a message whose CRC has an escaped byte are in the script. Three messages are what
`Resynchronises` needs (one damaged, one lost, one intact). The answers come while the
router encodes, since the two channels share nothing but the peripheral; the truncated
one is as long as the one before it, whose last byte would complete it, and one is a byte
longer than `CMD_SIZE`. `FLOW_WATERMARK = 0` and one DM block the flow after every message. Restarts and
idle markers occur once each.

In `MCEncoding` a buffer of 16 bytes ends where two frames of the UART's host do, which
makes the read that blocks happen; `DIAG_MAX_BAD_CMD = 1` lets the shared counter pass
its limit within three commands. Other descriptors are followed while a timer runs, which
is when they matter. A USB transfer is shorter than the buffer, as those of
the host are; one of exactly 16384 bytes would leave `head` equal to the size, which the
tail never reaches (`usb.c:286`), and is left out.

Fairness is `WF_vars(Loop)` in Router and `WF_vars(RouterStep)` in Peripherals,
DataChannel and Encoding: the router is one thread and is scheduled whenever it can run. Nothing is assumed of
clients, host, peripherals or subsystems.

## 4. Proofs

`RouterProofs` proves for every number of clients, peripherals and buffers, every
watermark, every routing and every budget:

* `TypeCorrect`: `Spec => []TypeOK`;
* `FlowCountersBalanced`: `Spec => []FlowBalanced`. A counter is the number of buffers charged
  to it. Pushing to a set of queues allocates as many distinct free buffers as it
  increments (`PushBalanced`, by cardinalities); completing a write frees one and
  decrements one, and the counter is then above zero, so the "unbalanced" branch of
  `watch_flow_dec` is never taken. No step in between touches either. `FlowBalanced`
  is inductive relative to `TypeOK`;
* `BacklogBounded`: `Spec => []FlowBound`. `FlowBound` is not inductive: a broadcast
  is only harmless when the flow is under the watermark, and that was tested earlier,
  in `select`. The strengthening `FlowReady` says every data socket still in `rfds`
  is under the watermark; it survives because only a peripheral's own callback
  charges its flow and that callback leaves `rfds`, so `FlowReady /\ FlowBound` is
  inductive;
* `OneOwnerAlways`: `Spec => []OneOwner`. `OneOwner` counts the places of a buffer; its
  inductive form `OwnInv` says the same without cardinalities: no two places of queues,
  no two watches, freed ones included, hold the same buffer, none is both queued and
  pending, and exactly the allocated ones are somewhere.

`AioProofs` goes on to the kernel's side. First `DmWatches`, `SocketWatches` and
`BulkOutBuffer` say which watches a descriptor can have; then `AioInv` relates them to
requests and completions: a request has one completion, everything outstanding is pending
on a watch, only endpoints of the gadget stay in flight, watches that were removed have
nothing outstanding, and what was fetched is no longer outstanding. From it:

* `IocbsStay`: `Spec => [](CompletionsFit /\ AnnouncedOnce => NoDangling)` and
  `CompletionsWake`: the same of `NoStranded`. `CompletionsFit` says that there are no more
  descriptors with write watches than `ev[]` has room for, 32 in the code. It is needed: with
  more of them one `io_getevents` leaves completions on the ring, the callbacks then free
  watches these refer to, and no wake-up is left for the rest. `AnnouncedOnce` says that a
  name server reports the end of a server before the next; without it two watches share a
  command socket (`qrtr_again`).
* `BuffersOwned`: `Spec => [](CompletionsFit /\ AnnouncedOnce => Ownership)`. To `OneOwner` it
  adds that a watch which is freed with a buffer pending was that of a slow client at its
  end, for which it needs to know that a watch without EAGAIN is pending only as long as its
  request is outstanding.
* `LoopNeverSleeps`: `Spec => []GetEventsReturns`, with the gadget and without: the eventfd
  counts at most what the ring holds unless the loop has `raced` (`CountedOnce`), and without
  the gadget nothing is in flight when `io_submit` has returned (`NoneInflight`).
* `NeverAborts` and `PassedOverIsBusy`: `AssertHolds` and `PendingIsOutstanding` for
  `CompletionsFit /\ AnnouncedOnce /\ ~UseUsb`. `WalkInv` describes the walk over the watches
  half-way: the watches before `cur` are settled, those behind it that have a completion are
  pending. Under these conditions a descriptor has at most one watch on the list; without
  them the assertion is violated, see `usb_assert` and `qrtr_again`.

`BroadcastProofs` proves `RouterImplementsBroadcast`: `Spec => BroadcastSpec`. `chan` is mapped
with a CHOOSE over the watch that has taken a buffer for the DM; `ChannelsKnown` shows
that there is at most one, so that `ChannelIs` determines the channel. Then every action
is a broadcast, a delivery or a step that leaves all channels alone; that the peripheral
of a broadcast is under the watermark is `FlowReady` again.

`PeripheralsProofs` proves, for every set of peripherals, every script of control packets
and any number of restarts:

* `PeripheralsTypes`: `Spec => []TypeOK`, with `ReadyStays` (what `select` reported is still
  readable when its callback runs) as the strengthening;
* `NothingStale`: `Spec => []NoStale` and `RequestsHaveChannel`: `Spec => []QueueHasChannel`.
  The common invariant `SessionInv` says that channels are open only for peripherals on the
  list, that one that waits for its timer has none, that without a channel there is nothing
  else either (commands, features, queues), and that REQ_RSP is agreed only if there is a
  command channel;
* `IdsForGood`: `Spec /\ []IdsFit => []IdsAgree`. `IdInv` says that no id and no name is in
  the table twice and that every id told, or in a queue, is the one of the table. `IdsFit`
  (the counter is below 256) is what the code needs and does not ensure: entries store
  eight bits and `diag_id_exists` compares 32 (`diag_cntl.c:673`);
* `FeaturesNegotiated`: `Spec => [](ScriptsNegotiate => FeaturesAgree)`. `ScriptsNegotiate`
  says that a subsystem's first command is its feature mask, as in the scripts of the
  runs; the router does not enforce it. `FeatureInv` says that a running subsystem that has
  sent something has a feature mask that is still to be read, is being read, or has been
  answered (the last feature mask in the queue, or else what it was told, is what the
  router keeps), and that one whose old channels are still open has sent nothing yet;
* `RegistryIsExact`: `Spec => []RegistryExact`, for scripts of any length. `RegistryInv` follows
  a subsystem through its script: the packets in the inbox are the last ones it has sent,
  with QRTR notices between them (`Tracks`), the commands being parsed are the end of the
  one read last (`Position`), and each entry is in the table as often as the commands looked
  at so far have registered and not deregistered it (`TableIs`). A command is later than
  all that were looked at before it, so that a registration adds its ranges to the set
  counted by `Registrations` and a deregistration empties it. `ScriptInv` says that without a
  session nothing has been sent since the boot, which is why the table starts empty.

`MasksProofs` proves for every table of disjoint ranges no longer than the limit, every
set of peripherals and requests and sequences of any length:

* `MasksStayInBounds`: `Spec => []ToldMasksKept`. The inductive invariant `BoundsInv` adds that
  the bounds are naturals; the lemma `ExtendedKept` goes through the branches of
  `diag_cmd_set_msg_mask` (cut, exactly the limit, extended), and no other command moves a
  bound. It shows that requests that are refused halfway never put a mask a peripheral is
  told out of its buffer; that all of `range_tools` is inside the buffer does not hold (see
  `crashed`);
* `MasksTypes`: `Spec => []TypeOK`;
* `EventMasksTold`, `LogMasksTold`, `MsgMasksTold`: the three `...MasksCurrent`. They speak of a
  peripheral whose queue is empty, which no step preserves by itself. `ToldInv` says what
  holds with packets in the queue: the last of them that covers a mask says its current
  value, and if none covers it the subsystem was told that, or nothing. Besides it
  `MasksInv` needs that a status other than VALID stands for one value in all masks
  (`StatusInv`), that ranges stay apart until `reached` (`ApartInv`), and that peripherals
  without a control channel have empty queues (`UnlistedInv`). A broadcast is followed
  along the list of peripherals, since each lookup moves the range the next one uses: the
  least position at which it went wrong would have a good one before it.

`HdlcProofs` proves what the circular buffer and the codec promise, for every size of
buffer and every sequence of bytes:

* `RingAppends` (a read of at most `CIRC_SPACE_TO_END` bytes appends them to what is
  unread) and `RingTakes` (moving the tail takes the oldest bytes off it). Both go by the
  two cases of `Wrap`; the condition on the space is what keeps head from passing tail, and
  with it a full buffer from being taken for an empty one;
* `DecodesFrame`: a decoder that is given `hdlc_encode(m)`, with or without an end marker
  before it, finds `m` and its CRC and is fresh again. Escapes are undone byte by byte
  (`DecodesEscaped`), and the CRC is two bytes whatever the message is (`CrcType`, from
  `XorType` and `TableType`: a number of 16 bits stays one);
* `DecodeOneTakes`: a call of `hdlc_decode_one` takes the first frame off what decoder and
  ring mean together (`Run`), and one that finds none leaves that meaning alone.

The recursive functions of Hdlc are all folds over a sequence. `FoldIs`, `FoldConcat` and
`FoldAppend` are proved once, by induction on the length of the sequence; each function is
shown to be a fold, and has its lemmas from there. Induction over sequences is stated with
a set (`SeqGrows`: a set that contains the empty sequence and is closed under `Append`
contains all sequences), since theorems with an operator as parameter cannot be used.

`DataChannelProofs` proves, for every script, every buffer and packet size and any number
of restarts:

* `DataChannelTypes`: `Spec => []TypeOK`;
* `MessagesInOrder`: `Spec => []InOrder`. The inductive invariant `Tracked` follows the stream
  instead of the messages: the decoder, the ring, the packets and what is still to be sent
  are together a stream that means the messages begun and not yet passed on, extended by
  the bytes a subsystem that went down took with it (`StreamTrack`); where the router
  encodes, packets are messages (`RawTrack`). Each step moves bytes from one part of this
  stream to the next, and `RunConcat` says that the cut does not matter;
* `DecoderStaysInBounds`: `MessagesFit => (Spec => []DecoderInBounds)`. `MessagesFit`, that each
  message and its CRC fit `raw_buf`, is what the code needs and does not check. While a
  stream means whole frames, what the decoder holds is the beginning of one of them;
* `LossesStaySmall`: `Spec => []Resynchronises`. Here the stream is read twice: by the
  router's decoder, which may be out of step, and by a decoder (`ds` in `SyncTrack`) that
  is where the subsystem is: it has missed nothing, and for it every end marker ends a
  frame, but one that stands at the start of another. `Sync` compares the two: as long as they
  differ one packet was lost that has not yet cost a message (`Credit`), and one of the two
  is in the middle of a frame while the other is not (`Gap`). The next end marker makes
  them equal, and pays with one damaged or lost message;
* `AnswersArrive`: `Spec => []AnswersIntact`. `AnswersTrack` says that what was passed on and what is
  in the channel are the first of the answers sent; what `diag_cmd_recv` takes out of its
  buffer is exactly the answer of the packet read last, although behind that the buffer
  holds older bytes, because the length in the header is compared with the packet's.

`EncodingProofs` proves, for every set of DMs and commands and every buffer size:

* `RecoveryTimersExact`: `Spec => []RecoveryArmed`;
* `EncodingsDifferOnlyInRecovery`: `Spec => []OneEncoding`;
* `EncodingTypes`: `CommandsFit => (Spec => []TypeOK)`;
* `CommandsArrive`: `CommandsFit /\ MaxAnswers >= 1 => (Spec => []CommandsIntact)`.

The first two share the inductive invariant `RecoveryInv`: the types of encodings, flags and
timers, that raw DMs stay raw, that the timers have no duplicates and are those of the
flags. `diag_start_hdlc_recovery` sets the flag with the timer, and the timer clears the
flag of its own DM while it switches everybody, after which nobody differs. The
property `OneEncoding` alone is not inductive: that a switch by `HDLC_DISABLE` leaves no
encoded DM behind needs that no encoded DM is raw.

`CommandsFit` says that a command has a length of 16 bits and that its frame is shorter than
the buffer of a USB transfer. The code relies on both: `usb.c:286` sets the head of the
buffer to the number of bytes read, which at 16384 is no index of it any more. The circular
buffers of streams need no such hypothesis. `MaxAnswers >= 1` is about the model: an answer
of which the router keeps no record could not tell the host that its encoding changes.

The inductive invariant of `CommandsArrive` is `TypeInv /\ Intact`. What is left in the buffer
of a stream and what is on its wire are together the frames of the commands that are due,
and the buffer ends where a frame does (`StreamIntact`); so a decoder that is new for every
call (`DecoderFresh`) misses nothing. A USB host is idle, has sent a command, has it read, or
has its answer under way (`UsbIntact`: `Idle`, `Sent`, `Read`, `Replied`). In the last of these
the router may have switched to the new encoding while the host has not, which is why
`CommandsIntact` alone says too little: the host sends nothing until it has read the
answer, and the answer to `HDLC_DISABLE` comes in the old encoding. The lemmas on frames are
those of `HdlcProofs` and of the length field of the other encoding (`LengthBytes`).

The assumptions are `WatchAssumption` and `RouterAssumption`: the descriptors of the
different roles are distinct, sets are finite, a flow per peripheral;
`PeripheralsAssumption` (scripts are sequences of packets of control commands);
`MasksAssumption`, which the tables of `masks.h` and the 16 bits of `num_bits` in event
requests satisfy; `HdlcAssumption` (a buffer of two bytes or more) and
`EncodingAssumption` (the kinds of transport are disjoint, and a UART returns at least one
byte: `VMIN` is 4 in `uart.c:93`). TLC evaluates them in each run.

Every invariant a passing run checks is a theorem, some under the conditions above. Only
model-checked are the four violations and the liveness properties
(`DataServed`, `BuffersFreed`, `CommandsServed`, `RestartsServed`, `CntlDrained`,
`AllDecoded`, `RecoveryEnds`): liveness under fairness is out of the prover's reach.

## 5. Not modelled yet, and the plan

The safety of what is modelled is proved. What could be added is model: the hazards listed
without a property, and the parts below.

Not modelled: the terminal and socket set-up of `uart.c` and `socket.c`, USB descriptors,
the scan of existing devices at start-up, logging and option parsing, which have no
behaviour over time; `watch_quit` and repeated timers, which the router never uses; the
unused DCI socket; the contents of answers; failing allocations; and `tools/send_data.c`,
a client that writes one frame and prints what it reads.
