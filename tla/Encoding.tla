------------------------------ MODULE Encoding ------------------------------
(***************************************************************************)
(* How DMs are read and answered: dm.c with its three encodings, the        *)
(* transports that feed it (uart.c, socket.c, the transfers of usb.c and    *)
(* the raw packets of unix.c), the commands of app_cmds.c, of which one     *)
(* switches the encoding of all DMs, and the timer that switches it back.   *)
(*                                                                         *)
(* A host is at the other end of each DM.  It sends a command when the last *)
(* one is answered, or when nothing more happens, in the encoding it has    *)
(* agreed on; it changes to the other one when the router tells it that     *)
(* HDLC is disabled.                                                        *)
(***************************************************************************)
EXTENDS Hdlc, FiniteSets, SequencesExt

CONSTANTS
    Stream,           \* DMs on a UART or a TCP connection
    Blocking,         \* those on a UART, whose descriptor is blocking
    Usb,              \* DMs on FunctionFS: every transfer comes in a buffer of its own
    Raw,              \* DMs on a UNIX socket
    VMIN,             \* 4: what a UART has to have received to be read
    DIAG_MAX_BAD_CMD, \* 5
    Cmd,              \* the commands each host may send
    MaxCommands,      \* bound on the commands of all hosts
    MaxAnswers,       \* bound on the answers kept for a DM
    MaxClosed         \* bound on TCP connections that end

Encoded == Stream \cup Usb
Dm == Encoded \cup Raw
Encode == {"RAW", "HDLC", "NHDLC"}

ASSUME EncodingAssumption ==
    /\ Blocking \subseteq Stream
    /\ Stream \cap Usb = {} /\ Encoded \cap Raw = {}
    /\ VMIN \in Nat \ {0}
    /\ {DIAG_MAX_BAD_CMD, MaxCommands, MaxAnswers, MaxClosed} \subseteq Nat
    /\ Cmd \in [Dm -> SUBSET Seq(Byte)]

VARIABLES
    encode_type,        \* dm->encode_type
    encode_hdlc_reset,  \* dm->encode_hdlc_reset
    bad_cmd_counter,
    timers,             \* the DMs diag_hdlc_reset will be called for, in order
    recv_buf,           \* dm->recv_buf; of a USB DM the buffer of its last transfer
    recv_decoder,       \* of dm_recv_hdlc, for one call
    linked,             \* DMs whose read watch is on its list
    pc, serving, rfds,  \* where watch_run is, for which DM, and who is to follow
    outq,               \* frames on their way to the hosts
    wire,               \* bytes on their way from the hosts of streams
    xfer,               \* transfers and packets from the other hosts
    gone,               \* how connections have ended
    host,               \* the encoding each host uses
    sent,               \* commands sent by all hosts
    waiting,            \* hosts that wait for an answer
    others,             \* is a descriptor readable that is no DM's?
    due,                \* history: commands of each host that were not handled yet
    garbled,            \* history: DMs of which something else was handled
    split,              \* history: streams of which a read ended within a frame
    surprised,          \* history: DMs whose encoding was changed by others
    confused            \* history: hosts that got a frame in the other encoding

dms == <<encode_type, encode_hdlc_reset, bad_cmd_counter, timers>>
input == <<recv_buf, recv_decoder>>
loop == <<pc, serving, rfds>>
commands == <<due, garbled>>
hosts == <<host, sent, waiting, others>>
history == <<split, surprised, confused>>
vars == <<dms, input, linked, loop, outq, commands, wire, xfer, gone, hosts,
          history>>

NoDm == "none"

Least(a, b) == IF a <= b THEN a ELSE b

\* dm_add for every DM.
Init ==
    /\ encode_type = [d \in Dm |-> IF d \in Encoded THEN "HDLC" ELSE "RAW"]
    /\ encode_hdlc_reset = [d \in Dm |-> FALSE]
    /\ bad_cmd_counter = 0
    /\ timers = <<>>
    /\ recv_buf = [d \in Encoded |-> FreshRing]
    /\ recv_decoder = FreshDecoder
    /\ linked = Stream
    /\ pc = "select" /\ serving = NoDm /\ rfds = {}
    /\ outq = [d \in Dm |-> <<>>]
    /\ wire = [d \in Stream |-> <<>>]
    /\ xfer = [d \in Usb \cup Raw |-> <<>>]
    /\ gone = [d \in Stream |-> "no"]
    /\ host = encode_type
    /\ sent = 0
    /\ due = [d \in Dm |-> <<>>] /\ garbled = {}
    /\ waiting = {}
    /\ others = FALSE
    /\ split = {} /\ surprised = {} /\ confused = {}

-----------------------------------------------------------------------------
(* Commands.                                                               *)

Disable == <<75, 18, 24, 2>>

\* The fallback commands of app_cmds.c and the error answers of
\* diag_client_handle_command.  diag_cmd_dispatch finds a command by the first
\* bytes at ptr, whether or not they are part of the message.
Response(ptr, len) ==
    CASE IsPrefix(<<28>>, ptr)             -> "version"
      [] IsPrefix(<<0>>, ptr)              -> "version_no"
      [] IsPrefix(<<124>>, ptr)            -> IF len = 1 THEN "build_id" ELSE "bad_length"
      [] IsPrefix(<<75, 50, 3, 0>>, ptr)   -> "keep_alive"
      [] IsPrefix(<<75, 18, 34, 2>>, ptr)  -> IF len >= 5 THEN "diag_id" ELSE "bad_length"
      [] IsPrefix(Disable, ptr)            -> IF len >= 4 THEN "hdlc_disabled"
                                                          ELSE "bad_length"
      [] OTHER                             -> "bad_command"

\* What a handler can answer.
Responses ==
    {"version", "version_no", "build_id", "keep_alive", "diag_id", "hdlc_disabled",
     "bad_length", "bad_command"}

set_encode_type(types, type) ==
    [d \in Dm |-> IF types[d] = "RAW" THEN "RAW" ELSE type]

\* dm_send_flow: a frame is encoded when it is queued.
Answered(types, d, rsp) ==
    IF Len(outq[d]) < MaxAnswers
    THEN [outq EXCEPT ![d] = Append(@, [enc |-> types[d], rsp |-> rsp])] ELSE outq

\* The encodings after a command; it changes those of the other DMs too.
Switched(types, rsp) ==
    IF rsp = "hdlc_disabled" THEN set_encode_type(types, "NHDLC") ELSE types

\* Is the command handled now the next one its host has sent?
Note(d, m) ==
    IF due[d] # <<>> /\ Head(due[d]) = m /\ d \notin garbled
    THEN due' = [due EXCEPT ![d] = Tail(@)] /\ UNCHANGED garbled
    ELSE due' = [due EXCEPT ![d] = <<>>] /\ garbled' = garbled \cup {d}

diag_client_handle_command_Early(types, d, ptr, len) ==
    LET rsp   == Response(ptr, len)
        after == Switched(types, rsp)
    IN  /\ outq' = Answered(after, d, rsp)
        /\ encode_type' = after
        /\ Note(d, SubSeq(ptr, 1, Least(len, Len(ptr))))
        /\ surprised' = surprised
               \cup {e \in Encoded \ ({d} \cap Usb) : after[e] # types[e]}

\* diag_client_handle_command for a DM, with the encodings at that time.  The
\* answer to HDLC_DISABLE still goes out in the old encoding.
diag_client_handle_command(types, d, ptr, len) ==
    LET rsp   == Response(ptr, len)
        after == Switched(types, rsp)
    IN  /\ outq' = Answered(types, d, rsp)
        /\ encode_type' = after
        /\ Note(d, SubSeq(ptr, 1, Least(len, Len(ptr))))
        /\ surprised' = surprised
               \cup {e \in Encoded \ ({d} \cap Usb) : after[e] # types[e]}

-----------------------------------------------------------------------------
(* watch_run.                                                              *)

\* A connection that has ended stays readable.
Readable ==
    {d \in linked : \/ wire[d] # <<>> /\ (d \in Blocking => Len(wire[d]) >= VMIN)
                    \/ gone[d] # "no"}
    \cup {d \in Usb \cup Raw : xfer[d] # <<>>}

Select ==
    /\ pc = "select"
    /\ Readable # {}
    /\ rfds' = Readable
    /\ pc' = "dispatch"
    /\ UNCHANGED <<dms, input, linked, serving, outq, commands, wire, xfer, gone, hosts,
                   history>>

DispatchDone ==
    /\ pc = "dispatch"
    /\ rfds = {}
    /\ pc' = "select"
    /\ UNCHANGED <<dms, input, linked, serving, rfds, outq, commands, wire, xfer, gone,
                   hosts, history>>

diag_hdlc_reset_Own(d) ==
    /\ encode_type' = [encode_type EXCEPT ![d] = "HDLC"]
    /\ encode_hdlc_reset' = [encode_hdlc_reset EXCEPT ![d] = FALSE]
    /\ surprised' = surprised \cup {d}

diag_hdlc_reset_KeepFlag(d) ==
    /\ encode_type' = set_encode_type(encode_type, "HDLC")
    /\ UNCHANGED encode_hdlc_reset
    /\ surprised' = surprised \cup {e \in Encoded : encode_type[e] # "HDLC"}

diag_hdlc_reset(d) ==
    /\ encode_type' = set_encode_type(encode_type, "HDLC")
    /\ encode_hdlc_reset' = [encode_hdlc_reset EXCEPT ![d] = FALSE]
    /\ surprised' = surprised \cup {e \in Encoded : encode_type[e] # "HDLC"}

\* A timer runs when select() has timed out, which it only does when nothing is
\* readable, of DMs or of others.
Timer ==
    /\ pc = "select"
    /\ Readable = {} /\ ~others
    /\ timers # <<>>
    /\ diag_hdlc_reset(Head(timers))
    /\ timers' = Tail(timers)
    /\ UNCHANGED <<bad_cmd_counter, input, linked, loop, outq, commands, wire, xfer, gone,
                   hosts, split, confused>>

Serve(d) ==
    /\ pc = "dispatch"
    /\ d \in rfds
    /\ rfds' = rfds \ {d}

\* A host sends its next command when the last one was read, so that there is one
\* packet to read.
dm_recv_raw(d) ==
    /\ Serve(d) /\ d \in Raw
    /\ diag_client_handle_command(encode_type, d, Head(xfer[d]), Len(Head(xfer[d])))
    /\ xfer' = [xfer EXCEPT ![d] = Tail(@)]
    /\ UNCHANGED <<encode_hdlc_reset, bad_cmd_counter, timers, input, linked, pc, serving,
                   wire, gone, hosts, split, confused>>

\* A transfer, which is shorter than the buffer, starts one of its own.
diag_ffs_recv(d) ==
    /\ Serve(d) /\ d \in Usb
    /\ recv_buf' = [recv_buf EXCEPT ![d] = Filled(FreshRing, Head(xfer[d]))]
    /\ xfer' = [xfer EXCEPT ![d] = Tail(@)]
    /\ pc' = "decode" /\ serving' = d
    /\ UNCHANGED <<dms, recv_decoder, linked, outq, commands, wire, gone, hosts,
                   history>>

dm_recv_encoded(d) ==
    /\ Serve(d) /\ d \in Stream
    /\ pc' = "circ_read" /\ serving' = d
    /\ UNCHANGED <<dms, input, linked, outq, commands, wire, xfer, gone, hosts, history>>

\* diag_uart_open leaves its descriptor blocking: a read waits for VMIN bytes.
ReadsAtLeast(d, space) == IF d \in Blocking THEN Least(VMIN, space) ELSE 1

\* A read of circ_read: what of the stream has come.  It is repeated if it filled
\* the space.
circ_read ==
    LET d     == serving
        space == CIRC_SPACE_TO_END(recv_buf[d])
    IN  /\ pc = "circ_read"
        /\ space # 0
        /\ \E n \in ReadsAtLeast(d, space)..Least(space, Len(wire[d])) :
              /\ recv_buf' = [recv_buf EXCEPT ![d] = Filled(@, SubSeq(wire[d], 1, n))]
              /\ wire' = [wire EXCEPT ![d] = SubSeq(@, n + 1, Len(@))]
              /\ pc' = IF n = space THEN "circ_read" ELSE "decode"
              /\ split' = IF wire[d][n] = NHDLC_CONTROL_CHAR THEN split
                                                             ELSE split \cup {d}
        /\ UNCHANGED <<dms, recv_decoder, linked, serving, rfds, outq, commands, xfer, gone,
                       hosts, surprised, confused>>

\* No space, EAGAIN or the end of the connection.
circ_read_Done ==
    /\ pc = "circ_read"
    /\ \/ CIRC_SPACE_TO_END(recv_buf[serving]) = 0
       \/ /\ serving \notin Blocking
          /\ wire[serving] = <<>> /\ gone[serving] # "reset"
    /\ pc' = "decode"
    /\ UNCHANGED <<dms, input, linked, serving, rfds, outq, commands, wire, xfer, gone,
                   hosts, history>>

\* The error of a reset connection makes watch_run drop the read watch, whatever
\* was read before it.
circ_read_Error ==
    /\ pc = "circ_read"
    /\ CIRC_SPACE_TO_END(recv_buf[serving]) # 0
    /\ wire[serving] = <<>> /\ gone[serving] = "reset"
    /\ linked' = linked \ {serving}
    /\ pc' = "dispatch"
    /\ UNCHANGED <<dms, input, serving, rfds, outq, commands, wire, xfer, gone, hosts,
                   history>>

-----------------------------------------------------------------------------
(* dm_decode_data.                                                         *)

\* dm_recv_hdlc has a decoder of its own.
dm_recv_hdlc ==
    /\ pc = "decode"
    /\ encode_type[serving] = "HDLC"
    /\ recv_decoder' = FreshDecoder
    /\ pc' = "hdlc"
    /\ UNCHANGED <<dms, recv_buf, linked, serving, rfds, outq, commands, wire, xfer, gone,
                   hosts, history>>

\* It handles frames until there is none, also when one of them was
\* HDLC_DISABLE.  A frame of one byte has a message of no possible length.
DecodeOne ==
    /\ pc = "hdlc"
    /\ \E one \in {hdlc_decode_one(recv_decoder, recv_buf[serving])} :
          /\ recv_buf' = [recv_buf EXCEPT ![serving] = one.ring]
          /\ recv_decoder' = one.dec
          /\ IF one.found /\ msglen(one.raw) >= 0
             THEN /\ diag_client_handle_command(encode_type, serving, one.raw,
                                                msglen(one.raw))
                  /\ UNCHANGED pc
             ELSE /\ pc' = IF one.found THEN "crashed" ELSE "dispatch"
                  /\ UNCHANGED <<outq, encode_type, commands, surprised>>
    /\ UNCHANGED <<encode_hdlc_reset, bad_cmd_counter, timers, linked, serving, rfds, wire,
                   xfer, gone, hosts, split, confused>>

\* The packet is taken from the start of the buffer, wherever the tail is, and
\* the tail stays.
PktLength(buf) == buf[2] + 256 * buf[3]
PktData(buf) == [i \in 1..(HDLC_BUF_SIZE - 4) |-> buf[3 + i]]

\* Whether a packet is good; its end may be read behind the buffer.
dm_check_nhdlc_pkt(buf) ==
    IF buf[0] # NHDLC_CONTROL_CHAR THEN {FALSE}
    ELSE IF 4 + PktLength(buf) >= HDLC_BUF_SIZE THEN BOOLEAN
    ELSE {buf[4 + PktLength(buf)] = NHDLC_CONTROL_CHAR}

diag_start_hdlc_recovery_Always(d) ==
    /\ timers' = Append(timers, d)
    /\ encode_hdlc_reset' = [encode_hdlc_reset EXCEPT ![d] = TRUE]
    /\ bad_cmd_counter' = IF bad_cmd_counter + 1 > DIAG_MAX_BAD_CMD THEN 0
                          ELSE bad_cmd_counter + 1

diag_start_hdlc_recovery_NoZero(d) ==
    /\ timers' = IF encode_hdlc_reset[d] THEN timers ELSE Append(timers, d)
    /\ encode_hdlc_reset' = [encode_hdlc_reset EXCEPT ![d] = TRUE]
    /\ bad_cmd_counter' = bad_cmd_counter + 1

\* The counter is one for all DMs.
diag_start_hdlc_recovery(d) ==
    /\ timers' = IF encode_hdlc_reset[d] THEN timers ELSE Append(timers, d)
    /\ encode_hdlc_reset' = [encode_hdlc_reset EXCEPT ![d] = TRUE]
    /\ bad_cmd_counter' = IF bad_cmd_counter + 1 > DIAG_MAX_BAD_CMD THEN 0
                          ELSE bad_cmd_counter + 1

\* The encodings once diag_start_hdlc_recovery has counted a bad packet.
Recovered(d) ==
    IF bad_cmd_counter + 1 > DIAG_MAX_BAD_CMD
    THEN [encode_type EXCEPT ![d] = "HDLC"] ELSE encode_type

\* A bad packet is handled like a good one; the error it returns makes watch_run
\* drop the read watch of a stream.
dm_recv_nhdlc ==
    /\ pc = "decode"
    /\ encode_type[serving] = "NHDLC"
    /\ LET d   == serving
           buf == recv_buf[d].buf
       IN  \E good \in dm_check_nhdlc_pkt(buf) :
              IF good
              THEN /\ diag_client_handle_command(encode_type, d, PktData(buf),
                                                 PktLength(buf))
                   /\ UNCHANGED <<timers, encode_hdlc_reset, bad_cmd_counter, linked>>
              ELSE /\ diag_start_hdlc_recovery(d)
                   /\ diag_client_handle_command(Recovered(d), d, PktData(buf),
                                                 PktLength(buf))
                   /\ linked' = linked \ {d}
    /\ pc' = "dispatch"
    /\ UNCHANGED <<input, serving, rfds, wire, xfer, gone, hosts, split, confused>>

-----------------------------------------------------------------------------
(* The hosts.  What they do while the router is not in                      *)
(* select() or between two reads is the same to it as what they do then.    *)

Looking == pc \in {"select", "circ_read"}

Framed(type, m) ==
    CASE type = "RAW"   -> m
      [] type = "HDLC"  -> hdlc_encode(m)
      [] type = "NHDLC" -> nhdlc_frame(m)

HostSend(d, m) ==
    /\ d \notin waiting
    /\ sent < MaxCommands
    /\ d \in Stream => gone[d] = "no"
    /\ sent' = sent + 1
    /\ due' = IF d \in garbled THEN due ELSE [due EXCEPT ![d] = Append(@, m)]
    /\ waiting' = waiting \cup {d}
    /\ IF d \in Stream
       THEN wire' = [wire EXCEPT ![d] = @ \o Framed(host[d], m)] /\ UNCHANGED xfer
       ELSE xfer' = [xfer EXCEPT ![d] = Append(@, Framed(host[d], m))] /\ UNCHANGED wire
    /\ UNCHANGED <<dms, input, linked, loop, outq, gone, host, others, garbled, history>>

HostReceive(d) ==
    /\ pc = "select"
    /\ outq[d] # <<>>
    /\ LET frame == Head(outq[d])
           known == frame.enc = host[d]
       IN  /\ confused' = IF known THEN confused ELSE confused \cup {d}
           /\ host' = [host EXCEPT ![d] =
                  IF known /\ @ = "HDLC" /\ frame.rsp = "hdlc_disabled" THEN "NHDLC" ELSE @]
           /\ waiting' = waiting \ {d}
    /\ outq' = [outq EXCEPT ![d] = Tail(@)]
    /\ UNCHANGED <<dms, input, linked, loop, commands, wire, xfer, gone, sent, others,
                   split, surprised>>

\* A host that gets no answer goes on when nothing more happens.
HostTimeout(d) ==
    /\ d \in waiting
    /\ pc = "select" /\ Readable = {} /\ outq[d] = <<>>
    /\ waiting' = waiting \ {d}
    /\ UNCHANGED <<dms, input, linked, loop, outq, commands, wire, xfer, gone, host, sent,
                   others, history>>

HostClose(d) ==
    /\ Cardinality({e \in Stream : gone[e] # "no"}) < MaxClosed
    /\ gone[d] = "no"
    /\ \E how \in {"eof", "reset"} : gone' = [gone EXCEPT ![d] = how]
    /\ UNCHANGED <<dms, input, linked, loop, outq, commands, wire, xfer, hosts,
                   history>>

\* The eventfd of completed writes, ep0 and the descriptors of the peripherals
\* become readable and are served as they like, which matters while a timer runs.
OthersChange ==
    /\ pc = "select"
    /\ timers # <<>> \/ others
    /\ others' = ~others
    /\ UNCHANGED <<dms, input, linked, loop, outq, commands, wire, xfer, gone, host, sent,
                   waiting, history>>

-----------------------------------------------------------------------------
RouterStep ==
    \/ Select \/ DispatchDone \/ Timer
    \/ \E d \in rfds : dm_recv_raw(d) \/ diag_ffs_recv(d) \/ dm_recv_encoded(d)
    \/ circ_read \/ circ_read_Done \/ circ_read_Error
    \/ dm_recv_hdlc \/ DecodeOne \/ dm_recv_nhdlc

Environment ==
    /\ Looking
    /\ \/ \E d \in Dm : \/ \E m \in Cmd[d] : HostSend(d, m)
                        \/ HostReceive(d) \/ HostTimeout(d)
       \/ \E d \in Stream \ Blocking : HostClose(d)
       \/ OthersChange

Next == RouterStep \/ Environment

Spec == Init /\ [][Next]_vars

\* The router is one thread: whenever it can take a step, it takes one.
FairSpec == Spec /\ WF_vars(RouterStep)

TypeOK ==
    /\ encode_type \in [Dm -> Encode]
    /\ encode_hdlc_reset \in [Dm -> BOOLEAN]
    /\ bad_cmd_counter \in 0..DIAG_MAX_BAD_CMD
    /\ timers \in Seq(Encoded)
    /\ recv_buf \in [Encoded -> Ring]
    /\ recv_decoder \in Decoder
    /\ linked \subseteq Stream
    /\ pc \in {"select", "dispatch", "circ_read", "decode", "hdlc", "crashed"}
    /\ serving \in Encoded \cup {NoDm}
    /\ rfds \subseteq Dm
    /\ outq \in [Dm -> Seq([enc : Encode, rsp : Responses])]
    /\ wire \in [Stream -> Seq(Byte)]
    /\ xfer \in [Usb \cup Raw -> Seq(Seq(Byte))]
    /\ gone \in [Stream -> {"no", "eof", "reset"}]
    /\ host \in [Dm -> Encode]
    /\ sent \in 0..MaxCommands
    /\ due \in [Dm -> Seq(Seq(Byte))] /\ garbled \subseteq Dm
    /\ waiting \subseteq Dm /\ others \in BOOLEAN
    /\ split \subseteq Stream /\ surprised \subseteq Encoded /\ confused \subseteq Dm

-----------------------------------------------------------------------------
(* Properties.                                                             *)

\* encode_hdlc_reset says that a timer is running: a DM never has two of them,
\* and never waits for one that is not there.
RecoveryArmed ==
    /\ \A i, j \in 1..Len(timers) : timers[i] = timers[j] => i = j
    /\ \A d \in Dm : encode_hdlc_reset[d] <=> \E i \in 1..Len(timers) : timers[i] = d

\* DMs that are encoded at all share one encoding, whoever switches it; only the
\* counter of diag_start_hdlc_recovery puts one of them apart, and then the
\* timer that brings the others after it is running.
OneEncoding ==
    \A d, e \in Encoded :
        encode_type[d] = "HDLC" /\ encode_type[e] = "NHDLC" => encode_hdlc_reset[d]

\* The commands of a host are handled as it sent them, each once and in order,
\* and it understands every frame it gets, also across the switch it asked for:
\* HDLC_DISABLE is answered in HDLC, what follows goes and comes without.  This
\* needs that nobody else switches its encoding and, on a stream, that no read
\* ends within a frame, since the decoder of dm_recv_hdlc forgets it, and that it
\* stays with HDLC, since dm_recv_nhdlc does not follow the tail.
CommandsIntact ==
    \A d \in Encoded \ surprised :
        d \notin split => d \notin garbled \cup confused

\* The router waits in circ_read for a UART.
Stuck == pc = "circ_read" /\ serving \in Blocking

\* A stream that always can be read: its end is not noticed, or without HDLC the
\* buffer is full and stays so.
Spinning(d) ==
    /\ d \in linked
    /\ \/ gone[d] = "eof"
       \/ encode_type[d] = "NHDLC" /\ wire[d] # <<>>

\* Recoveries that were started end: diag_hdlc_reset is called for all of them,
\* unless a stream, or again and again another descriptor, keeps select() from
\* timing out or a blocking read keeps the loop.
RecoveryEnds ==
    timers # <<>> ~> \/ timers = <<>> /\ \A d \in Encoded : ~encode_hdlc_reset[d]
                     \/ pc = "crashed" \/ Stuck
                     \/ \E d \in Stream : Spinning(d)
                     \/ []<>others
=============================================================================
