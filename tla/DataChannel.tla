----------------------------- MODULE DataChannel -----------------------------
(***************************************************************************)
(* The data channel of an RPMSG peripheral, byte by byte: the packets a     *)
(* subsystem sends, circ_read, the decoder that outlives a callback, and    *)
(* what is passed to dm_broadcast; and its command channel, on which        *)
(* answers come in frames that are not HDLC.                                *)
(*                                                                         *)
(* diag_data_recv is cut at every read(), since the subsystem can send      *)
(* between two of them, and at every message.  The channel keeps packets    *)
(* apart: a read takes one packet, and what of it does not fit is lost.     *)
(***************************************************************************)
EXTENDS Hdlc, FiniteSets, SequencesExt

CONSTANTS
    Script,     \* the messages of the subsystem, in the order it sends them
    Answers,    \* the packets it sends on the command channel, in order
    RAW_SIZE,   \* size of the buffer of diag_data_recv_raw: 4096
    CMD_SIZE,   \* size of the buffer of diag_cmd_recv: APPS_BUF_SIZE, 16384
    FLOW_WATERMARK,
    Listeners,  \* DMs that are enabled: each is queued a copy of a message
    MaxPacket,  \* longest packet of the channel
    MaxQueued,  \* packets the channel holds
    MaxIdle,    \* bound on frames the subsystem starts with an end marker
    MaxDowns    \* bound on restarts of the subsystem

ASSUME DataChannelAssumption ==
    /\ Script \in Seq(Seq(Byte)) /\ Answers \in Seq(Seq(Byte))
    /\ {RAW_SIZE, CMD_SIZE, FLOW_WATERMARK, Listeners, MaxPacket, MaxQueued,
        MaxIdle, MaxDowns} \subseteq Nat

VARIABLES
    apps_hdlc_encode, \* features & DIAG_FEATURE_APPS_HDLC_ENCODE
    recv_buf,         \* peripheral->recv_buf
    recv_decoder,     \* peripheral->recv_decoder
    flow,             \* peripheral->flow->packets
    pc,               \* where the callback is
    out,              \* messages passed to dm_broadcast
    up,               \* the channel has an endpoint
    sent,             \* messages the subsystem has begun to send
    tx,               \* what is still to be sent of the last one
    packets,          \* packets in the channel
    idle,             \* frames started with an end marker so far
    downs,            \* restarts so far
    cmd,              \* packets in the command channel
    answered,         \* packets of Answers sent
    stack,            \* what the buffer of diag_cmd_recv held last
    relayed,          \* answers passed to dm_broadcast
    cuts,             \* history: packets of which a part was lost
    missed,           \* history: end markers in the lost parts
    boot              \* history: what was sent and passed on at the last boot

perif == <<recv_buf, recv_decoder>>
subsystem == <<sent, tx, idle, downs>>
command == <<cmd, answered, stack, relayed>>
history == <<cuts, missed, boot>>
vars == <<apps_hdlc_encode, perif, flow, pc, out, up, subsystem, packets, command, history>>

Init ==
    /\ apps_hdlc_encode \in BOOLEAN
    /\ recv_buf = FreshRing
    /\ recv_decoder = FreshDecoder
    /\ flow = 0
    /\ pc = "select"
    /\ out = <<>>
    /\ up = TRUE
    /\ sent = 0
    /\ tx = <<>>
    /\ packets = <<>>
    /\ idle = 0
    /\ downs = 0
    /\ cmd = <<>> /\ answered = 0
    /\ stack = <<>>
    /\ relayed = <<>>
    /\ cuts = 0 /\ missed = 0
    /\ boot = [sent |-> 0, out |-> 0, answered |-> 0, relayed |-> 0]

-----------------------------------------------------------------------------
(* The callback.                                                           *)

\* watch_flow_blocked: more buffers of the peripheral than the watermark wait for
\* DMs, and the loop leaves the channel out of select().
Blocked == flow > FLOW_WATERMARK

\* select() reports the channel when there is a packet, or no endpoint.
diag_data_recv ==
    /\ pc = "select"
    /\ ~Blocked
    /\ packets # <<>> \/ ~up
    /\ pc' = IF apps_hdlc_encode THEN "read_raw" ELSE "read"
    /\ UNCHANGED <<apps_hdlc_encode, perif, flow, out, up, subsystem, packets, history, command>>

\* read() of at most space bytes.
Lost(p, space) == Len(p) > space

Got(p, space) == IF Lost(p, space) THEN SubSeq(p, 1, space) ELSE p

circ_read_Full_Error ==
    /\ pc = "read"
    /\ CIRC_SPACE_TO_END(recv_buf) = 0
    /\ pc' = "select"
    /\ UNCHANGED <<apps_hdlc_encode, perif, flow, out, up, subsystem, packets, history, command>>

\* circ_read: no space to the end ends it, a read that fills the space is
\* followed by another one.
circ_read_Full ==
    /\ pc = "read"
    /\ CIRC_SPACE_TO_END(recv_buf) = 0
    /\ pc' = "decode"
    /\ UNCHANGED <<apps_hdlc_encode, perif, flow, out, up, subsystem, packets, history, command>>

circ_read ==
    LET space == CIRC_SPACE_TO_END(recv_buf)
        got   == Got(Head(packets), space)
    IN  /\ pc = "read" /\ up /\ packets # <<>>
        /\ space # 0
        /\ recv_buf' = Filled(recv_buf, got)
        /\ packets' = Tail(packets)
        /\ cuts' = cuts + IF Lost(Head(packets), space) THEN 1 ELSE 0
        /\ missed' = missed + Cardinality(Ends(SubSeq(Head(packets), space + 1,
                                                       Len(Head(packets)))))
        /\ pc' = IF Len(got) = space THEN "read" ELSE "decode"
        /\ UNCHANGED <<apps_hdlc_encode, recv_decoder, flow, out, up, subsystem, boot, command>>

\* EAGAIN, also after a read that filled the space, ends the callback without a
\* look at what was read.
Eagain ==
    /\ up /\ packets = <<>>
    /\ \/ pc = "read" /\ CIRC_SPACE_TO_END(recv_buf) # 0
       \/ pc = "read_raw"
    /\ pc' = "select"
    /\ UNCHANGED <<apps_hdlc_encode, perif, flow, out, up, subsystem, packets, history, command>>

\* Any other error closes the peripheral.
ReadError ==
    /\ ~up
    /\ \/ pc = "read" /\ CIRC_SPACE_TO_END(recv_buf) # 0
       \/ pc = "read_raw"
    /\ pc' = "closed"
    /\ UNCHANGED <<apps_hdlc_encode, perif, flow, out, up, subsystem, packets, history, command>>

\* Every enabled DM is queued a copy, charged to the flow of the peripheral.
dm_broadcast(msg) ==
    /\ out' = Append(out, msg)
    /\ flow' = flow + Listeners

\* The inner loop of diag_data_recv_hdlc: every frame is broadcast.  A message
\* with a length below zero is too long for any buffer.
Decode ==
    /\ pc = "decode"
    /\ \E one \in {hdlc_decode_one(recv_decoder, recv_buf)} :
          /\ recv_buf' = one.ring
          /\ recv_decoder' = one.dec
          /\ IF ~one.found THEN pc' = "read" /\ UNCHANGED <<out, flow>>
             ELSE IF msglen(one.raw) < 0 THEN pc' = "crashed" /\ UNCHANGED <<out, flow>>
             ELSE pc' = "decode" /\ dm_broadcast(Message(one.raw))
    /\ UNCHANGED <<apps_hdlc_encode, up, subsystem, packets, history, command>>

diag_data_recv_raw ==
    /\ pc = "read_raw" /\ up /\ packets # <<>>
    /\ dm_broadcast(Got(Head(packets), RAW_SIZE))
    /\ cuts' = cuts + IF Lost(Head(packets), RAW_SIZE) THEN 1 ELSE 0
    /\ packets' = Tail(packets)
    /\ UNCHANGED <<apps_hdlc_encode, perif, pc, up, subsystem, missed, boot, command>>

Booted == [sent |-> sent, out |-> Len(out), answered |-> answered, relayed |-> Len(relayed)]

Reopen_SameDecoder ==
    /\ pc = "closed" /\ ~up
    /\ recv_buf' = FreshRing
    /\ UNCHANGED recv_decoder
    /\ pc' = "select"
    /\ up' = TRUE
    /\ flow' = 0
    /\ boot' = Booted
    /\ UNCHANGED <<apps_hdlc_encode, out, subsystem, packets, cuts, missed, command>>

\* peripheral_create and peripheral_open for the subsystem's next boot: a new,
\* cleared peripheral with a flow of its own.
Reopen ==
    /\ pc = "closed" /\ ~up
    /\ recv_buf' = FreshRing
    /\ recv_decoder' = FreshDecoder
    /\ pc' = "select"
    /\ up' = TRUE
    /\ flow' = 0
    /\ boot' = Booted
    /\ UNCHANGED <<apps_hdlc_encode, out, subsystem, packets, cuts, missed, command>>

-----------------------------------------------------------------------------
(* The command channel.                                                    *)

\* What one read() takes of a packet; the rest of it is lost.
Taken(p) == Got(p, CMD_SIZE)

\* It goes over what the stack holds.
Over(p) ==
    IF Len(p) >= Len(stack) THEN p ELSE p \o SubSeq(stack, Len(p) + 1, Len(stack))

PayloadLength(buf) == buf[3] + 256 * buf[4]

Checked_NoTrailer(buf, len) ==
    /\ Len(buf) >= 4
    /\ buf[1] = NHDLC_CONTROL_CHAR /\ buf[2] = 1
    /\ 4 + PayloadLength(buf) <= len
    /\ 4 + PayloadLength(buf) + 1 <= Len(buf)
    /\ buf[4 + PayloadLength(buf) + 1] = NHDLC_CONTROL_CHAR

\* The three checks of diag_cmd_recv, for a packet of len bytes in buf.
Checked(buf, len) ==
    /\ Len(buf) >= 4
    /\ buf[1] = NHDLC_CONTROL_CHAR /\ buf[2] = 1
    /\ 4 + PayloadLength(buf) + 1 <= len
    /\ buf[4 + PayloadLength(buf) + 1] = NHDLC_CONTROL_CHAR

Payload(buf) == SubSeq(buf, 5, 4 + PayloadLength(buf))

diag_cmd_recv ==
    /\ pc = "select" /\ up /\ cmd # <<>>
    /\ LET p == Taken(Head(cmd))  buf == Over(p)
       IN  /\ stack' = buf
           /\ relayed' = IF Checked(buf, Len(p)) THEN Append(relayed, Payload(buf))
                                              ELSE relayed
    /\ cmd' = Tail(cmd)
    /\ UNCHANGED <<apps_hdlc_encode, perif, flow, pc, out, up, subsystem, packets, answered,
                   history>>

\* An error closes the peripheral, and the checks go on with what is in the
\* buffer: it was not initialised, and the length -1 is a large number where it
\* is compared.
diag_cmd_recv_Error ==
    /\ pc = "select" /\ ~up
    /\ pc' = "closed"
    /\ \E buf \in {stack, <<>>} :
          relayed' = IF Checked(buf, Len(buf)) THEN Append(relayed, Payload(buf))
                                               ELSE relayed
    /\ UNCHANGED <<apps_hdlc_encode, perif, flow, out, up, subsystem, packets, cmd, answered,
                   stack, history>>

-----------------------------------------------------------------------------
(* The subsystem.                                                          *)

\* It sends a message in packets of its choice, or as one packet when the
\* router encodes.
Begin ==
    /\ up /\ sent < Len(Script)
    /\ ~apps_hdlc_encode
    /\ \E flag \in {<<>>, <<NHDLC_CONTROL_CHAR>>} :
          /\ idle' = idle + Len(flag)
          /\ idle' <= MaxIdle
          /\ tx' = tx \o flag \o hdlc_encode(Script[sent + 1])
    /\ sent' = sent + 1
    /\ UNCHANGED <<apps_hdlc_encode, perif, flow, pc, out, up, downs, packets, history, command>>

Transmit ==
    /\ up /\ Len(packets) < MaxQueued
    /\ \E n \in 1..Len(tx) :
          /\ n <= MaxPacket
          /\ packets' = Append(packets, SubSeq(tx, 1, n))
          /\ tx' = SubSeq(tx, n + 1, Len(tx))
    /\ UNCHANGED <<apps_hdlc_encode, perif, flow, pc, out, up, sent, idle, downs, history,
                   command>>

TransmitRaw ==
    /\ up /\ Len(packets) < MaxQueued /\ sent < Len(Script)
    /\ apps_hdlc_encode
    /\ packets' = Append(packets, Script[sent + 1])
    /\ sent' = sent + 1
    /\ UNCHANGED <<apps_hdlc_encode, perif, flow, pc, out, up, tx, idle, downs, history, command>>

\* The channels share nothing but the peripheral: answers are sent while the
\* router encodes, to bound the instance.
Answer ==
    /\ up /\ apps_hdlc_encode /\ answered < Len(Answers)
    /\ cmd' = Append(cmd, Answers[answered + 1])
    /\ answered' = answered + 1
    /\ UNCHANGED <<apps_hdlc_encode, perif, flow, pc, out, up, subsystem, packets, stack, relayed,
                   history>>

\* The endpoints go, and the packets with them.
Down ==
    /\ up /\ downs < MaxDowns
    /\ pc # "crashed"
    /\ up' = FALSE
    /\ downs' = downs + 1
    /\ packets' = <<>> /\ cmd' = <<>>
    /\ tx' = <<>>
    /\ UNCHANGED <<apps_hdlc_encode, perif, flow, pc, out, sent, idle, answered, stack, relayed,
                   history>>

\* Between two callbacks a DM is sent buffers of the peripheral, or goes: Router has
\* that part.
Drain ==
    /\ pc = "select"
    /\ flow' \in 0..(flow - 1)
    /\ UNCHANGED <<apps_hdlc_encode, perif, pc, out, up, subsystem, packets, history, command>>

-----------------------------------------------------------------------------
RouterStep == \/ diag_data_recv \/ circ_read_Full \/ circ_read \/ Eagain
              \/ ReadError \/ Decode \/ diag_data_recv_raw
              \/ diag_cmd_recv \/ diag_cmd_recv_Error

Environment == Begin \/ Transmit \/ TransmitRaw \/ Answer \/ Down \/ Reopen \/ Drain

Next == RouterStep \/ Environment

Spec == Init /\ [][Next]_vars

\* The router is one thread: whenever it can take a step, it takes one.
FairSpec == Spec /\ WF_vars(RouterStep)

TypeOK ==
    /\ apps_hdlc_encode \in BOOLEAN
    /\ recv_buf \in Ring
    /\ recv_decoder \in Decoder
    /\ flow \in Nat
    /\ pc \in {"select", "read", "decode", "read_raw", "closed", "crashed"}
    /\ out \in Seq(Seq(Byte))
    /\ up \in BOOLEAN
    /\ sent \in 0..Len(Script)
    /\ tx \in Seq(Byte)
    /\ packets \in Seq(Seq(Byte))
    /\ idle \in 0..MaxIdle
    /\ downs \in 0..MaxDowns
    /\ cmd \in Seq(Seq(Byte)) /\ answered \in 0..Len(Answers)
    /\ stack \in Seq(Byte)
    /\ relayed \in Seq(Seq(Byte))
    /\ cuts \in Nat /\ missed \in Nat
    /\ boot \in [sent : 0..Len(Script), out : Nat, answered : 0..Len(Answers),
                 relayed : Nat]

-----------------------------------------------------------------------------
(* What the bytes on their way mean.                                       *)

\* The messages of a stream: those of its frames, empty ones left out.
Messages(d, s) ==
    LET raws == Run(d, s).raws
    IN  [k \in 1..Len(raws) |-> Message(raws[k])]

\* The messages on their way: what the decoder will make of the rest of its
\* frame, the buffer, the packets and what the subsystem is about to send.
InTransit ==
    IF pc \in {"closed", "crashed"} THEN <<>>
    ELSE IF apps_hdlc_encode THEN packets
    ELSE Messages(recv_decoder, Unread(recv_buf) \o Joined(packets) \o tx)

\* The router has been given bytes it has not decoded.
Undecoded ==
    /\ pc \notin {"closed", "crashed"}
    /\ packets # <<>> \/ Unread(recv_buf) # <<>>

-----------------------------------------------------------------------------
(* Properties.                                                             *)

\* diag_data_recv passes on the messages of the subsystem unchanged, once and in
\* order, wherever packets, reads and the end of the circular buffer cut the
\* stream, so long as no packet is longer than the space to that end: what was
\* passed on since the boot, and what the bytes on their way mean, is what was
\* sent since then.  Going down loses the last of these, and nothing of an old
\* boot is mixed with the new one.
InOrder ==
    LET routed == SubSeq(out, boot.out + 1, Len(out)) \o InTransit
        begun  == SubSeq(Script, boot.sent + 1, sent)
    IN  cuts = 0 /\ pc # "closed" =>
            /\ IsPrefix(routed, begun)
            /\ up => routed = begun

\* The answers carried by packets that hold a whole frame, and whole within what
\* one read takes.
Carried(s) ==
    LET whole(p)  == {n \in 5..Len(p) : IsPrefix(nhdlc_frame(SubSeq(p, 5, n - 1)), p)}
        answer(p) == IF whole(p) = {} THEN <<>>
                     ELSE <<SubSeq(p, 5, (CHOOSE n \in whole(p) : TRUE) - 1)>>
    IN  Joined([i \in 1..Len(s) |-> answer(Taken(s[i]))])

\* diag_cmd_recv passes on the answers of the subsystem once and in order, and of
\* a packet that ends too early nothing, whatever the buffer held before: it is
\* not cleared, and a frame cut short may find its end in it.  The one exception
\* is the read that fails because the subsystem went down, after which the checks
\* go on: then what the buffer held may be passed on once more.
AnswersIntact ==
    LET routed == SubSeq(relayed, boot.relayed + 1, Len(relayed)) \o Carried(cmd)
        begun  == Carried(SubSeq(Answers, boot.answered + 1, answered))
    IN  pc # "closed" => /\ IsPrefix(routed, begun)
                         /\ up => routed = begun

\* hdlc_decode_one writes behind raw_buf, or returns a length below zero, only
\* when a packet has lost its end: it checks neither.
DecoderInBounds ==
    cuts = 0 => Len(recv_decoder.raw) <= HDLC_BUF_SIZE /\ pc # "crashed"

\* Losing the end of a packet damages at most one message and loses, besides those
\* that end in the lost part, at most one: the next end marker puts the decoder
\* back in step.  The rest of what was sent since the boot is passed on or on its
\* way.
Damaged == {i \in 1..Len(out) : out[i] \notin ToSet(Script)}
Resynchronises ==
    pc # "crashed" =>
        /\ Cardinality(Damaged) <= cuts
        /\ up => (Len(out) - boot.out) + Len(InTransit) + missed + cuts >= sent - boot.sent

\* Everything that arrives is decoded, and what are messages passed on, unless the
\* DMs are never again sent enough of what is queued for them, an empty frame
\* stopped the decoder, or the last read ended at the end of the buffer: circ_read
\* then reads again and returns the EAGAIN of that, and diag_data_recv_hdlc gives up.
AllDecoded ==
    Undecoded ~> \/ ~Undecoded
                 \/ Unread(recv_buf) # <<>> /\ (recv_buf.head = 0 \/ idle > 0)
                 \/ []Blocked
=============================================================================
