-------------------------------- MODULE Hdlc --------------------------------
(***************************************************************************)
(* The circular buffer of circ_buf.c, the framing of hdlc.c and the header  *)
(* and trailer of frames that are not HDLC (diag.c), as operators on        *)
(* values: a byte is a number, a message and a stretch of a stream are      *)
(* sequences of bytes.                                                      *)
(***************************************************************************)
EXTENDS Integers, Sequences

CONSTANT HDLC_BUF_SIZE  \* 16384: size of a circ_buf and of a decoder's raw_buf

ASSUME HdlcAssumption == HDLC_BUF_SIZE \in Nat \ {0, 1}

Byte == 0..255
NHDLC_CONTROL_CHAR == 126   \* 0x7e, also the end of an HDLC frame
ESCAPE == 125               \* 0x7d

-----------------------------------------------------------------------------
(* struct circ_buf.                                                        *)

Index == 0..(HDLC_BUF_SIZE - 1)

Ring == [buf : [Index -> Byte], head : Index, tail : Index]

FreshRing == [buf |-> [i \in Index |-> 0], head |-> 0, tail |-> 0]

\* i & (HDLC_BUF_SIZE - 1), for the sums of two indices it is applied to.
Wrap(i) == IF i >= HDLC_BUF_SIZE THEN i - HDLC_BUF_SIZE ELSE i

\* One byte stays free, so that a full buffer is not taken for an empty one.
CIRC_SPACE(r) == Wrap(HDLC_BUF_SIZE + r.tail - r.head - 1)

CIRC_SPACE_TO_END_Unchecked(r) == HDLC_BUF_SIZE - r.head

CIRC_SPACE_TO_END(r) ==
    IF CIRC_SPACE(r) < HDLC_BUF_SIZE - r.head THEN CIRC_SPACE(r)
                                              ELSE HDLC_BUF_SIZE - r.head

Filled_NoWrap(r, bytes) ==
    [r EXCEPT !.buf = [i \in Index |->
                          IF i >= r.head /\ i < r.head + Len(bytes)
                          THEN bytes[i - r.head + 1] ELSE r.buf[i]],
              !.head = r.head + Len(bytes)]

\* A read() of circ_read puts bytes at the head.
Filled(r, bytes) ==
    [r EXCEPT !.buf = [i \in Index |->
                          IF i >= r.head /\ i < r.head + Len(bytes)
                          THEN bytes[i - r.head + 1] ELSE r.buf[i]],
              !.head = Wrap(r.head + Len(bytes))]

\* Looking at k bytes moves the tail.
Advanced(r, k) == [r EXCEPT !.tail = Wrap(r.tail + k)]

\* What is between tail and head, in order.
Unread(r) ==
    [i \in 1..Wrap(HDLC_BUF_SIZE + r.head - r.tail) |-> r.buf[Wrap(r.tail + i - 1)]]

-----------------------------------------------------------------------------
(* HDLC.                                                                   *)

\* b ^ 0x20
Toggled(b) == IF (b \div 32) % 2 = 0 THEN b + 32 ELSE b - 32

Xor(a, b) ==
    LET bits[i \in 0..16] ==
            IF i = 0 THEN 0
            ELSE bits[i - 1] + 2^(i-1) * ((a \div 2^(i-1) + b \div 2^(i-1)) % 2)
    IN  bits[16]

\* The table holds the remainders of all bytes by the reversed CCITT
\* polynomial 0x8408.
crc_table ==
    [b \in Byte |->
        LET shifted[i \in 0..8] ==
                IF i = 0 THEN b
                ELSE LET rest == shifted[i - 1]
                     IN  IF rest % 2 = 1 THEN Xor(rest \div 2, 33800) ELSE rest \div 2
        IN  shifted[8]]

hdlc_crc_byte(crc, ch) == Xor(crc \div 256, crc_table[Xor(crc, ch) % 256])

\* The two bytes that follow a message: its CRC, inverted, low byte first.
Crc(m) ==
    LET crc[i \in 0..Len(m)] == IF i = 0 THEN 65535 ELSE hdlc_crc_byte(crc[i - 1], m[i])
        inverted == 65535 - crc[Len(m)]
    IN  <<inverted % 256, inverted \div 256>>

Escaped(s) ==
    LET out[i \in 0..Len(s)] ==
            IF i = 0 THEN <<>>
            ELSE out[i - 1] \o IF s[i] \in {ESCAPE, NHDLC_CONTROL_CHAR}
                               THEN <<ESCAPE, Toggled(s[i])>> ELSE <<s[i]>>
    IN  out[Len(s)]

hdlc_encode(m) == Escaped(m \o Crc(m)) \o <<NHDLC_CONTROL_CHAR>>

\* struct hdlc_decoder: the bytes of the frame so far, and whether the last one
\* was an escape.
Decoder == [raw : Seq(Byte), escape : BOOLEAN]

FreshDecoder == [raw |-> <<>>, escape |-> FALSE]

\* The decoder after a byte that does not end a frame: an escape is left out, and
\* toggles the byte that follows.
Take(d, b) ==
    IF b = ESCAPE THEN [raw |-> d.raw, escape |-> TRUE]
    ELSE [raw    |-> Append(d.raw, IF d.escape THEN Toggled(b) ELSE b),
          escape |-> FALSE]

TakeStep == [d \in Decoder |-> [b \in Byte |-> Take(d, b)]]

\* The decoder after the bytes s, none of which ends a frame.
Fed(d, s) ==
    LET fed[i \in 0..Len(s)] == IF i = 0 THEN d ELSE TakeStep[fed[i - 1]][s[i]]
    IN  fed[Len(s)]

\* hdlc_decode_one reads as far as the first end of frame, or all there is.
Ends(s) == {i \in 1..Len(s) : s[i] = NHDLC_CONTROL_CHAR}

FirstEnd(s) == CHOOSE i \in Ends(s) : \A j \in Ends(s) : i <= j

hdlc_decode_one_NoReset(d, r) ==
    LET unread == Unread(r)
        ended  == Ends(unread) # {}
        after  == Fed(d, IF ended THEN SubSeq(unread, 1, FirstEnd(unread) - 1) ELSE unread)
        found  == ended /\ after.raw # <<>>
    IN  [found |-> found,
         raw   |-> after.raw,
         dec   |-> IF found THEN [after EXCEPT !.escape = FALSE] ELSE after,
         ring  |-> Advanced(r, IF ended THEN FirstEnd(unread) ELSE Len(unread))]

\* A frame is found when it ends and is not empty; the decoder starts anew after
\* it, and keeps its state otherwise.
hdlc_decode_one(d, r) ==
    LET unread == Unread(r)
        ended  == Ends(unread) # {}
        after  == Fed(d, IF ended THEN SubSeq(unread, 1, FirstEnd(unread) - 1) ELSE unread)
        found  == ended /\ after.raw # <<>>
    IN  [found |-> found,
         raw   |-> after.raw,
         dec   |-> IF found THEN FreshDecoder ELSE after,
         ring  |-> Advanced(r, IF ended THEN FirstEnd(unread) ELSE Len(unread))]

\* The message of a frame ends two bytes before its raw bytes do, whatever they
\* are.  For a frame of one byte that is in front of the buffer, and the length
\* is the largest size_t.
msglen(raw) == Len(raw) - 2

Message(raw) == SubSeq(raw, 1, msglen(raw))

-----------------------------------------------------------------------------
(* What a stream of bytes means, whatever it is cut into.                  *)

\* One byte of it: the decoder, and the raw bytes of the frames that have ended.
Eaten(run, b) ==
    IF b # NHDLC_CONTROL_CHAR THEN [dec |-> Take(run.dec, b), raws |-> run.raws]
    ELSE IF run.dec.raw = <<>> THEN run
    ELSE [dec |-> FreshDecoder, raws |-> Append(run.raws, run.dec.raw)]

Run(d, s) ==
    LET run[i \in 0..Len(s)] ==
            IF i = 0 THEN [dec |-> d, raws |-> <<>>] ELSE Eaten(run[i - 1], s[i])
    IN  run[Len(s)]

Joined(ss) ==
    LET joined[i \in 0..Len(ss)] == IF i = 0 THEN <<>> ELSE joined[i - 1] \o ss[i]
    IN  joined[Len(ss)]

-----------------------------------------------------------------------------
(* Frames that are not HDLC: start, version, length, payload, end.         *)

nhdlc_frame(m) ==
    <<NHDLC_CONTROL_CHAR, 1, Len(m) % 256, Len(m) \div 256>> \o m
        \o <<NHDLC_CONTROL_CHAR>>
=============================================================================
