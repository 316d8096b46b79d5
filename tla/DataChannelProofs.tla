-------------------------- MODULE DataChannelProofs --------------------------
(***************************************************************************)
(* Proofs about DataChannel.tla, for every script of messages and answers,  *)
(* every size of the ring and every way the channels cut and lose what is   *)
(* sent.                                                                    *)
(***************************************************************************)
EXTENDS DataChannel, HdlcProofs, FiniteSetTheorems

-----------------------------------------------------------------------------
(* What the actions are made of.                                           *)

\* A read gets a packet, or the beginning of one.
LEMMA GotSplits ==
    ASSUME NEW p \in Seq(Byte), NEW space \in Nat
    PROVE  /\ Got(p, space) \in Seq(Byte)
           /\ Len(Got(p, space)) <= space
           /\ Lost(p, space) \in BOOLEAN
           /\ ~Lost(p, space) => Got(p, space) = p
           /\ SubSeq(p, space + 1, Len(p)) \in Seq(Byte)
           /\ Lost(p, space) => p = Got(p, space) \o SubSeq(p, space + 1, Len(p))
<1>0. Len(p) \in Nat /\ \A i \in 1..Len(p) : p[i] \in Byte
  BY LenProperties
<1> DEFINE q == SubSeq(p, space + 1, Len(p))
<1>1. q \in Seq(Byte)
  <2>1. \A i \in (space + 1)..Len(p) : p[i] \in Byte
    BY <1>0
  <2> QED BY <1>0, <2>1, SubSeqProperties
<1>2. CASE ~(Len(p) > space)
  BY <1>0, <1>1, <1>2 DEF Got, Lost
<1>3. CASE Len(p) > space
  <2> DEFINE g == SubSeq(p, 1, space)
  <2>1. g \in Seq(Byte) /\ Len(g) = IF 1 <= space THEN space - 1 + 1 ELSE 0
    <3>1. \A i \in 1..space : p[i] \in Byte
      BY <1>0, <1>3
    <3> QED BY <3>1, SubSeqProperties
  <2>2. Len(g) <= space
    <3> HIDE DEF g
    <3> QED BY <2>1
  <2>3. g \o q = SubSeq(p, 1, Len(p))
    <3>1. 1 \in 1..(Len(p) + 1) /\ space \in (1 - 1)..Len(p) /\ Len(p) \in space..Len(p)
      BY <1>0, <1>3
    <3> QED BY <3>1, ConcatAdjacentSubSeq
  <2>4. SubSeq(p, 1, Len(p)) = p
    BY SubSeqFull
  <2> QED BY <1>1, <1>3, <2>1, <2>2, <2>3, <2>4 DEF Got, Lost
<1> QED BY <1>2, <1>3

LEMMA EndsFinite ==
    ASSUME NEW s \in Seq(Byte)
    PROVE  IsFiniteSet(Ends(s)) /\ Cardinality(Ends(s)) \in Nat
<1>1. Len(s) \in Nat
  BY LenProperties
<1>2. Ends(s) \subseteq 1..Len(s) /\ IsFiniteSet(1..Len(s))
  BY <1>1, FS_Interval DEF Ends
<1>3. IsFiniteSet(Ends(s))
  BY <1>2, FS_Subset
<1> QED BY <1>3, FS_CardinalityType

\* A packet on the command channel is not changed by what it is read over.
LEMMA TakenType ==
    ASSUME NEW p \in Seq(Byte)
    PROVE  Taken(p) \in Seq(Byte)
BY GotSplits, DataChannelAssumption DEF Taken

LEMMA OverType ==
    ASSUME NEW p \in Seq(Byte), stack \in Seq(Byte)
    PROVE  /\ Over(p) \in Seq(Byte)
           /\ Len(p) <= Len(Over(p))
           /\ \A i \in 1..Len(p) : Over(p)[i] = p[i]
<1>0. Len(p) \in Nat /\ Len(stack) \in Nat /\ \A i \in 1..Len(stack) : stack[i] \in Byte
  BY LenProperties
<1>1. CASE Len(p) >= Len(stack)
  BY <1>0, <1>1 DEF Over
<1>2. CASE ~(Len(p) >= Len(stack))
  <2> DEFINE q == SubSeq(stack, Len(p) + 1, Len(stack))
             o == p \o q
  <2>1. q \in Seq(Byte)
    <3>1. \A i \in (Len(p) + 1)..Len(stack) : stack[i] \in Byte
      BY <1>0
    <3> QED BY <1>0, <3>1, SubSeqProperties
  <2>2. Over(p) = o
    BY <1>2 DEF Over
  <2> HIDE DEF q
  <2>3. Len(q) \in Nat
    BY <2>1, LenProperties
  <2>4. o \in Seq(Byte) /\ Len(o) = Len(p) + Len(q)
        /\ \A i \in 1..(Len(p) + Len(q)) : o[i] = IF i <= Len(p) THEN p[i] ELSE q[i - Len(p)]
    BY <2>1, ConcatProperties
  <2> HIDE DEF o
  <2>5. Len(p) <= Len(o) /\ \A i \in 1..Len(p) : o[i] = p[i]
    BY <1>0, <2>3, <2>4
  <2> QED BY <2>2, <2>4, <2>5
<1> QED BY <1>1, <1>2

LEMMA PayloadType ==
    ASSUME NEW buf \in Seq(Byte), NEW len \in Nat, len <= Len(buf), Checked(buf, len)
    PROVE  PayloadLength(buf) \in Nat /\ Payload(buf) \in Seq(Byte)
<1>0. Len(buf) \in Nat /\ Len(buf) >= 4 /\ \A i \in 1..Len(buf) : buf[i] \in Byte
  BY LenProperties DEF Checked
<1>1. buf[3] \in Byte /\ buf[4] \in Byte
  BY <1>0
<1>2. PayloadLength(buf) \in Nat
  <2> DEFINE x == buf[3]
             y == buf[4]
  <2>1. x \in Nat /\ y \in Nat
    BY <1>1, ByteNat
  <2> HIDE DEF x, y
  <2>2. x + 256 * y \in Nat
    BY <2>1
  <2> QED BY <2>2 DEF x, y, PayloadLength
<1>3. 4 + PayloadLength(buf) + 1 <= len
  BY DEF Checked
<1>4. \A i \in 5..(4 + PayloadLength(buf)) : buf[i] \in Byte
  BY <1>0, <1>2, <1>3
<1>5. Payload(buf) \in Seq(Byte)
  BY <1>2, <1>4, SubSeqProperties DEF Payload
<1> QED BY <1>2, <1>5

-----------------------------------------------------------------------------
(* Types.                                                                  *)

LEMMA InitType == Init => TypeOK
<1> SUFFICES ASSUME Init PROVE TypeOK
  OBVIOUS
<1>1. FreshRing \in Ring
  BY FreshRingIs
<1>2. FreshDecoder \in Decoder
  BY FreshType
<1>3. Len(Script) \in Nat /\ Len(Answers) \in Nat /\ MaxIdle \in Nat /\ MaxDowns \in Nat
  BY DataChannelAssumption, LenProperties
<1> QED BY <1>1, <1>2, <1>3 DEF Init, TypeOK

\* The numbers a boot is remembered by.
LEMMA BootedType ==
    ASSUME TypeOK
    PROVE  Booted \in [sent : 0..Len(Script), out : Nat, answered : 0..Len(Answers),
                       relayed : Nat]
<1>1. Len(out) \in Nat /\ Len(relayed) \in Nat
  BY LenProperties DEF TypeOK
<1> QED BY <1>1 DEF TypeOK, Booted

LEMMA NextType == TypeOK /\ [Next]_vars => TypeOK'
<1> SUFFICES ASSUME TypeOK, [Next]_vars PROVE TypeOK'
  OBVIOUS
<1> USE DEF perif, subsystem, command, history
<1>0. /\ Len(Script) \in Nat /\ Len(Answers) \in Nat /\ MaxIdle \in Nat /\ MaxDowns \in Nat
      /\ RAW_SIZE \in Nat /\ Listeners \in Nat
      /\ Script \in Seq(Seq(Byte)) /\ Answers \in Seq(Seq(Byte))
  BY DataChannelAssumption, LenProperties
<1>1. CASE diag_data_recv
  BY <1>1 DEF TypeOK, diag_data_recv
<1>2. CASE circ_read_Full
  BY <1>2 DEF TypeOK, circ_read_Full
<1>3. CASE circ_read
  <2> DEFINE p == Head(packets)
             space == CIRC_SPACE_TO_END(recv_buf)
             got == Got(p, space)
             lost == SubSeq(p, space + 1, Len(p))
  <2>1. p \in Seq(Byte) /\ Tail(packets) \in Seq(Seq(Byte))
    BY <1>3, HeadTailProperties DEF TypeOK, circ_read
  <2>2. space \in Nat
    BY SpaceType DEF TypeOK
  <2>3. got \in Seq(Byte) /\ Len(got) <= space /\ lost \in Seq(Byte)
    BY <2>1, <2>2, GotSplits
  <2>4. Filled(recv_buf, got) \in Ring
    BY <2>3, RingAppends DEF TypeOK
  <2>5. Cardinality(Ends(lost)) \in Nat
    BY <2>3, EndsFinite
  <2>6. recv_buf' = Filled(recv_buf, got) /\ packets' = Tail(packets)
        /\ missed' = missed + Cardinality(Ends(lost))
        /\ cuts' = cuts + (IF Lost(p, space) THEN 1 ELSE 0)
        /\ pc' \in {"read", "decode"}
    BY <1>3 DEF circ_read
  <2> HIDE DEF p, space, got, lost
  <2>7. missed' \in Nat
    <3> DEFINE k == Cardinality(Ends(lost))
    <3>1. k \in Nat /\ missed' = missed + k /\ missed \in Nat
      BY <2>5, <2>6 DEF TypeOK
    <3> HIDE DEF k
    <3> QED BY <3>1
  <2>8. cuts' \in Nat
    <3>1. cuts \in Nat /\ (cuts' = cuts + 1 \/ cuts' = cuts + 0)
      BY <2>6 DEF TypeOK
    <3> QED BY <3>1
  <2> QED BY <1>3, <2>1, <2>4, <2>6, <2>7, <2>8 DEF TypeOK, circ_read
<1>4. CASE Eagain
  BY <1>4 DEF TypeOK, Eagain
<1>5. CASE ReadError
  BY <1>5 DEF TypeOK, ReadError
<1>6. CASE Decode
  <2>1. PICK one \in {hdlc_decode_one(recv_decoder, recv_buf)} :
          /\ recv_buf' = one.ring
          /\ recv_decoder' = one.dec
          /\ IF ~one.found THEN pc' = "read" /\ UNCHANGED out
             ELSE IF msglen(one.raw) < 0 THEN pc' = "crashed" /\ UNCHANGED out
             ELSE pc' = "decode" /\ out' = Append(out, Message(one.raw))
    BY <1>6 DEF Decode, dm_broadcast
  <2>2. one.ring \in Ring /\ one.dec \in Decoder /\ one.raw \in Seq(Byte)
    BY DecodeOneTakes DEF TypeOK
  <2>3. Message(one.raw) \in Seq(Byte)
    BY <2>2, MessageType
  <2>4. Append(out, Message(one.raw)) \in Seq(Seq(Byte))
    BY <2>3, AppendProperties DEF TypeOK
  <2>5. out' \in Seq(Seq(Byte)) /\ pc' \in {"read", "crashed", "decode"}
    BY <2>1, <2>4 DEF TypeOK
  <2>6. flow' \in Nat
    BY <1>0, <1>6 DEF TypeOK, Decode, dm_broadcast
  <2> QED BY <1>6, <2>1, <2>2, <2>5, <2>6 DEF TypeOK, Decode
<1>7. CASE diag_data_recv_raw
  <2> DEFINE p == Head(packets)
             got == Got(p, RAW_SIZE)
  <2>1. p \in Seq(Byte) /\ Tail(packets) \in Seq(Seq(Byte))
    BY <1>7, HeadTailProperties DEF TypeOK, diag_data_recv_raw
  <2>2. got \in Seq(Byte)
    BY <1>0, <2>1, GotSplits
  <2>3. /\ out' = Append(out, got) /\ packets' = Tail(packets)
        /\ cuts' = cuts + IF Lost(p, RAW_SIZE) THEN 1 ELSE 0
    BY <1>7 DEF diag_data_recv_raw, dm_broadcast
  <2> HIDE DEF p, got
  <2>4. out' \in Seq(Seq(Byte))
    BY <2>2, <2>3, AppendProperties DEF TypeOK
  <2>5. cuts' \in Nat
    BY <2>3 DEF TypeOK
  <2>6. flow' \in Nat
    BY <1>0, <1>7 DEF TypeOK, diag_data_recv_raw, dm_broadcast
  <2> QED BY <1>7, <2>1, <2>3, <2>4, <2>5, <2>6 DEF TypeOK, diag_data_recv_raw
<1>8. CASE diag_cmd_recv
  <2> DEFINE p == Taken(Head(cmd))
             buf == Over(p)
  <2>1. p \in Seq(Byte) /\ Tail(cmd) \in Seq(Seq(Byte))
    BY <1>8, TakenType, HeadTailProperties DEF TypeOK, diag_cmd_recv
  <2>2. buf \in Seq(Byte) /\ Len(p) <= Len(buf) /\ Len(p) \in Nat
    BY <2>1, OverType, LenProperties DEF TypeOK
  <2>3. Checked(buf, Len(p)) => Payload(buf) \in Seq(Byte)
    BY <2>2, PayloadType
  <2>4. /\ stack' = buf /\ cmd' = Tail(cmd)
        /\ relayed' = IF Checked(buf, Len(p)) THEN Append(relayed, Payload(buf)) ELSE relayed
    BY <1>8 DEF diag_cmd_recv
  <2> HIDE DEF p, buf
  <2>5. relayed' \in Seq(Seq(Byte))
    BY <2>3, <2>4, AppendProperties DEF TypeOK
  <2> QED BY <1>8, <2>1, <2>2, <2>4, <2>5 DEF TypeOK, diag_cmd_recv
<1>9. CASE diag_cmd_recv_Error
  <2>1. PICK buf \in {stack, <<>>} :
          relayed' = IF Checked(buf, Len(buf)) THEN Append(relayed, Payload(buf)) ELSE relayed
    BY <1>9 DEF diag_cmd_recv_Error
  <2>2. buf \in Seq(Byte)
    <3>1. stack \in Seq(Byte) /\ <<>> \in Seq(Byte)
      BY DEF TypeOK
    <3>2. buf = stack \/ buf = <<>>
      OBVIOUS
    <3> QED BY <3>1, <3>2, Zenon
  <2>3. Len(buf) \in Nat /\ Len(buf) <= Len(buf)
    BY <2>2, LenProperties
  <2>4. Checked(buf, Len(buf)) => Payload(buf) \in Seq(Byte)
    BY <2>2, <2>3, PayloadType
  <2>5. relayed' \in Seq(Seq(Byte))
    BY <2>1, <2>4, AppendProperties DEF TypeOK
  <2> QED BY <1>9, <2>5 DEF TypeOK, diag_cmd_recv_Error
<1>10. CASE Begin
  <2>1. PICK flag \in {<<>>, <<NHDLC_CONTROL_CHAR>>} :
          /\ idle' = idle + Len(flag) /\ idle' <= MaxIdle
          /\ tx' = tx \o flag \o hdlc_encode(Script[sent + 1])
    BY <1>10 DEF Begin
  <2>2. sent + 1 \in 1..Len(Script) /\ sent' = sent + 1
    BY <1>0, <1>10 DEF TypeOK, Begin
  <2>3. Script[sent + 1] \in Seq(Byte)
    BY <1>0, <2>2, ElementOfSeq
  <2>4. hdlc_encode(Script[sent + 1]) \in Seq(Byte)
    BY <2>3, FrameType
  <2>5. flag \in Seq(Byte) /\ Len(flag) \in Nat
    <3>1. <<>> \in Seq(Byte) /\ <<NHDLC_CONTROL_CHAR>> \in Seq(Byte)
      BY ControlByte
    <3>2. flag \in Seq(Byte)
      BY <3>1
    <3> QED BY <3>2, LenProperties
  <2>6. tx' \in Seq(Byte)
    <3> DEFINE f == hdlc_encode(Script[sent + 1])
    <3>1. f \in Seq(Byte) /\ tx \in Seq(Byte)
      BY <2>4 DEF TypeOK
    <3> HIDE DEF f
    <3>2. tx \o flag \in Seq(Byte)
      BY <2>5, <3>1, ConcatProperties
    <3>3. (tx \o flag) \o f \in Seq(Byte)
      BY <3>1, <3>2, ConcatProperties
    <3> QED BY <2>1, <3>3 DEF f
  <2>7. idle' \in 0..MaxIdle
    BY <1>0, <2>1, <2>5 DEF TypeOK
  <2> QED BY <1>10, <2>2, <2>6, <2>7 DEF TypeOK, Begin
<1>11. CASE Transmit
  <2>1. PICK n \in 1..Len(tx) :
          /\ packets' = Append(packets, SubSeq(tx, 1, n))
          /\ tx' = SubSeq(tx, n + 1, Len(tx))
    BY <1>11 DEF Transmit
  <2>2. SubSeq(tx, 1, n) \in Seq(Byte) /\ SubSeq(tx, n + 1, Len(tx)) \in Seq(Byte)
    BY CutOff DEF TypeOK
  <2>3. packets' \in Seq(Seq(Byte))
    BY <2>1, <2>2, AppendProperties DEF TypeOK
  <2> QED BY <1>11, <2>1, <2>2, <2>3 DEF TypeOK, Transmit
<1>12. CASE TransmitRaw
  <2>1. sent + 1 \in 1..Len(Script) /\ sent' = sent + 1
    BY <1>0, <1>12 DEF TypeOK, TransmitRaw
  <2>2. Script[sent + 1] \in Seq(Byte)
    BY <1>0, <2>1, ElementOfSeq
  <2>3. packets' \in Seq(Seq(Byte))
    BY <1>12, <2>2, AppendProperties DEF TypeOK, TransmitRaw
  <2> QED BY <1>12, <2>1, <2>3 DEF TypeOK, TransmitRaw
<1>13. CASE Answer
  <2>1. answered + 1 \in 1..Len(Answers) /\ answered' = answered + 1
    BY <1>0, <1>13 DEF TypeOK, Answer
  <2>2. Answers[answered + 1] \in Seq(Byte)
    BY <1>0, <2>1, ElementOfSeq
  <2>3. cmd' \in Seq(Seq(Byte))
    BY <1>13, <2>2, AppendProperties DEF TypeOK, Answer
  <2> QED BY <1>13, <2>1, <2>3 DEF TypeOK, Answer
<1>14. CASE Down
  <2>1. downs' \in 0..MaxDowns
    BY <1>0, <1>14 DEF TypeOK, Down
  <2>2. packets' = <<>> /\ cmd' = <<>> /\ tx' = <<>>
    BY <1>14 DEF Down
  <2>3. packets' \in Seq(Seq(Byte)) /\ cmd' \in Seq(Seq(Byte)) /\ tx' \in Seq(Byte)
    BY <2>2
  <2> QED BY <1>14, <2>1, <2>3 DEF TypeOK, Down
<1>15. CASE Reopen
  <2>1. recv_buf' \in Ring /\ recv_decoder' \in Decoder
    BY <1>15, FreshRingIs, FreshType DEF Reopen
  <2>2. boot' \in [sent : 0..Len(Script), out : Nat, answered : 0..Len(Answers),
                   relayed : Nat]
    BY <1>15, BootedType DEF Reopen
  <2> QED BY <1>15, <2>1, <2>2 DEF TypeOK, Reopen
<1>16. CASE UNCHANGED vars
  BY <1>16 DEF TypeOK, vars
<1>17. CASE Drain
  <2>1. flow' \in Nat
    BY <1>0, <1>17 DEF TypeOK, Drain
  <2> QED BY <1>17, <2>1 DEF TypeOK, Drain
<1> QED
  BY <1>1, <1>2, <1>3, <1>4, <1>5, <1>6, <1>7, <1>8, <1>9, <1>10, <1>11, <1>12, <1>13,
     <1>14, <1>15, <1>16, <1>17 DEF Next, RouterStep, Environment

\* Buffers, decoder and channels are what they seem: what is put into the ring
\* never makes it longer than it is, and decoding leaves a decoder.
THEOREM DataChannelTypes == Spec => []TypeOK
<1>1. Init => TypeOK
  BY InitType
<1>2. TypeOK /\ [Next]_vars => TypeOK'
  BY NextType
<1> QED BY <1>1, <1>2, PTL DEF Spec

-----------------------------------------------------------------------------
(* The command channel.                                                    *)

\* The ends of the whole frames at the start of a packet, and the answer there.
Whole(p) == {n \in 5..Len(p) : IsPrefix(nhdlc_frame(SubSeq(p, 5, n - 1)), p)}

FrameOf(p) ==
    IF Whole(p) = {} THEN <<>> ELSE <<SubSeq(p, 5, (CHOOSE n \in Whole(p) : TRUE) - 1)>>

\* The answer in what a read takes of a packet.
AnswerOf(p) == FrameOf(Taken(p))

LEMMA CarriedIs ==
    ASSUME NEW s
    PROVE  Carried(s) = Joined([i \in 1..Len(s) |-> AnswerOf(s[i])])
BY DEF Carried, AnswerOf, FrameOf, Whole

\* A frame starts a packet if its header, its payload and its trailer do.
LEMMA WholeIs ==
    ASSUME NEW p \in Seq(Byte), NEW n \in 5..Len(p)
    PROVE  IsPrefix(nhdlc_frame(SubSeq(p, 5, n - 1)), p)
              <=> /\ p[1] = NHDLC_CONTROL_CHAR /\ p[2] = 1
                  /\ p[3] = (n - 5) % 256 /\ p[4] = (n - 5) \div 256
                  /\ p[n] = NHDLC_CONTROL_CHAR
<1> DEFINE m == SubSeq(p, 5, n - 1)
           a == (n - 5) % 256
           b == (n - 5) \div 256
           h == <<NHDLC_CONTROL_CHAR, 1, a, b>>
           t == <<NHDLC_CONTROL_CHAR>>
           f == h \o m \o t
<1>0. Len(p) \in Nat /\ n \in Nat /\ n >= 5 /\ n <= Len(p) /\ \A i \in 1..Len(p) : p[i] \in Byte
  BY LenProperties
<1>1. m \in Seq(Byte) /\ Len(m) = n - 5 /\ \A i \in 1..(n - 5) : m[i] = p[i + 4]
  <2> DEFINE k == n - 1
  <2>1. k \in Nat /\ k >= 4 /\ \A i \in 5..k : p[i] \in Byte
    BY <1>0
  <2>2. SubSeq(p, 5, k) \in Seq(Byte)
        /\ Len(SubSeq(p, 5, k)) = (IF 5 <= k THEN k - 5 + 1 ELSE 0)
        /\ \A i \in 1..(k - 5 + 1) : SubSeq(p, 5, k)[i] = p[5 + i - 1]
    BY <2>1, SubSeqProperties
  <2>3. Len(SubSeq(p, 5, k)) = n - 5
    BY <1>0, <2>2
  <2>4. \A i \in 1..(n - 5) : SubSeq(p, 5, k)[i] = p[i + 4]
    <3> SUFFICES ASSUME NEW i \in 1..(n - 5) PROVE SubSeq(p, 5, k)[i] = p[i + 4]
      OBVIOUS
    <3>1. i \in 1..(k - 5 + 1) /\ 5 + i - 1 = i + 4
      BY <1>0
    <3> QED BY <2>2, <3>1
  <2> QED BY <2>2, <2>3, <2>4
<1>2. a \in Nat /\ b \in Nat
  BY <1>0
<1>3. nhdlc_frame(m) = f
  BY <1>1 DEF nhdlc_frame
<1>4. Len(h) = 4 /\ h[1] = 126 /\ h[2] = 1 /\ h[3] = a /\ h[4] = b
  BY <1>2 DEF NHDLC_CONTROL_CHAR
<1>5. Len(t) = 1 /\ t[1] = 126
  BY DEF NHDLC_CONTROL_CHAR
<1>a. h \in Seq(Nat)
  BY <1>2 DEF NHDLC_CONTROL_CHAR
<1>b. t \in Seq(Nat)
  BY DEF NHDLC_CONTROL_CHAR
<1>6. m \in Seq(Nat)
  BY <1>0, <1>1, ByteNat, SeqMonotonic
<1> HIDE DEF m, a, b, h, t
<1> DEFINE hm == h \o m
<1>7. hm \in Seq(Nat) /\ Len(hm) = Len(h) + Len(m)
      /\ \A i \in 1..(Len(h) + Len(m)) : hm[i] = IF i <= Len(h) THEN h[i] ELSE m[i - Len(h)]
  BY <1>a, <1>6, ConcatProperties
<1>c. hm \in Seq(Nat)
  BY <1>7
<1> HIDE DEF hm
<1>d. f = hm \o t
  BY DEF hm
<1>8. f \in Seq(Nat) /\ Len(f) = Len(hm) + Len(t)
      /\ \A i \in 1..(Len(hm) + Len(t)) : f[i] = IF i <= Len(hm) THEN hm[i] ELSE t[i - Len(hm)]
  BY <1>b, <1>c, <1>d, ConcatProperties
<1> HIDE DEF f
<1>9. Len(f) = n
  BY <1>0, <1>1, <1>4, <1>5, <1>7, <1>8
<1>10. \A i \in 1..n : f[i] = IF i <= 4 THEN h[i] ELSE IF i < n THEN p[i] ELSE 126
  <2> SUFFICES ASSUME NEW i \in 1..n
               PROVE  f[i] = IF i <= 4 THEN h[i] ELSE IF i < n THEN p[i] ELSE 126
    OBVIOUS
  <2>1. Len(hm) = n - 1
    BY <1>0, <1>1, <1>4, <1>7
  <2>2. CASE i <= 4
    <3>1. i <= Len(hm) /\ i \in 1..(Len(h) + Len(m)) /\ i <= Len(h)
      BY <1>0, <1>1, <1>4, <2>1, <2>2
    <3>2. i \in 1..(Len(hm) + Len(t))
      BY <1>5, <2>1, <1>0
    <3> QED BY <1>7, <1>8, <3>1, <3>2, <2>2
  <2>3. CASE i > 4 /\ i < n
    <3>1. i <= Len(hm) /\ i \in 1..(Len(h) + Len(m)) /\ ~(i <= Len(h))
      BY <1>0, <1>1, <1>4, <2>1, <2>3
    <3>2. i \in 1..(Len(hm) + Len(t))
      BY <1>5, <2>1, <1>0
    <3>3. i - 4 \in 1..(n - 5) /\ i - Len(h) = i - 4
      BY <1>0, <1>4, <2>3
    <3>4. m[i - 4] = p[(i - 4) + 4]
      BY <1>1, <3>3
    <3>5. (i - 4) + 4 = i
      OBVIOUS
    <3>6. f[i] = m[i - 4]
      BY <1>7, <1>8, <3>1, <3>2, <3>3
    <3> QED BY <3>4, <3>5, <3>6, <2>3
  <2>4. CASE i = n
    <3>1. ~(i <= Len(hm)) /\ i - Len(hm) = 1 /\ i \in 1..(Len(hm) + Len(t)) /\ ~(i <= 4)
      BY <1>0, <1>5, <2>1, <2>4
    <3> QED BY <1>5, <1>8, <3>1, <2>4
  <2> QED BY <2>2, <2>3, <2>4, <1>0
<1>11. IsPrefix(f, p) <=> \A i \in 1..n : f[i] = p[i]
  <2>1. \A i \in 1..n : f[i] \in Nat
    BY <1>8, <1>9, ElementOfSeq
  <2>2. \A i \in 1..n : p[i] \in Nat
    BY <1>0, ByteNat
  <2>3. Len(SubSeq(f, 1, n)) = n /\ \A i \in 1..n : SubSeq(f, 1, n)[i] = f[i]
    <3>1. SubSeq(f, 1, n) = f
      BY <1>8, <1>9, SubSeqFull
    <3> QED BY <1>9, <3>1
  <2>4. SubSeq(f, 1, n) \in Seq(Nat)
    BY <1>8, <1>9, SubSeqFull
  <2>5. SubSeq(p, 1, n) \in Seq(Nat)
        /\ Len(SubSeq(p, 1, n)) = n /\ \A i \in 1..n : SubSeq(p, 1, n)[i] = p[i]
    <3>1. SubSeq(p, 1, n) \in Seq(Nat)
          /\ Len(SubSeq(p, 1, n)) = (IF 1 <= n THEN n - 1 + 1 ELSE 0)
          /\ \A i \in 1..(n - 1 + 1) : SubSeq(p, 1, n)[i] = p[1 + i - 1]
      BY <1>0, <2>2, SubSeqProperties
    <3>2. n - 1 + 1 = n /\ 1 <= n /\ \A i \in 1..n : 1 + i - 1 = i
      BY <1>0
    <3>3. Len(SubSeq(p, 1, n)) = n
      BY <3>1, <3>2
    <3>4. \A i \in 1..n : SubSeq(p, 1, n)[i] = p[i]
      <4> SUFFICES ASSUME NEW i \in 1..n PROVE SubSeq(p, 1, n)[i] = p[i]
        OBVIOUS
      <4> QED BY <3>1, <3>2
    <3> QED BY <3>1, <3>3, <3>4
  <2> DEFINE sf == SubSeq(f, 1, n)
             sp == SubSeq(p, 1, n)
  <2> HIDE DEF sf, sp
  <2>6. sf = sp <=> \A i \in 1..n : f[i] = p[i]
    <3>1. (\A i \in 1..n : sf[i] = sp[i]) => sf = sp
      BY <2>3, <2>4, <2>5, SeqEqual DEF sf, sp
    <3> QED BY <3>1, <2>3, <2>5 DEF sf, sp
  <2>7. IsPrefix(f, p) <=> sf = sp
    BY <1>0, <1>9 DEF IsPrefix, sf, sp
  <2> QED BY <2>6, <2>7
<1>12. (\A i \in 1..n : f[i] = p[i])
         <=> p[1] = 126 /\ p[2] = 1 /\ p[3] = a /\ p[4] = b /\ p[n] = 126
  <2>1. 1 \in 1..n /\ 2 \in 1..n /\ 3 \in 1..n /\ 4 \in 1..n /\ n \in 1..n
    BY <1>0
  <2>2. f[1] = 126 /\ f[2] = 1 /\ f[3] = a /\ f[4] = b /\ f[n] = 126
    <3>1. f[1] = h[1] /\ f[2] = h[2] /\ f[3] = h[3] /\ f[4] = h[4]
      BY <1>10, <2>1
    <3>2. f[n] = 126
      BY <1>0, <1>10, <2>1
    <3> QED BY <1>4, <3>1, <3>2
  <2>3. ASSUME p[1] = 126 /\ p[2] = 1 /\ p[3] = a /\ p[4] = b /\ p[n] = 126, NEW i \in 1..n
        PROVE  f[i] = p[i]
    <3>1. i = 1 \/ i = 2 \/ i = 3 \/ i = 4 \/ i = n \/ (i > 4 /\ i < n)
      BY <1>0
    <3>2. (i > 4 /\ i < n) => f[i] = p[i]
      BY <1>10
    <3> QED BY <2>2, <2>3, <3>1, <3>2
  <2> QED BY <2>1, <2>2, <2>3
<1> QED BY <1>3, <1>11, <1>12 DEF m, a, b, NHDLC_CONTROL_CHAR

\* The checks of diag_cmd_recv find the answer, and nothing behind the packet.
LEMMA CheckedFinds ==
    ASSUME NEW p \in Seq(Byte), NEW buf \in Seq(Byte), Len(p) <= Len(buf),
           \A i \in 1..Len(p) : buf[i] = p[i]
    PROVE  FrameOf(p) = IF Checked(buf, Len(p)) THEN <<Payload(buf)>> ELSE <<>>
<1>0. Len(p) \in Nat /\ Len(buf) \in Nat /\ \A i \in 1..Len(p) : p[i] \in Byte
  BY LenProperties
<1> DEFINE k == PayloadLength(buf)
<1>1. ASSUME NEW n \in 5..Len(p)
      PROVE  n \in Whole(p) <=> Checked(buf, Len(p)) /\ n = k + 5
  <2>0. n \in Nat /\ n >= 5 /\ n <= Len(p)
    BY <1>0
  <2>1. buf[1] = p[1] /\ buf[2] = p[2] /\ buf[3] = p[3] /\ buf[4] = p[4] /\ buf[n] = p[n]
    BY <1>0, <2>0
  <2>2. p[3] \in Byte /\ p[4] \in Byte
    BY <1>0, <2>0
  <2>a. \A b \in Byte : b \in Nat /\ b < 256
    BY DEF Byte
  <2>3. n \in Whole(p) <=> /\ p[1] = NHDLC_CONTROL_CHAR /\ p[2] = 1
                           /\ p[3] = (n - 5) % 256 /\ p[4] = (n - 5) \div 256
                           /\ p[n] = NHDLC_CONTROL_CHAR
    BY WholeIs DEF Whole
  <2>4. (p[3] = (n - 5) % 256 /\ p[4] = (n - 5) \div 256) <=> n = (p[3] + 256 * p[4]) + 5
    <3> DEFINE x == p[3]
               y == p[4]
               l == n - 5
    <3>1. x \in Nat /\ x < 256 /\ y \in Nat
      BY <2>2, <2>a
    <3>4. l \in Nat /\ n = l + 5
      BY <2>0
    <3> HIDE DEF x, y, l
    <3>2. (x = l % 256 /\ y = l \div 256) <=> l = x + 256 * y
      BY <3>1, <3>4
    <3>3. l = x + 256 * y <=> n = (x + 256 * y) + 5
      BY <3>1, <3>4
    <3> QED BY <3>2, <3>3 DEF x, y, l
  <2>5. k = p[3] + 256 * p[4]
    BY <2>1 DEF PayloadLength
  <2> HIDE DEF k
  <2>6. k \in Nat
    <3> DEFINE x == p[3]
               y == p[4]
    <3>1. x \in Nat /\ y \in Nat
      BY <2>2, <2>a
    <3> HIDE DEF x, y
    <3>2. x + 256 * y \in Nat
      BY <3>1
    <3> QED BY <2>5, <3>2 DEF x, y
  <2>7. Checked(buf, Len(p)) /\ n = k + 5
          <=> /\ p[1] = NHDLC_CONTROL_CHAR /\ p[2] = 1 /\ n = k + 5
              /\ p[n] = NHDLC_CONTROL_CHAR
    <3>1. Len(buf) >= 4
      BY <1>0, <2>0
    <3>2. n = k + 5 => 4 + k + 1 = n /\ 4 + k + 1 <= Len(p)
      BY <2>0, <2>6, <1>0
    <3> QED BY <2>1, <3>1, <3>2 DEF Checked, k
  <2> QED BY <2>3, <2>4, <2>5, <2>7
<1>2. Whole(p) \subseteq 5..Len(p)
  BY DEF Whole
<1>3. CASE Checked(buf, Len(p))
  <2>1. 4 + k + 1 <= Len(p)
    BY <1>3 DEF Checked
  <2>2. k \in Nat
    <3>1. buf[3] \in Byte /\ buf[4] \in Byte
      <4>1. Len(buf) >= 4
        BY <1>3 DEF Checked
      <4> QED BY <4>1, <1>0, ElementOfSeq
    <3> DEFINE x == buf[3]
               y == buf[4]
    <3>2. x \in Nat /\ y \in Nat
      BY <3>1, ByteNat
    <3> HIDE DEF x, y
    <3>3. x + 256 * y \in Nat
      BY <3>2
    <3> QED BY <3>3 DEF x, y, PayloadLength
  <2> HIDE DEF k
  <2>3. k + 5 \in 5..Len(p)
    BY <1>0, <2>1, <2>2
  <2>4. Whole(p) = {k + 5}
    BY <1>1, <1>2, <1>3, <2>3
  <2>5. (CHOOSE n \in Whole(p) : TRUE) = k + 5
    BY <2>4
  <2>6. FrameOf(p) = <<SubSeq(p, 5, (k + 5) - 1)>>
    BY <2>4, <2>5, Zenon DEF FrameOf
  <2>7. (k + 5) - 1 = 4 + k
    BY <2>2
  <2>8. SubSeq(p, 5, 4 + k) = SubSeq(buf, 5, 4 + k)
    <3> DEFINE e == 4 + k
    <3>1. e \in Nat /\ e >= 4 /\ e <= Len(p)
      BY <2>1, <2>2, <1>0
    <3> HIDE DEF e
    <3> DEFINE x == SubSeq(p, 5, e)
               y == SubSeq(buf, 5, e)
               l == IF 5 <= e THEN e - 5 + 1 ELSE 0
    <3>2. \A i \in 5..e : p[i] \in Byte /\ buf[i] \in Byte /\ buf[i] = p[i]
      BY <1>0, <3>1
    <3>3. x \in Seq(Byte) /\ Len(x) = l /\ \A i \in 1..(e - 5 + 1) : x[i] = p[5 + i - 1]
      BY <3>1, <3>2, SubSeqProperties
    <3>4. y \in Seq(Byte) /\ Len(y) = l /\ \A i \in 1..(e - 5 + 1) : y[i] = buf[5 + i - 1]
      BY <3>1, <3>2, SubSeqProperties
    <3> HIDE DEF x, y
    <3>5. \A i \in 1..l : x[i] = y[i]
      <4> SUFFICES ASSUME NEW i \in 1..l PROVE x[i] = y[i]
        OBVIOUS
      <4>1. i \in 1..(e - 5 + 1) /\ 5 + i - 1 \in 5..e
        BY <3>1
      <4> QED BY <4>1, <3>2, <3>3, <3>4
    <3>6. x = y
      BY <3>3, <3>4, <3>5, SeqEqual
    <3> QED BY <3>6 DEF x, y, e
  <2> QED BY <1>3, <2>6, <2>7, <2>8 DEF Payload, k
<1>4. CASE ~Checked(buf, Len(p))
  <2>1. Whole(p) = {}
    BY <1>1, <1>2, <1>4
  <2> QED BY <1>4, <2>1 DEF FrameOf
<1> QED BY <1>3, <1>4

-----------------------------------------------------------------------------
(* What was passed on, and sent, since the last boot.                      *)

Behind(s, b) == SubSeq(s, b + 1, Len(s))

LEMMA BehindType ==
    ASSUME NEW A, NEW s \in Seq(A), NEW b \in Nat, b <= Len(s)
    PROVE  Behind(s, b) \in Seq(A) /\ Len(Behind(s, b)) = Len(s) - b
<1>0. Len(s) \in Nat /\ \A i \in 1..Len(s) : s[i] \in A
  BY LenProperties
<1> DEFINE n == Len(s)
<1>1. n \in Nat /\ b <= n /\ \A i \in (b + 1)..n : s[i] \in A
  BY <1>0
<1> HIDE DEF n
<1>2. /\ SubSeq(s, b + 1, n) \in Seq(A)
      /\ Len(SubSeq(s, b + 1, n)) = IF b + 1 <= n THEN n - (b + 1) + 1 ELSE 0
  BY <1>1, SubSeqProperties
<1>3. (IF b + 1 <= n THEN n - (b + 1) + 1 ELSE 0) = n - b
  BY <1>1
<1> QED BY <1>2, <1>3 DEF Behind, n

LEMMA BehindNothing ==
    ASSUME NEW A, NEW s \in Seq(A)
    PROVE  Behind(s, Len(s)) = <<>>
<1>1. Len(s) \in Nat
  BY LenProperties
<1>2. Len(s) + 1 \in Int /\ Len(s) \in Int /\ Len(s) < Len(s) + 1
  BY <1>1
<1> QED BY <1>2, SubSeqEmpty DEF Behind

LEMMA BehindConcat ==
    ASSUME NEW A, NEW s \in Seq(A), NEW x \in Seq(A), NEW b \in Nat, b <= Len(s)
    PROVE  Behind(s \o x, b) = Behind(s, b) \o x
<1> DEFINE y == s \o x
           u == Behind(y, b)
           v == Behind(s, b)
           w == v \o x
<1>0. Len(s) \in Nat /\ Len(x) \in Nat
  BY LenProperties
<1>1. /\ y \in Seq(A) /\ Len(y) = Len(s) + Len(x)
      /\ \A i \in 1..(Len(s) + Len(x)) : y[i] = IF i <= Len(s) THEN s[i] ELSE x[i - Len(s)]
  BY ConcatProperties
<1> HIDE DEF y
<1>2. u \in Seq(A) /\ Len(u) = Len(y) - b
  <2>1. b <= Len(y)
    BY <1>0, <1>1
  <2> QED BY <1>1, <2>1, BehindType
<1>3. v \in Seq(A) /\ Len(v) = Len(s) - b
  BY BehindType
<1>4. \A i \in 1..(Len(s) - b) : v[i] = s[b + i]
  <2> SUFFICES ASSUME NEW i \in 1..(Len(s) - b) PROVE v[i] = s[b + i]
    OBVIOUS
  <2>1. \A j \in (b + 1)..Len(s) : s[j] \in A
    BY <1>0, ElementOfSeq
  <2>2. i \in 1..(Len(s) - (b + 1) + 1) /\ (b + 1) + i - 1 = b + i
    BY <1>0
  <2>3. SubSeq(s, b + 1, Len(s))[i] = s[(b + 1) + i - 1]
    BY <1>0, <2>1, <2>2, SubSeqProperties
  <2> QED BY <2>2, <2>3 DEF Behind
<1>5. \A i \in 1..(Len(y) - b) : u[i] = y[b + i]
  <2> SUFFICES ASSUME NEW i \in 1..(Len(y) - b) PROVE u[i] = y[b + i]
    OBVIOUS
  <2>0. Len(y) \in Nat
    BY <1>0, <1>1
  <2>1. \A j \in (b + 1)..Len(y) : y[j] \in A
    BY <1>1, <2>0, ElementOfSeq
  <2>2. i \in 1..(Len(y) - (b + 1) + 1) /\ (b + 1) + i - 1 = b + i
    BY <2>0
  <2>3. SubSeq(y, b + 1, Len(y))[i] = y[(b + 1) + i - 1]
    BY <2>0, <2>1, <2>2, SubSeqProperties
  <2> QED BY <2>2, <2>3 DEF Behind
<1> HIDE DEF u, v
<1>6. /\ w \in Seq(A) /\ Len(w) = Len(v) + Len(x)
      /\ \A i \in 1..(Len(v) + Len(x)) : w[i] = IF i <= Len(v) THEN v[i] ELSE x[i - Len(v)]
  BY <1>3, ConcatProperties
<1> HIDE DEF w
<1>7. Len(u) = Len(w)
  BY <1>0, <1>1, <1>2, <1>3, <1>6
<1>8. \A i \in 1..Len(u) : u[i] = w[i]
  <2> SUFFICES ASSUME NEW i \in 1..Len(u) PROVE u[i] = w[i]
    OBVIOUS
  <2>1. i \in Nat /\ i >= 1 /\ i <= Len(s) + Len(x) - b /\ i \in 1..(Len(y) - b)
    BY <1>0, <1>1, <1>2
  <2>2. u[i] = y[b + i] /\ b + i \in 1..(Len(s) + Len(x))
    BY <1>0, <1>5, <2>1
  <2>3. i \in 1..(Len(v) + Len(x))
    BY <1>0, <1>3, <2>1
  <2>4. CASE i <= Len(v)
    <3>1. b + i <= Len(s) /\ i \in 1..(Len(s) - b)
      BY <1>0, <1>3, <2>1, <2>4
    <3> QED BY <1>1, <1>4, <1>6, <2>2, <2>3, <2>4, <3>1
  <2>5. CASE ~(i <= Len(v))
    <3>1. ~(b + i <= Len(s)) /\ (b + i) - Len(s) = i - Len(v)
      BY <1>0, <1>3, <2>1, <2>5
    <3> QED BY <1>1, <1>6, <2>2, <2>3, <2>5, <3>1
  <2> QED BY <2>4, <2>5
<1>9. u = w
  BY <1>2, <1>6, <1>7, <1>8, SeqEqual
<1> QED BY <1>9 DEF u, w, v, y

LEMMA BehindAppend ==
    ASSUME NEW A, NEW s \in Seq(A), NEW a \in A, NEW b \in Nat, b <= Len(s)
    PROVE  Behind(Append(s, a), b) = Behind(s, b) \o <<a>>
<1>1. Append(s, a) = s \o <<a>>
  BY AppendIsConcat
<1> DEFINE x == <<a>>
<1>2. x \in Seq(A)
  OBVIOUS
<1> HIDE DEF x
<1>3. Behind(s \o x, b) = Behind(s, b) \o x
  BY <1>2, BehindConcat
<1> QED BY <1>1, <1>3 DEF x

\* The next one that is sent.
LEMMA BegunGrows ==
    ASSUME NEW A, NEW S \in Seq(A), NEW b \in Nat, NEW n \in Nat, b <= n, n < Len(S)
    PROVE  /\ SubSeq(S, b + 1, n) \in Seq(A)
           /\ Len(SubSeq(S, b + 1, n)) = n - b
           /\ S[n + 1] \in A
           /\ SubSeq(S, b + 1, n + 1) = SubSeq(S, b + 1, n) \o <<S[n + 1]>>
<1>0. Len(S) \in Nat /\ \A i \in 1..Len(S) : S[i] \in A
  BY LenProperties
<1>1. b + 1 \in 1..Len(S) /\ n + 1 \in (b + 1)..Len(S) /\ (n + 1) - 1 = n /\ n + 1 \in 1..Len(S)
  BY <1>0
<1>2. SubSeq(S, b + 1, n + 1) = SubSeq(S, b + 1, (n + 1) - 1) \o <<S[n + 1]>>
  BY <1>1, SubSeqRecursiveSecond
<1>3. \A i \in (b + 1)..n : S[i] \in A
  BY <1>0
<1>4. /\ SubSeq(S, b + 1, n) \in Seq(A)
      /\ Len(SubSeq(S, b + 1, n)) = IF b + 1 <= n THEN n - (b + 1) + 1 ELSE 0
  BY <1>3, SubSeqProperties
<1>5. (IF b + 1 <= n THEN n - (b + 1) + 1 ELSE 0) = n - b
  OBVIOUS
<1> QED BY <1>0, <1>1, <1>2, <1>4, <1>5

LEMMA BegunType ==
    ASSUME NEW A, NEW S \in Seq(A), NEW b \in Nat, NEW n \in Nat, b <= n, n <= Len(S)
    PROVE  /\ SubSeq(S, b + 1, n) \in Seq(A)
           /\ Len(SubSeq(S, b + 1, n)) = n - b
<1>0. Len(S) \in Nat /\ \A i \in 1..Len(S) : S[i] \in A
  BY LenProperties
<1>3. \A i \in (b + 1)..n : S[i] \in A
  BY <1>0
<1>4. /\ SubSeq(S, b + 1, n) \in Seq(A)
      /\ Len(SubSeq(S, b + 1, n)) = IF b + 1 <= n THEN n - (b + 1) + 1 ELSE 0
  BY <1>3, SubSeqProperties
<1>5. (IF b + 1 <= n THEN n - (b + 1) + 1 ELSE 0) = n - b
  OBVIOUS
<1> QED BY <1>4, <1>5

LEMMA PrefixOfConcat ==
    ASSUME NEW A, NEW s \in Seq(A), NEW t \in Seq(A)
    PROVE  IsPrefix(s, s \o t)
<1> DEFINE y == s \o t
           n == Len(s)
<1>0. n \in Nat /\ Len(t) \in Nat /\ \A i \in 1..n : s[i] \in A
  BY LenProperties
<1>1. /\ y \in Seq(A) /\ Len(y) = n + Len(t)
      /\ \A i \in 1..(n + Len(t)) : y[i] = IF i <= n THEN s[i] ELSE t[i - n]
  BY ConcatProperties
<1> HIDE DEF y
<1>2. SubSeq(s, 1, n) = s
  BY SubSeqFull
<1> HIDE DEF n
<1> DEFINE u == SubSeq(y, 1, n)
<1>3. \A i \in 1..n : y[i] = s[i] /\ y[i] \in A
  BY <1>0, <1>1
<1>4. u \in Seq(A) /\ Len(u) = (IF 1 <= n THEN n - 1 + 1 ELSE 0)
      /\ \A i \in 1..(n - 1 + 1) : u[i] = y[1 + i - 1]
  BY <1>0, <1>3, SubSeqProperties
<1> HIDE DEF u
<1>5. Len(u) = n
  BY <1>0, <1>4
<1>6. \A i \in 1..n : u[i] = s[i]
  <2> SUFFICES ASSUME NEW i \in 1..n PROVE u[i] = s[i]
    OBVIOUS
  <2>1. i \in 1..(n - 1 + 1) /\ 1 + i - 1 = i
    BY <1>0
  <2> QED BY <1>3, <1>4, <2>1
<1>7. u = s
  BY <1>4, <1>5, <1>6, SeqEqual DEF n
<1>8. n <= Len(y) /\ SubSeq(s, 1, n) = SubSeq(y, 1, n)
  BY <1>0, <1>1, <1>2, <1>7 DEF u
<1> QED BY <1>8 DEF IsPrefix, n, y

-----------------------------------------------------------------------------
(* The answers.                                                            *)

LEMMA AnswerOfType ==
    ASSUME NEW p \in Seq(Byte)
    PROVE  AnswerOf(p) \in Seq(Seq(Byte))
<1> DEFINE t == Taken(p)
<1>t. t \in Seq(Byte)
  BY TakenType
<1> HIDE DEF t
<1>0. Len(t) \in Nat /\ Len(t) <= Len(t)
  BY <1>t, LenProperties
<1>1. FrameOf(t) = IF Checked(t, Len(t)) THEN <<Payload(t)>> ELSE <<>>
  BY <1>t, <1>0, CheckedFinds
<1>2. Checked(t, Len(t)) => Payload(t) \in Seq(Byte)
  BY <1>t, <1>0, PayloadType
<1> QED BY <1>1, <1>2 DEF AnswerOf, t

Answered(s) == [i \in 1..Len(s) |-> AnswerOf(s[i])]

LEMMA AnsweredType ==
    ASSUME NEW s \in Seq(Seq(Byte))
    PROVE  /\ Answered(s) \in Seq(Seq(Seq(Byte)))
           /\ Len(Answered(s)) = Len(s)
           /\ \A i \in 1..Len(s) : Answered(s)[i] = AnswerOf(s[i])
<1>0. Len(s) \in Nat /\ \A i \in 1..Len(s) : s[i] \in Seq(Byte)
  BY LenProperties
<1>1. \A i \in 1..Len(s) : AnswerOf(s[i]) \in Seq(Seq(Byte))
  BY <1>0, AnswerOfType
<1>2. Answered(s) \in Seq(Seq(Seq(Byte)))
  BY <1>0, <1>1, IsASeq DEF Answered
<1>3. Len(Answered(s)) = Len(s)
  BY <1>0 DEF Answered
<1>4. \A i \in 1..Len(s) : Answered(s)[i] = AnswerOf(s[i])
  BY Zenon DEF Answered
<1> QED BY <1>2, <1>3, <1>4

LEMMA CarriedType ==
    ASSUME NEW s \in Seq(Seq(Byte))
    PROVE  Carried(s) \in Seq(Seq(Byte)) /\ Carried(s) = Joined(Answered(s))
<1>1. Carried(s) = Joined(Answered(s))
  BY CarriedIs DEF Answered
<1> QED BY <1>1, AnsweredType, JoinedType

LEMMA CarriedNothing == Carried(<<>>) = <<>>
<1> DEFINE z == <<>>
<1>1. z \in Seq(Seq(Byte)) /\ Len(z) = 0
  OBVIOUS
<1> HIDE DEF z
<1>2. Answered(z) \in Seq(Seq(Seq(Byte))) /\ Len(Answered(z)) = 0
  BY <1>1, AnsweredType
<1>3. Answered(z) = <<>>
  BY <1>2, EmptySeq
<1>4. Carried(z) = Joined(Answered(z))
  BY <1>1, CarriedType
<1> QED BY <1>3, <1>4, JoinedNone DEF z

LEMMA CarriedConcat ==
    ASSUME NEW s \in Seq(Seq(Byte)), NEW t \in Seq(Seq(Byte))
    PROVE  Carried(s \o t) = Carried(s) \o Carried(t)
<1> DEFINE y == s \o t
           u == Answered(s)
           v == Answered(t)
           w == u \o v
           z == Answered(y)
<1>0. Len(s) \in Nat /\ Len(t) \in Nat
  BY LenProperties
<1>1. /\ y \in Seq(Seq(Byte)) /\ Len(y) = Len(s) + Len(t)
      /\ \A i \in 1..(Len(s) + Len(t)) : y[i] = IF i <= Len(s) THEN s[i] ELSE t[i - Len(s)]
  BY ConcatProperties
<1> HIDE DEF y
<1>2. /\ u \in Seq(Seq(Seq(Byte))) /\ Len(u) = Len(s)
      /\ \A i \in 1..Len(s) : u[i] = AnswerOf(s[i])
  BY AnsweredType
<1>3. /\ v \in Seq(Seq(Seq(Byte))) /\ Len(v) = Len(t)
      /\ \A i \in 1..Len(t) : v[i] = AnswerOf(t[i])
  BY AnsweredType
<1>4. /\ z \in Seq(Seq(Seq(Byte))) /\ Len(z) = Len(y)
      /\ \A i \in 1..Len(y) : z[i] = AnswerOf(y[i])
  BY <1>1, AnsweredType
<1>a. u \in Seq(Seq(Seq(Byte))) /\ v \in Seq(Seq(Seq(Byte)))
  BY <1>2, <1>3
<1> HIDE DEF u, v, z
<1>5. /\ w \in Seq(Seq(Seq(Byte))) /\ Len(w) = Len(u) + Len(v)
      /\ \A i \in 1..(Len(u) + Len(v)) : w[i] = IF i <= Len(u) THEN u[i] ELSE v[i - Len(u)]
  BY <1>a, ConcatProperties
<1> HIDE DEF w
<1>6. Len(w) = Len(z)
  BY <1>1, <1>2, <1>3, <1>4, <1>5
<1>7. \A i \in 1..Len(z) : z[i] = w[i]
  <2> SUFFICES ASSUME NEW i \in 1..Len(z) PROVE z[i] = w[i]
    OBVIOUS
  <2>1. i \in 1..(Len(s) + Len(t)) /\ i \in 1..Len(y) /\ i \in 1..(Len(u) + Len(v)) /\ i \in Nat
    BY <1>0, <1>1, <1>2, <1>3, <1>4
  <2>2. z[i] = AnswerOf(y[i])
    BY <1>4, <2>1
  <2>3. CASE i <= Len(s)
    <3>1. i \in 1..Len(s) /\ i <= Len(u)
      BY <1>0, <1>2, <2>1, <2>3
    <3>2. y[i] = s[i] /\ w[i] = u[i] /\ u[i] = AnswerOf(s[i])
      BY <1>1, <1>2, <1>5, <2>1, <2>3, <3>1
    <3> QED BY <2>2, <3>2
  <2>4. CASE ~(i <= Len(s))
    <3>1. i - Len(s) \in 1..Len(t) /\ ~(i <= Len(u)) /\ i - Len(u) = i - Len(s)
      BY <1>0, <1>2, <2>1, <2>4
    <3>2. y[i] = t[i - Len(s)] /\ w[i] = v[i - Len(s)]
      BY <1>1, <1>5, <2>1, <2>4, <3>1
    <3>3. v[i - Len(s)] = AnswerOf(t[i - Len(s)])
      BY <1>3, <3>1
    <3> QED BY <2>2, <3>2, <3>3
  <2> QED BY <2>3, <2>4
<1>8. z = w
  BY <1>4, <1>5, <1>6, <1>7, SeqEqual
<1>9. Joined(w) = Joined(u) \o Joined(v)
  BY <1>2, <1>3, JoinedConcat DEF w
<1>10. Carried(s) = Joined(u) /\ Carried(t) = Joined(v) /\ Carried(y) = Joined(z)
  BY <1>1, CarriedType DEF u, v, z
<1> QED BY <1>8, <1>9, <1>10 DEF y

LEMMA CarriedOne ==
    ASSUME NEW p \in Seq(Byte)
    PROVE  Carried(<<p>>) = AnswerOf(p)
<1> DEFINE z == <<p>>
           a == AnswerOf(p)
<1>1. z \in Seq(Seq(Byte)) /\ Len(z) = 1 /\ z[1] = p
  OBVIOUS
<1> HIDE DEF z
<1>2. Answered(z) \in Seq(Seq(Seq(Byte))) /\ Len(Answered(z)) = 1
      /\ \A i \in 1..1 : Answered(z)[i] = AnswerOf(z[i])
  BY <1>1, AnsweredType
<1>3. Answered(z)[1] = a
  BY <1>1, <1>2
<1>4. a \in Seq(Seq(Byte))
  BY AnswerOfType
<1> HIDE DEF a
<1>5. Answered(z) = <<a>>
  <2> DEFINE y == <<a>>
  <2>1. y \in Seq(Seq(Seq(Byte))) /\ Len(y) = 1 /\ y[1] = a
    BY <1>4
  <2> HIDE DEF y
  <2>2. \A i \in 1..1 : Answered(z)[i] = y[i]
    BY <1>3, <2>1
  <2>3. Answered(z) = y
    BY <1>2, <2>1, <2>2, SeqEqual
  <2> QED BY <2>3 DEF y
<1>6. Joined(<<a>>) = a
  BY <1>4, JoinedOne
<1>7. Carried(z) = Joined(Answered(z))
  BY <1>1, CarriedType
<1> QED BY <1>5, <1>6, <1>7 DEF z, a

\* What was passed on since the boot, and what is in the channel, are the first
\* of the answers sent since then; all of them while the channel is up.
AnswersTrack ==
    /\ boot.answered <= answered /\ boot.relayed <= Len(relayed)
    /\ ~up => cmd = <<>>
    /\ pc = "closed" => ~up
    /\ pc # "closed" =>
          \E lost \in Seq(Seq(Byte)) :
             /\ up => lost = <<>>
             /\ (Behind(relayed, boot.relayed) \o Carried(cmd)) \o lost
                   = Carried(SubSeq(Answers, boot.answered + 1, answered))

LEMMA AnswersTrackInit == Init => AnswersTrack
<1> SUFFICES ASSUME Init PROVE AnswersTrack
  OBVIOUS
<1> DEFINE z == <<>>
<1>1. z \in Seq(Seq(Byte)) /\ Len(z) = 0
  OBVIOUS
<1>2. boot.answered = 0 /\ boot.relayed = 0 /\ answered = 0 /\ relayed = z /\ cmd = z
      /\ up = TRUE /\ pc = "select"
  BY DEF Init
<1>3. SubSeq(Answers, 1, 0) = z
  BY SubSeqEmpty
<1> HIDE DEF z
<1>4. Behind(z, 0) = z
  BY <1>1, BehindNothing DEF z
<1>5. Carried(z) = z
  BY CarriedNothing DEF z
<1>6. z \o z = z
  BY <1>1, ConcatEmptySeq DEF z
<1>7. SubSeq(Answers, boot.answered + 1, answered) = z
  BY <1>2, <1>3
<1>8. (Behind(relayed, boot.relayed) \o Carried(cmd)) \o z
         = Carried(SubSeq(Answers, boot.answered + 1, answered))
  BY <1>2, <1>4, <1>5, <1>6, <1>7
<1>9. \E lost \in Seq(Seq(Byte)) :
         /\ up => lost = <<>>
         /\ (Behind(relayed, boot.relayed) \o Carried(cmd)) \o lost
               = Carried(SubSeq(Answers, boot.answered + 1, answered))
  BY <1>1, <1>8 DEF z
<1>10. boot.answered <= answered /\ boot.relayed <= Len(relayed)
  BY <1>1, <1>2
<1> QED BY <1>2, <1>9, <1>10 DEF AnswersTrack

\* A step of the data channel.
LEMMA AnswersTrackKept ==
    ASSUME AnswersTrack, UNCHANGED <<relayed, cmd, answered, up, boot>>,
           pc' = "closed" => ~up, pc # "closed" \/ pc' = "closed"
    PROVE  AnswersTrack'
BY DEF AnswersTrack

LEMMA AnswersTrackNext == TypeOK /\ AnswersTrack /\ [Next]_vars => AnswersTrack'
<1> SUFFICES ASSUME TypeOK, AnswersTrack, [Next]_vars PROVE AnswersTrack'
  OBVIOUS
<1> USE DEF perif, subsystem, command, history
<1>0. /\ Answers \in Seq(Seq(Byte)) /\ relayed \in Seq(Seq(Byte)) /\ cmd \in Seq(Seq(Byte))
      /\ stack \in Seq(Byte)
  BY DataChannelAssumption DEF TypeOK
<1>a. /\ Len(Answers) \in Nat /\ Len(relayed) \in Nat
      /\ answered \in Nat /\ answered <= Len(Answers)
      /\ boot.answered \in Nat /\ boot.relayed \in Nat
  <2>1. Len(Answers) \in Nat /\ Len(relayed) \in Nat
    BY <1>0, LenProperties
  <2> QED BY <2>1 DEF TypeOK
<1>b. boot.answered <= answered /\ boot.relayed <= Len(relayed)
  BY DEF AnswersTrack
<1> DEFINE B == Behind(relayed, boot.relayed)
           C == Carried(cmd)
           G == SubSeq(Answers, boot.answered + 1, answered)
<1>c. B \in Seq(Seq(Byte)) /\ C \in Seq(Seq(Byte)) /\ G \in Seq(Seq(Byte))
  <2>1. B \in Seq(Seq(Byte))
    BY <1>0, <1>a, <1>b, BehindType
  <2>2. C \in Seq(Seq(Byte))
    BY <1>0, CarriedType
  <2>3. G \in Seq(Seq(Byte))
    BY <1>0, <1>a, <1>b, BegunType
  <2> QED BY <2>1, <2>2, <2>3
<1>1. CASE diag_data_recv
  BY <1>1, AnswersTrackKept DEF diag_data_recv
<1>2. CASE circ_read_Full
  BY <1>2, AnswersTrackKept DEF circ_read_Full
<1>3. CASE circ_read
  BY <1>3, AnswersTrackKept DEF circ_read
<1>4. CASE Eagain
  BY <1>4, AnswersTrackKept DEF Eagain
<1>5. CASE ReadError
  BY <1>5, AnswersTrackKept DEF ReadError
<1>6. CASE Decode
  <2>1. UNCHANGED <<relayed, cmd, answered, up, boot>> /\ pc # "closed"
        /\ pc' # "closed"
    BY <1>6 DEF Decode, dm_broadcast
  <2> QED BY <2>1, AnswersTrackKept
<1>7. CASE diag_data_recv_raw
  BY <1>7, AnswersTrackKept DEF diag_data_recv_raw, dm_broadcast
<1>8. CASE diag_cmd_recv
  <2> DEFINE p == Head(cmd)
             q == Taken(p)
             buf == Over(q)
             a == AnswerOf(p)
             R == Tail(cmd)
  <2>1. cmd # <<>> /\ cmd' = R /\ pc = "select" /\ pc' = pc /\ up /\ up' = up
        /\ UNCHANGED <<answered, boot>>
        /\ relayed' = IF Checked(buf, Len(q)) THEN Append(relayed, Payload(buf)) ELSE relayed
    BY <1>8 DEF diag_cmd_recv
  <2>2. p \in Seq(Byte) /\ R \in Seq(Seq(Byte)) /\ cmd = <<p>> \o R
    BY <1>0, <2>1, JoinedFirst
  <2>q. q \in Seq(Byte)
    BY <2>2, TakenType
  <2>a. a = FrameOf(q)
    BY DEF AnswerOf
  <2>3. buf \in Seq(Byte) /\ Len(q) <= Len(buf) /\ Len(q) \in Nat
        /\ \A i \in 1..Len(q) : buf[i] = q[i]
    BY <1>0, <2>q, OverType, LenProperties
  <2>4. a = IF Checked(buf, Len(q)) THEN <<Payload(buf)>> ELSE <<>>
    BY <2>q, <2>a, <2>3, CheckedFinds
  <2>5. a \in Seq(Seq(Byte))
    BY <2>2, AnswerOfType
  <2> HIDE DEF buf, q
  <2>6. Checked(buf, Len(q)) => Payload(buf) \in Seq(Byte)
    BY <2>3, PayloadType
  <2>7. relayed' = relayed \o a
    <3>1. CASE Checked(buf, Len(q))
      <4>1. Append(relayed, Payload(buf)) = relayed \o <<Payload(buf)>>
        BY <1>0, <2>6, <3>1, AppendIsConcat
      <4> QED BY <2>1, <2>4, <3>1, <4>1
    <3>2. CASE ~Checked(buf, Len(q))
      <4>1. relayed \o <<>> = relayed
        BY <1>0, ConcatEmptySeq
      <4> QED BY <2>1, <2>4, <3>2, <4>1
    <3> QED BY <3>1, <3>2
  <2>8. C = a \o Carried(R)
    <3> DEFINE x == <<p>>
    <3>1. x \in Seq(Seq(Byte))
      BY <2>2
    <3>2. Carried(x) = a
      BY <2>2, CarriedOne
    <3> HIDE DEF x, p, R
    <3>3. Carried(x \o R) = Carried(x) \o Carried(R)
      BY <2>2, <3>1, CarriedConcat
    <3> QED BY <2>2, <3>2, <3>3 DEF x
  <2>9. Carried(R) \in Seq(Seq(Byte))
    BY <2>2, CarriedType
  <2> HIDE DEF p, a, R
  <2>10. Behind(relayed', boot.relayed) = B \o a
    BY <1>0, <1>a, <1>b, <2>5, <2>7, BehindConcat
  <2>11. Behind(relayed', boot.relayed) \o Carried(R) = B \o C
    <3> DEFINE D == Carried(R)
    <3> HIDE DEF B, C, D
    <3>1. (B \o a) \o D = B \o (a \o D)
      BY <1>c, <2>5, <2>9, Regroup DEF D
    <3> QED BY <2>8, <2>10, <3>1 DEF D
  <2>12. boot.relayed <= Len(relayed')
    <3>1. Len(relayed \o a) = Len(relayed) + Len(a) /\ Len(a) \in Nat
      BY <1>0, <2>5, ConcatProperties, LenProperties
    <3> QED BY <1>a, <1>b, <2>7, <3>1
  <2>13. PICK lost \in Seq(Seq(Byte)) : (up => lost = <<>>) /\ (B \o C) \o lost = Carried(G)
    BY <2>1 DEF AnswersTrack
  <2>14. (Behind(relayed', boot'.relayed) \o Carried(cmd')) \o lost
            = Carried(SubSeq(Answers, boot'.answered + 1, answered'))
    BY <2>1, <2>11, <2>13
  <2>15. \E l \in Seq(Seq(Byte)) :
            /\ up' => l = <<>>
            /\ (Behind(relayed', boot'.relayed) \o Carried(cmd')) \o l
                  = Carried(SubSeq(Answers, boot'.answered + 1, answered'))
    BY <2>1, <2>13, <2>14
  <2> QED BY <1>b, <2>1, <2>12, <2>15 DEF AnswersTrack
<1>9. CASE diag_cmd_recv_Error
  <2>1. UNCHANGED <<cmd, answered, up, boot>> /\ pc' = "closed" /\ ~up
    BY <1>9 DEF diag_cmd_recv_Error
  <2>2. PICK buf \in {stack, <<>>} :
          relayed' = IF Checked(buf, Len(buf)) THEN Append(relayed, Payload(buf)) ELSE relayed
    BY <1>9 DEF diag_cmd_recv_Error
  <2>3. buf \in Seq(Byte)
    <3>1. <<>> \in Seq(Byte)
      OBVIOUS
    <3>2. buf = stack \/ buf = <<>>
      OBVIOUS
    <3> QED BY <1>0, <3>1, <3>2, Zenon
  <2>4. Len(buf) \in Nat /\ Len(buf) <= Len(buf)
    BY <2>3, LenProperties
  <2>5. Checked(buf, Len(buf)) => Payload(buf) \in Seq(Byte)
    BY <2>3, <2>4, PayloadType
  <2>6. Checked(buf, Len(buf)) => Len(Append(relayed, Payload(buf))) = Len(relayed) + 1
    BY <1>0, <2>5, AppendProperties
  <2>7. Len(relayed') >= Len(relayed)
    BY <1>a, <2>2, <2>6
  <2>8. boot.relayed <= Len(relayed')
    <3>1. Len(relayed') \in Nat
      BY <1>a, <2>2, <2>6
    <3> QED BY <1>a, <1>b, <2>7, <3>1
  <2> QED BY <1>b, <2>1, <2>8 DEF AnswersTrack
<1>10. CASE Begin
  BY <1>10, AnswersTrackKept DEF Begin, AnswersTrack
<1>11. CASE Transmit
  BY <1>11, AnswersTrackKept DEF Transmit, AnswersTrack
<1>12. CASE TransmitRaw
  BY <1>12, AnswersTrackKept DEF TransmitRaw, AnswersTrack
<1>13. CASE Answer
  <2> DEFINE p == Answers[answered + 1]
             x == <<p>>
             a == AnswerOf(p)
  <2>1. up /\ up' = up /\ answered < Len(Answers) /\ answered' = answered + 1
        /\ cmd' = Append(cmd, p) /\ UNCHANGED <<relayed, boot, pc>>
    BY <1>13 DEF Answer
  <2>2. p \in Seq(Byte) /\ SubSeq(Answers, boot.answered + 1, answered + 1) = G \o x
    <3> DEFINE b == boot.answered
    <3>1. b \in Nat /\ answered \in Nat /\ b <= answered /\ answered < Len(Answers)
      BY <1>a, <1>b, <2>1
    <3> HIDE DEF b
    <3>2. p \in Seq(Byte)
          /\ SubSeq(Answers, b + 1, answered + 1) = SubSeq(Answers, b + 1, answered) \o x
      BY <1>0, <3>1, BegunGrows
    <3> QED BY <3>2 DEF b
  <2>3. x \in Seq(Seq(Byte)) /\ Append(cmd, p) = cmd \o x
    BY <1>0, <2>2, AppendIsConcat
  <2>4. Carried(x) = a
    BY <2>2, CarriedOne
  <2>5. a \in Seq(Seq(Byte))
    BY <2>2, AnswerOfType
  <2> HIDE DEF p, x, a, G
  <2>6. Carried(cmd \o x) = C \o a
    BY <1>0, <2>3, <2>4, CarriedConcat
  <2>7. Carried(G \o x) = Carried(G) \o a
    BY <1>c, <2>3, <2>4, CarriedConcat
  <2>8. pc # "closed"
    BY <2>1 DEF AnswersTrack
  <2>9. B \o C = Carried(G)
    <3>1. PICK lost \in Seq(Seq(Byte)) : (up => lost = <<>>) /\ (B \o C) \o lost = Carried(G)
      BY <2>8 DEF AnswersTrack, G
    <3>2. B \o C \in Seq(Seq(Byte))
      BY <1>c, ConcatProperties
    <3>3. (B \o C) \o <<>> = B \o C
      BY <3>2, ConcatEmptySeq
    <3> QED BY <2>1, <3>1, <3>3
  <2> HIDE DEF B, C
  <2>10. B \o (C \o a) = (B \o C) \o a
    BY <1>c, <2>5, Regroup
  <2>11. B \o (C \o a) \in Seq(Seq(Byte))
    <3>1. C \o a \in Seq(Seq(Byte))
      BY <1>c, <2>5, ConcatProperties
    <3> QED BY <1>c, <3>1, ConcatProperties
  <2>12. (B \o (C \o a)) \o <<>> = Carried(G) \o a
    <3>1. (B \o (C \o a)) \o <<>> = B \o (C \o a)
      BY <2>11, ConcatEmptySeq
    <3> QED BY <2>9, <2>10, <3>1
  <2>13. Behind(relayed', boot'.relayed) = B /\ Carried(cmd') = C \o a
         /\ Carried(SubSeq(Answers, boot'.answered + 1, answered')) = Carried(G) \o a
    BY <2>1, <2>2, <2>3, <2>6, <2>7 DEF B
  <2>14. \E l \in Seq(Seq(Byte)) :
            /\ up' => l = <<>>
            /\ (Behind(relayed', boot'.relayed) \o Carried(cmd')) \o l
                  = Carried(SubSeq(Answers, boot'.answered + 1, answered'))
    <3>1. <<>> \in Seq(Seq(Byte))
      OBVIOUS
    <3> QED BY <2>12, <2>13, <3>1, Zenon
  <2>15. boot'.answered <= answered' /\ boot'.relayed <= Len(relayed')
    BY <1>a, <1>b, <2>1
  <2> QED BY <2>1, <2>14, <2>15 DEF AnswersTrack
<1>14. CASE Down
  <2>1. up /\ up' = FALSE /\ cmd' = <<>> /\ UNCHANGED <<pc, answered, relayed, boot>>
    BY <1>14 DEF Down
  <2>2. pc # "closed"
    BY <2>1 DEF AnswersTrack
  <2>3. PICK lost \in Seq(Seq(Byte)) : (up => lost = <<>>) /\ (B \o C) \o lost = Carried(G)
    BY <2>2 DEF AnswersTrack
  <2>4. Carried(cmd') = <<>>
    BY <2>1, CarriedNothing
  <2> HIDE DEF B, C, G
  <2>5. C \o lost \in Seq(Seq(Byte))
    BY <1>c, ConcatProperties
  <2>6. B \o <<>> = B
    BY <1>c, ConcatEmptySeq
  <2>7. B \o (C \o lost) = Carried(G)
    <3>1. (B \o C) \o lost = B \o (C \o lost)
      BY <1>c, Regroup
    <3> QED BY <2>3, <3>1
  <2>8. Behind(relayed', boot'.relayed) = B
        /\ SubSeq(Answers, boot'.answered + 1, answered') = G
    BY <2>1 DEF B, G
  <2>9. (Behind(relayed', boot'.relayed) \o Carried(cmd')) \o (C \o lost)
           = Carried(SubSeq(Answers, boot'.answered + 1, answered'))
    BY <2>4, <2>6, <2>7, <2>8
  <2>10. \E l \in Seq(Seq(Byte)) :
            /\ up' => l = <<>>
            /\ (Behind(relayed', boot'.relayed) \o Carried(cmd')) \o l
                  = Carried(SubSeq(Answers, boot'.answered + 1, answered'))
    BY <2>1, <2>5, <2>9, Zenon
  <2> QED BY <1>b, <2>1, <2>2, <2>10 DEF AnswersTrack
<1>15. CASE Reopen
  <2>1. ~up /\ up' = TRUE /\ pc' = "select" /\ boot' = Booted
        /\ UNCHANGED <<relayed, cmd, answered>>
    BY <1>15 DEF Reopen
  <2>2. cmd = <<>>
    BY <2>1 DEF AnswersTrack
  <2>3. boot'.answered = answered /\ boot'.relayed = Len(relayed)
    BY <2>1 DEF Booted
  <2> DEFINE z == <<>>
  <2>4. z \in Seq(Seq(Byte))
    OBVIOUS
  <2>5. Behind(relayed, Len(relayed)) = z
    BY <1>0, BehindNothing
  <2>6. SubSeq(Answers, answered + 1, answered) = z
    BY <1>a, SubSeqEmpty
  <2>7. Carried(z) = z
    BY CarriedNothing
  <2>8. z \o z = z
    BY <2>4, ConcatEmptySeq
  <2>9. cmd' = z
    BY <2>1, <2>2
  <2> HIDE DEF z
  <2>10. (Behind(relayed', boot'.relayed) \o Carried(cmd')) \o z
            = Carried(SubSeq(Answers, boot'.answered + 1, answered'))
    BY <2>1, <2>3, <2>5, <2>6, <2>7, <2>8, <2>9
  <2>11. \E l \in Seq(Seq(Byte)) :
            /\ up' => l = <<>>
            /\ (Behind(relayed', boot'.relayed) \o Carried(cmd')) \o l
                  = Carried(SubSeq(Answers, boot'.answered + 1, answered'))
    BY <2>4, <2>10, Zenon DEF z
  <2>12. boot'.answered <= answered' /\ boot'.relayed <= Len(relayed')
    BY <1>a, <2>1, <2>3
  <2> QED BY <2>1, <2>11, <2>12 DEF AnswersTrack
<1>16. CASE UNCHANGED vars
  BY <1>16 DEF vars, AnswersTrack
<1>17. CASE Drain
  BY <1>17, AnswersTrackKept DEF Drain, AnswersTrack
<1> QED
  BY <1>1, <1>2, <1>3, <1>4, <1>5, <1>6, <1>7, <1>8, <1>9, <1>10, <1>11, <1>12, <1>13,
     <1>14, <1>15, <1>16, <1>17 DEF Next, RouterStep, Environment

\* The invariant says what AnswersIntact does.
LEMMA AnswersTracked == TypeOK /\ AnswersTrack => AnswersIntact
<1> SUFFICES ASSUME TypeOK, AnswersTrack PROVE AnswersIntact
  OBVIOUS
<1> DEFINE B == Behind(relayed, boot.relayed)
           r == B \o Carried(cmd)
           G == Carried(SubSeq(Answers, boot.answered + 1, answered))
<1>1. r \in Seq(Seq(Byte))
  <2>1. relayed \in Seq(Seq(Byte)) /\ boot.relayed \in Nat /\ boot.relayed <= Len(relayed)
        /\ cmd \in Seq(Seq(Byte))
    BY DEF TypeOK, AnswersTrack
  <2>2. B \in Seq(Seq(Byte)) /\ Carried(cmd) \in Seq(Seq(Byte))
    BY <2>1, BehindType, CarriedType
  <2> QED BY <2>2, ConcatProperties
<1> SUFFICES ASSUME pc # "closed" PROVE IsPrefix(r, G) /\ (up => r = G)
  BY DEF AnswersIntact, Behind
<1>2. PICK lost \in Seq(Seq(Byte)) : (up => lost = <<>>) /\ r \o lost = G
  BY DEF AnswersTrack
<1> HIDE DEF r, G
<1>3. IsPrefix(r, G)
  BY <1>1, <1>2, PrefixOfConcat
<1>4. up => r = G
  BY <1>1, <1>2, ConcatEmptySeq
<1> QED BY <1>3, <1>4

\* diag_cmd_recv passes on the answers of the subsystem once and in order, and of
\* a packet that ends too early nothing, whatever its uninitialised buffer held:
\* for every list of packets, those included that are no frames.
THEOREM AnswersArrive == Spec => []AnswersIntact
<1>1. Init => TypeOK /\ AnswersTrack
  BY InitType, AnswersTrackInit
<1>2. TypeOK /\ AnswersTrack /\ [Next]_vars => TypeOK' /\ AnswersTrack'
  BY NextType, AnswersTrackNext
<1>3. TypeOK /\ AnswersTrack => AnswersIntact
  BY AnswersTracked
<1> QED BY <1>1, <1>2, <1>3, PTL DEF Spec

-----------------------------------------------------------------------------
(* What is in order.                                                       *)

\* What goes when an endpoint goes, and what each of the two ways to decode uses.
Shape ==
    /\ ~up => packets = <<>> /\ tx = <<>>
    /\ pc = "closed" => ~up
    /\ apps_hdlc_encode => /\ tx = <<>>
                           /\ recv_decoder = FreshDecoder
                           /\ pc # "read" /\ pc # "decode" /\ pc # "crashed"
    /\ ~apps_hdlc_encode => pc # "read_raw"
    /\ boot.sent <= sent /\ boot.out <= Len(out)

LEMMA ShapeInit == Init => Shape
<1> SUFFICES ASSUME Init PROVE Shape
  OBVIOUS
<1>1. Len(out) = 0 /\ boot.sent = 0 /\ boot.out = 0 /\ sent = 0
  BY DEF Init
<1> QED BY <1>1 DEF Init, Shape

\* A step that keeps to the shape and leaves the counts alone.
LEMMA ShapeKept ==
    ASSUME Shape, UNCHANGED <<apps_hdlc_encode, recv_decoder, out, up, boot>>,
           sent' = sent,
           packets' = packets \/ up, tx' = tx \/ up,
           pc' = "closed" => ~up,
           apps_hdlc_encode => tx' = tx /\ pc' # "read" /\ pc' # "decode" /\ pc' # "crashed",
           ~apps_hdlc_encode => pc' # "read_raw"
    PROVE  Shape'
BY DEF Shape

LEMMA ShapeNext == TypeOK /\ Shape /\ [Next]_vars => Shape'
<1> SUFFICES ASSUME TypeOK, Shape, [Next]_vars PROVE Shape'
  OBVIOUS
<1> USE DEF perif, subsystem, command, history
<1>0. /\ Len(out) \in Nat /\ out \in Seq(Seq(Byte)) /\ sent \in Nat /\ boot.out \in Nat
      /\ boot.sent \in Nat /\ boot.sent <= sent /\ boot.out <= Len(out)
  BY LenProperties DEF TypeOK, Shape
<1>1. CASE diag_data_recv
  BY <1>1, ShapeKept DEF diag_data_recv
<1>2. CASE circ_read_Full
  BY <1>2, ShapeKept DEF circ_read_Full, Shape
<1>3. CASE circ_read
  <2>1. /\ up /\ pc = "read" /\ (pc' = "read" \/ pc' = "decode")
        /\ UNCHANGED <<apps_hdlc_encode, recv_decoder, out, up, subsystem, boot>>
    BY <1>3 DEF circ_read
  <2> QED BY <2>1, ShapeKept DEF Shape
<1>4. CASE Eagain
  BY <1>4, ShapeKept DEF Eagain
<1>5. CASE ReadError
  BY <1>5, ShapeKept DEF ReadError
<1>6. CASE Decode
  <2>1. PICK one \in {hdlc_decode_one(recv_decoder, recv_buf)} :
          /\ recv_buf' = one.ring
          /\ recv_decoder' = one.dec
          /\ IF ~one.found THEN pc' = "read" /\ UNCHANGED out
             ELSE IF msglen(one.raw) < 0 THEN pc' = "crashed" /\ UNCHANGED out
             ELSE pc' = "decode" /\ out' = Append(out, Message(one.raw))
    BY <1>6 DEF Decode, dm_broadcast
  <2>2. pc = "decode" /\ UNCHANGED <<apps_hdlc_encode, up, subsystem, packets, history>>
    BY <1>6 DEF Decode, dm_broadcast
  <2>3. ~apps_hdlc_encode
    BY <2>2 DEF Shape
  <2>4. Message(one.raw) \in Seq(Byte)
    BY DecodeOneTakes, MessageType DEF TypeOK
  <2>5. Len(Append(out, Message(one.raw))) = Len(out) + 1
    BY <1>0, <2>4, AppendProperties
  <2>6. boot.out <= Len(out') /\ (pc' = "read" \/ pc' = "crashed" \/ pc' = "decode")
    BY <1>0, <2>1, <2>5
  <2> QED BY <1>0, <2>2, <2>3, <2>6 DEF Shape
<1>7. CASE diag_data_recv_raw
  <2> DEFINE p == Head(packets)
             got == Got(p, RAW_SIZE)
  <2>1. /\ pc = "read_raw" /\ up /\ packets # <<>>
        /\ out' = Append(out, got)
        /\ UNCHANGED <<apps_hdlc_encode, recv_decoder, pc, up, subsystem, boot>>
    BY <1>7 DEF diag_data_recv_raw, dm_broadcast
  <2>2. p \in Seq(Byte)
    BY <2>1, HeadTailProperties DEF TypeOK
  <2>3. got \in Seq(Byte)
    BY <2>2, GotSplits, DataChannelAssumption
  <2>4. Len(out') = Len(out) + 1
    BY <1>0, <2>1, <2>3, AppendProperties
  <2>5. boot'.out <= Len(out')
    BY <1>0, <2>1, <2>4
  <2> QED BY <2>1, <2>5 DEF Shape
<1>8. CASE diag_cmd_recv
  BY <1>8, ShapeKept DEF diag_cmd_recv, Shape
<1>9. CASE diag_cmd_recv_Error
  BY <1>9, ShapeKept DEF diag_cmd_recv_Error, Shape
<1>10. CASE Begin
  <2>1. up /\ ~apps_hdlc_encode /\ sent' = sent + 1
        /\ UNCHANGED <<apps_hdlc_encode, recv_decoder, pc, out, up, packets, boot>>
    BY <1>10 DEF Begin
  <2>2. boot.sent <= sent + 1
    BY <1>0
  <2> QED BY <2>1, <2>2 DEF Shape
<1>11. CASE Transmit
  <2>1. up /\ UNCHANGED <<apps_hdlc_encode, recv_decoder, pc, out, up, sent, boot>>
    BY <1>11 DEF Transmit
  <2>2. apps_hdlc_encode => FALSE
    <3>1. PICK n \in 1..Len(tx) : TRUE
      BY <1>11 DEF Transmit
    <3>2. tx # <<>>
      BY <3>1
    <3> QED BY <3>2 DEF Shape
  <2> QED BY <2>1, <2>2 DEF Shape
<1>12. CASE TransmitRaw
  <2>1. up /\ apps_hdlc_encode /\ sent' = sent + 1
        /\ UNCHANGED <<apps_hdlc_encode, recv_decoder, pc, out, up, tx, boot>>
    BY <1>12 DEF TransmitRaw
  <2>2. boot.sent <= sent + 1
    BY <1>0
  <2> QED BY <2>1, <2>2 DEF Shape
<1>13. CASE Answer
  BY <1>13, ShapeKept DEF Answer, Shape
<1>14. CASE Down
  <2>1. UNCHANGED <<apps_hdlc_encode, recv_decoder, pc, out, sent, boot>>
        /\ up' = FALSE /\ packets' = <<>> /\ tx' = <<>>
    BY <1>14 DEF Down
  <2> QED BY <2>1 DEF Shape
<1>15. CASE Reopen
  <2>1. /\ ~up /\ recv_decoder' = FreshDecoder /\ pc' = "select" /\ up' = TRUE
        /\ boot' = Booted /\ UNCHANGED <<apps_hdlc_encode, out, sent, tx, packets>>
    BY <1>15 DEF Reopen
  <2>2. boot'.sent = sent /\ boot'.out = Len(out)
    BY <2>1 DEF Booted
  <2>3. boot'.sent <= sent /\ boot'.out <= Len(out)
    BY <1>0, <2>2
  <2> QED BY <2>1, <2>3 DEF Shape
<1>16. CASE UNCHANGED vars
  BY <1>16 DEF vars, Shape
<1>17. CASE Drain
  BY <1>17 DEF Drain, Shape
<1> QED
  BY <1>1, <1>2, <1>3, <1>4, <1>5, <1>6, <1>7, <1>8, <1>9, <1>10, <1>11, <1>12, <1>13,
     <1>14, <1>15, <1>16, <1>17 DEF Next, RouterStep, Environment

-----------------------------------------------------------------------------
(* Messages and the raw bytes of their frames.                             *)

\* f maps A to B.
IsMap(f, A, B) == f \in [A -> B]

Image(f, s) == [i \in 1..Len(s) |-> f[s[i]]]

LEMMA ImageType ==
    ASSUME NEW A, NEW B, NEW f, IsMap(f, A, B), NEW s \in Seq(A)
    PROVE  /\ Image(f, s) \in Seq(B) /\ Len(Image(f, s)) = Len(s)
           /\ \A i \in 1..Len(s) : Image(f, s)[i] = f[s[i]]
<1>0. Len(s) \in Nat /\ \A i \in 1..Len(s) : s[i] \in A
  BY LenProperties
<1>1. \A i \in 1..Len(s) : f[s[i]] \in B
  BY <1>0 DEF IsMap
<1>2. Image(f, s) \in Seq(B)
  BY <1>0, <1>1, IsASeq DEF Image
<1>3. Len(Image(f, s)) = Len(s)
  BY <1>0 DEF Image
<1>4. \A i \in 1..Len(s) : Image(f, s)[i] = f[s[i]]
  BY Zenon DEF Image
<1> QED BY <1>2, <1>3, <1>4

LEMMA ImageConcat ==
    ASSUME NEW A, NEW B, NEW f, IsMap(f, A, B), NEW s \in Seq(A), NEW t \in Seq(A)
    PROVE  Image(f, s \o t) = Image(f, s) \o Image(f, t)
<1> DEFINE y == s \o t
           u == Image(f, s)
           v == Image(f, t)
           w == u \o v
           z == Image(f, y)
<1>0. Len(s) \in Nat /\ Len(t) \in Nat
  BY LenProperties
<1>1. /\ y \in Seq(A) /\ Len(y) = Len(s) + Len(t)
      /\ \A i \in 1..(Len(s) + Len(t)) : y[i] = IF i <= Len(s) THEN s[i] ELSE t[i - Len(s)]
  BY ConcatProperties
<1> HIDE DEF y
<1>2. u \in Seq(B) /\ Len(u) = Len(s) /\ \A i \in 1..Len(s) : u[i] = f[s[i]]
  BY ImageType
<1>3. v \in Seq(B) /\ Len(v) = Len(t) /\ \A i \in 1..Len(t) : v[i] = f[t[i]]
  BY ImageType
<1>4. z \in Seq(B) /\ Len(z) = Len(y) /\ \A i \in 1..Len(y) : z[i] = f[y[i]]
  BY <1>1, ImageType
<1>a. u \in Seq(B) /\ v \in Seq(B)
  BY <1>2, <1>3
<1> HIDE DEF u, v, z
<1>5. /\ w \in Seq(B) /\ Len(w) = Len(u) + Len(v)
      /\ \A i \in 1..(Len(u) + Len(v)) : w[i] = IF i <= Len(u) THEN u[i] ELSE v[i - Len(u)]
  BY <1>a, ConcatProperties
<1> HIDE DEF w
<1>6. Len(w) = Len(z)
  BY <1>1, <1>2, <1>3, <1>4, <1>5
<1>7. \A i \in 1..Len(z) : z[i] = w[i]
  <2> SUFFICES ASSUME NEW i \in 1..Len(z) PROVE z[i] = w[i]
    OBVIOUS
  <2>1. i \in 1..(Len(s) + Len(t)) /\ i \in 1..Len(y) /\ i \in 1..(Len(u) + Len(v)) /\ i \in Nat
    BY <1>0, <1>1, <1>2, <1>3, <1>4
  <2>2. z[i] = f[y[i]]
    BY <1>4, <2>1
  <2>3. CASE i <= Len(s)
    <3>1. i \in 1..Len(s) /\ i <= Len(u)
      BY <1>0, <1>2, <2>1, <2>3
    <3>2. y[i] = s[i] /\ w[i] = u[i] /\ u[i] = f[s[i]]
      BY <1>1, <1>2, <1>5, <2>1, <2>3, <3>1
    <3> QED BY <2>2, <3>2
  <2>4. CASE ~(i <= Len(s))
    <3>1. i - Len(s) \in 1..Len(t) /\ ~(i <= Len(u)) /\ i - Len(u) = i - Len(s)
      BY <1>0, <1>2, <2>1, <2>4
    <3>2. y[i] = t[i - Len(s)] /\ w[i] = v[i - Len(s)]
      BY <1>1, <1>5, <2>1, <2>4, <3>1
    <3>3. v[i - Len(s)] = f[t[i - Len(s)]]
      BY <1>3, <3>1
    <3> QED BY <2>2, <3>2, <3>3
  <2> QED BY <2>3, <2>4
<1>8. z = w
  BY <1>4, <1>5, <1>6, <1>7, SeqEqual
<1> QED BY <1>8 DEF z, w, u, v, y

LEMMA ImageOne ==
    ASSUME NEW A, NEW B, NEW f, IsMap(f, A, B), NEW a \in A
    PROVE  Image(f, <<a>>) = <<f[a]>>
<1> DEFINE z == <<a>>
           b == f[a]
           y == <<b>>
<1>1. z \in Seq(A) /\ Len(z) = 1 /\ z[1] = a
  OBVIOUS
<1>2. b \in B
  BY DEF IsMap
<1> HIDE DEF z
<1>3. Image(f, z) \in Seq(B) /\ Len(Image(f, z)) = 1 /\ \A i \in 1..1 : Image(f, z)[i] = f[z[i]]
  BY <1>1, ImageType
<1>4. Image(f, z)[1] = b
  BY <1>1, <1>3
<1> HIDE DEF b
<1>5. y \in Seq(B) /\ Len(y) = 1 /\ y[1] = b
  BY <1>2
<1> HIDE DEF y
<1>6. \A i \in 1..1 : Image(f, z)[i] = y[i]
  BY <1>4, <1>5
<1>7. Image(f, z) = y
  BY <1>3, <1>5, <1>6, SeqEqual
<1> QED BY <1>7 DEF z, y, b

RawBytes == [m \in Seq(Byte) |-> RawOf(m)]

MessageBytes == [raw \in Seq(Byte) |-> Message(raw)]

LEMMA BytesType ==
    /\ IsMap(RawBytes, Seq(Byte), Seq(Byte))
    /\ IsMap(MessageBytes, Seq(Byte), Seq(Byte))
    /\ \A m \in Seq(Byte) : /\ RawBytes[m] = RawOf(m) /\ RawOf(m) \in Seq(Byte)
                            /\ Len(RawOf(m)) = Len(m) + 2
                            /\ MessageBytes[RawOf(m)] = m
    /\ \A raw \in Seq(Byte) : MessageBytes[raw] = Message(raw)
<1>1. \A m \in Seq(Byte) : RawOf(m) \in Seq(Byte) /\ Len(RawOf(m)) = Len(m) + 2
  BY FrameType DEF RawOf
<1>2. \A raw \in Seq(Byte) : Message(raw) \in Seq(Byte)
  BY MessageType
<1>3. /\ IsMap(RawBytes, Seq(Byte), Seq(Byte))
      /\ IsMap(MessageBytes, Seq(Byte), Seq(Byte))
  BY <1>1, <1>2, Zenon DEF RawBytes, MessageBytes, IsMap
<1>4. \A m \in Seq(Byte) : RawBytes[m] = RawOf(m)
  BY Zenon DEF RawBytes
<1>5. \A raw \in Seq(Byte) : MessageBytes[raw] = Message(raw)
  BY Zenon DEF MessageBytes
<1>6. \A m \in Seq(Byte) : Message(RawOf(m)) = m
  BY DecodesFrame
<1> QED BY <1>1, <1>3, <1>4, <1>5, <1>6

\* The raw bytes of the frames of ms, and the messages of raw frames.
RawsOf(ms) == Image(RawBytes, ms)

MessagesOf(raws) == Image(MessageBytes, raws)

LEMMA RawsOfType ==
    ASSUME NEW ms \in Seq(Seq(Byte))
    PROVE  /\ RawsOf(ms) \in Seq(Seq(Byte)) /\ Len(RawsOf(ms)) = Len(ms)
           /\ \A i \in 1..Len(ms) : RawsOf(ms)[i] = RawOf(ms[i])
           /\ MessagesOf(RawsOf(ms)) = ms
<1>0. Len(ms) \in Nat /\ \A i \in 1..Len(ms) : ms[i] \in Seq(Byte)
  BY LenProperties
<1> DEFINE r == RawsOf(ms)
           z == MessagesOf(r)
<1>1. r \in Seq(Seq(Byte)) /\ Len(r) = Len(ms) /\ \A i \in 1..Len(ms) : r[i] = RawBytes[ms[i]]
  BY BytesType, ImageType DEF RawsOf
<1>2. \A i \in 1..Len(ms) : r[i] = RawOf(ms[i])
  BY <1>0, <1>1, BytesType
<1> HIDE DEF r
<1>3. z \in Seq(Seq(Byte)) /\ Len(z) = Len(r) /\ \A i \in 1..Len(r) : z[i] = MessageBytes[r[i]]
  BY <1>1, BytesType, ImageType DEF MessagesOf
<1>4. \A i \in 1..Len(ms) : z[i] = ms[i]
  BY <1>0, <1>1, <1>2, <1>3, BytesType
<1> HIDE DEF z
<1>5. z = ms
  BY <1>1, <1>3, <1>4, SeqEqual
<1> QED BY <1>1, <1>2, <1>5 DEF r, z

LEMMA MessagesIs ==
    ASSUME NEW d \in Decoder, NEW s \in Seq(Byte)
    PROVE  /\ Messages(d, s) = MessagesOf(Run(d, s).raws)
           /\ Messages(d, s) \in Seq(Seq(Byte))
           /\ Len(Messages(d, s)) = Len(Run(d, s).raws)
<1> DEFINE r == Run(d, s).raws
<1>1. r \in Seq(Seq(Byte))
  BY RunType
<1>2. Messages(d, s) = [k \in 1..Len(r) |-> Message(r[k])]
  BY DEF Messages
<1> HIDE DEF r
<1>3. \A k \in 1..Len(r) : r[k] \in Seq(Byte)
  BY <1>1, ElementOfSeq
<1>4. \A k \in 1..Len(r) : Message(r[k]) = MessageBytes[r[k]]
  BY <1>3, BytesType
<1>5. Messages(d, s) = MessagesOf(r)
  BY <1>2, <1>4, Zenon DEF MessagesOf, Image
<1>6. MessagesOf(r) \in Seq(Seq(Byte)) /\ Len(MessagesOf(r)) = Len(r)
  BY <1>1, BytesType, ImageType DEF MessagesOf
<1> QED BY <1>5, <1>6 DEF r

-----------------------------------------------------------------------------
(* A stream that carries messages.                                         *)

\* The bytes s, after what the decoder d holds, are the frames of ms.
Carries(d, s, ms) == Run(d, s) = [dec |-> FreshDecoder, raws |-> RawsOf(ms)]

LEMMA CarriesNothing ==
    ASSUME NEW s, s = <<>>, NEW ms, ms = <<>>
    PROVE  Carries(FreshDecoder, s, ms)
<1> DEFINE z == RawsOf(ms)
<1>1. ms \in Seq(Seq(Byte)) /\ Len(ms) = 0
  OBVIOUS
<1>2. z \in Seq(Seq(Byte)) /\ Len(z) = Len(ms)
  BY <1>1, RawsOfType
<1> HIDE DEF z
<1>3. z = <<>>
  BY <1>1, <1>2, EmptySeq
<1>4. Run(FreshDecoder, s) = Start(FreshDecoder)
  BY FreshType, RunStarts
<1> QED BY <1>3, <1>4 DEF z, Carries, Start

LEMMA RawsConcat ==
    ASSUME NEW s \in Seq(Seq(Byte)), NEW t \in Seq(Seq(Byte))
    PROVE  RawsOf(s \o t) = RawsOf(s) \o RawsOf(t)
<1>1. IsMap(RawBytes, Seq(Byte), Seq(Byte))
  BY BytesType
<1>2. Image(RawBytes, s \o t) = Image(RawBytes, s) \o Image(RawBytes, t)
  BY <1>1, ImageConcat
<1> QED BY <1>2 DEF RawsOf

LEMMA MessagesConcat ==
    ASSUME NEW s \in Seq(Seq(Byte)), NEW t \in Seq(Seq(Byte))
    PROVE  MessagesOf(s \o t) = MessagesOf(s) \o MessagesOf(t)
<1>1. IsMap(MessageBytes, Seq(Byte), Seq(Byte))
  BY BytesType
<1>2. Image(MessageBytes, s \o t) = Image(MessageBytes, s) \o Image(MessageBytes, t)
  BY <1>1, ImageConcat
<1> QED BY <1>2 DEF MessagesOf

\* One more message, as it is or behind an end of frame.
LEMMA CarriesMore ==
    ASSUME NEW d \in Decoder, NEW s \in Seq(Byte), NEW ms \in Seq(Seq(Byte)), Carries(d, s, ms),
           NEW m \in Seq(Byte), NEW g,
           g = hdlc_encode(m) \/ g = <<NHDLC_CONTROL_CHAR>> \o hdlc_encode(m)
    PROVE  g \in Seq(Byte) /\ Carries(d, s \o g, ms \o <<m>>)
<1> DEFINE x == <<m>>
           e == hdlc_encode(m)
           f == <<NHDLC_CONTROL_CHAR>>
           y == <<RawOf(m)>>
           u == RawsOf(ms)
<1>1. e \in Seq(Byte) /\ f \in Seq(Byte)
  BY FrameType, ControlByte
<1>2. Run(FreshDecoder, g) = [dec |-> FreshDecoder, raws |-> y]
  BY DecodesFrame
<1>3. x \in Seq(Seq(Byte))
  OBVIOUS
<1>4. RawsOf(x) = y
  <2>1. RawsOf(x) = <<RawBytes[m]>>
    BY BytesType, ImageOne DEF RawsOf
  <2> QED BY <2>1, BytesType
<1>5. u \in Seq(Seq(Byte))
  BY RawsOfType
<1> HIDE DEF e, f, x, y, u
<1>6. g \in Seq(Byte)
  <2>1. f \o e \in Seq(Byte)
    BY <1>1, ConcatProperties
  <2> QED BY <1>1, <2>1 DEF e, f
<1>7. Run(d, s).dec = FreshDecoder /\ Run(d, s).raws = u
  BY DEF Carries, u
<1>8. Run(d, s \o g).dec = FreshDecoder /\ Run(d, s \o g).raws = u \o y
  <2>1. /\ Run(d, s \o g).dec = Run(Run(d, s).dec, g).dec
        /\ Run(d, s \o g).raws = Run(d, s).raws \o Run(Run(d, s).dec, g).raws
    BY <1>6, RunConcat
  <2> QED BY <1>2, <1>7, <2>1
<1>9. RawsOf(ms \o x) = u \o y
  <2>1. RawsOf(ms \o x) = RawsOf(ms) \o RawsOf(x)
    BY <1>3, RawsConcat
  <2> QED BY <1>4, <2>1 DEF u
<1>10. s \o g \in Seq(Byte)
  BY <1>6, ConcatProperties
<1>11. Run(d, s \o g) \in RunState
  BY <1>10, RunType
<1>12. Run(d, s \o g) = [dec |-> FreshDecoder, raws |-> u \o y]
  BY <1>8, <1>11 DEF RunState
<1>13. Carries(d, s \o g, ms \o x)
  BY <1>9, <1>12 DEF Carries
<1> QED BY <1>6, <1>13 DEF x

LEMMA CancelsLeft ==
    ASSUME NEW s \in Seq(Seq(Byte)), NEW t \in Seq(Seq(Byte)), NEW u \in Seq(Seq(Byte)),
           s \o t = s \o u
    PROVE  t = u
BY ConcatSimplifications

FirstIs(one, t, ms) ==
    \E m \in Seq(Byte), rest \in Seq(Seq(Byte)) :
       /\ one.raw = RawOf(m)
       /\ ms = <<m>> \o rest
       /\ Carries(one.dec, Unread(one.ring) \o t, rest)

\* What the router decodes is the first of the messages.
LEMMA CarriesFirst ==
    ASSUME NEW d \in Decoder, NEW r \in Ring, NEW one, one = hdlc_decode_one(d, r),
           NEW t \in Seq(Byte), NEW ms \in Seq(Seq(Byte)), Carries(d, Unread(r) \o t, ms)
    PROVE  /\ ~one.found => Carries(one.dec, Unread(one.ring) \o t, ms)
           /\ one.found => FirstIs(one, t, ms)
<1> DEFINE U == Unread(r)
           V == Unread(one.ring)
           e == one.dec
           w == Run(e, V \o t)
           z == Run(d, U \o t)
<1>1. /\ one.ring \in Ring /\ e \in Decoder /\ one.raw \in Seq(Byte) /\ one.found \in BOOLEAN
      /\ Run(d, U).dec = Run(e, V).dec
      /\ Run(d, U).raws = IF one.found THEN <<one.raw>> \o Run(e, V).raws ELSE Run(e, V).raws
  BY DecodeOneTakes
<1>2. U \in Seq(Byte) /\ V \in Seq(Byte)
  BY <1>1, UnreadType
<1> HIDE DEF U, V, e
<1>3. Run(e, V).dec \in Decoder /\ Run(e, V).raws \in Seq(Seq(Byte))
      /\ Run(d, U).dec \in Decoder /\ Run(d, U).raws \in Seq(Seq(Byte))
  BY <1>1, <1>2, RunType
<1>4. w.dec = Run(Run(e, V).dec, t).dec /\ w.raws = Run(e, V).raws \o Run(Run(e, V).dec, t).raws
  BY <1>1, <1>2, RunConcat
<1>5. z.dec = Run(Run(d, U).dec, t).dec /\ z.raws = Run(d, U).raws \o Run(Run(d, U).dec, t).raws
  BY <1>2, RunConcat
<1>6. Run(Run(e, V).dec, t).raws \in Seq(Seq(Byte))
  BY <1>3, RunType
<1>7. w \in RunState
  <2>1. V \o t \in Seq(Byte)
    BY <1>2, ConcatProperties
  <2> QED BY <1>1, <2>1, RunType
<1>8. z.dec = FreshDecoder /\ z.raws = RawsOf(ms)
  BY DEF Carries, U
<1> HIDE DEF w, z
<1>9. w.dec = FreshDecoder
  BY <1>1, <1>4, <1>5, <1>8
<1>10. CASE ~one.found
  <2>1. w.raws = RawsOf(ms)
    BY <1>1, <1>4, <1>5, <1>8, <1>10
  <2>2. w = [dec |-> FreshDecoder, raws |-> RawsOf(ms)]
    BY <1>7, <1>9, <2>1 DEF RunState
  <2> QED BY <1>10, <2>2 DEF Carries, w, V, e
<1>11. CASE one.found
  <2> DEFINE x == <<one.raw>>
             y == w.raws
  <2>1. x \in Seq(Seq(Byte)) /\ Len(x) = 1 /\ x[1] = one.raw
    BY <1>1
  <2>2. y \in Seq(Seq(Byte))
    BY <1>7 DEF RunState
  <2> HIDE DEF x, y
  <2>3. RawsOf(ms) = x \o y
    <3> DEFINE a == Run(e, V).raws
               b == Run(Run(e, V).dec, t).raws
    <3>1. Run(d, U).raws = x \o a
      BY <1>1, <1>11 DEF x
    <3>2. y = a \o b
      BY <1>4 DEF y
    <3>3. z.raws = (x \o a) \o b
      BY <1>1, <1>5, <3>1
    <3>4. a \in Seq(Seq(Byte)) /\ b \in Seq(Seq(Byte))
      BY <1>3, <1>6
    <3> HIDE DEF a, b
    <3>5. x \o (a \o b) = (x \o a) \o b
      BY <2>1, <3>4, Regroup
    <3> QED BY <1>8, <3>2, <3>3, <3>5
  <2>4. /\ Len(x \o y) = Len(x) + Len(y)
        /\ \A i \in 1..(Len(x) + Len(y)) : (x \o y)[i] = IF i <= Len(x) THEN x[i] ELSE y[i - Len(x)]
    BY <2>1, <2>2, ConcatProperties
  <2>5. Len(y) \in Nat
    BY <2>2, LenProperties
  <2>6. Len(RawsOf(ms)) = Len(ms) /\ \A i \in 1..Len(ms) : RawsOf(ms)[i] = RawOf(ms[i])
    BY RawsOfType
  <2>7. Len(ms) = 1 + Len(y) /\ 1 \in 1..Len(ms) /\ RawsOf(ms)[1] = one.raw
    <3>1. Len(ms) = 1 + Len(y)
      BY <2>1, <2>3, <2>4, <2>5, <2>6
    <3>2. 1 \in 1..(Len(x) + Len(y)) /\ 1 <= Len(x) /\ 1 \in 1..Len(ms)
      BY <2>1, <2>5, <3>1
    <3>3. (x \o y)[1] = x[1]
      BY <2>4, <3>2
    <3> QED BY <2>1, <2>3, <3>1, <3>2, <3>3
  <2>8. ms # <<>>
    BY <2>5, <2>7
  <2> DEFINE m == Head(ms)
             rest == Tail(ms)
             h == <<m>>
  <2>9. m \in Seq(Byte) /\ rest \in Seq(Seq(Byte)) /\ ms = h \o rest
    BY <2>8, JoinedFirst
  <2>10. m = ms[1]
    <3>1. h \in Seq(Seq(Byte)) /\ Len(h) = 1 /\ h[1] = m
      BY <2>9
    <3> HIDE DEF h, m, rest
    <3>2. \A i \in 1..(Len(h) + Len(rest)) :
             (h \o rest)[i] = IF i <= Len(h) THEN h[i] ELSE rest[i - Len(h)]
      BY <2>9, <3>1, ConcatProperties
    <3>3. Len(rest) \in Nat
      BY <2>9, LenProperties
    <3>4. 1 \in 1..(Len(h) + Len(rest)) /\ 1 <= Len(h)
      BY <3>1, <3>3
    <3>5. (h \o rest)[1] = h[1]
      BY <3>2, <3>4
    <3> QED BY <2>9, <3>1, <3>5
  <2>11. one.raw = RawOf(m)
    BY <2>6, <2>7, <2>10
  <2>12. h \in Seq(Seq(Byte)) /\ RawsOf(h) = x
    <3>1. h \in Seq(Seq(Byte))
      BY <2>9
    <3>2. RawsOf(h) = <<RawBytes[m]>>
      BY SMTT(30), <2>9, BytesType, ImageOne DEF RawsOf
    <3>3. RawBytes[m] = RawOf(m)
      BY <2>9, BytesType
    <3> QED BY <2>11, <3>1, <3>2, <3>3 DEF x
  <2> HIDE DEF h, rest, m
  <2>13. RawsOf(ms) = x \o RawsOf(rest)
    <3>1. RawsOf(h \o rest) = RawsOf(h) \o RawsOf(rest)
      BY <2>9, <2>12, RawsConcat
    <3> QED BY <2>9, <2>12, <3>1
  <2>14. RawsOf(rest) \in Seq(Seq(Byte))
    BY <2>9, RawsOfType
  <2>15. RawsOf(rest) = y
    BY <2>1, <2>2, <2>3, <2>13, <2>14, CancelsLeft
  <2>16. w = [dec |-> FreshDecoder, raws |-> RawsOf(rest)]
    BY <1>7, <1>9, <2>15 DEF RunState, y
  <2>17. Carries(one.dec, Unread(one.ring) \o t, rest)
    BY <2>16 DEF Carries, w, V, e
  <2> QED BY <1>11, <2>9, <2>11, <2>17, Zenon DEF h, FirstIs
<1> QED BY <1>1, <1>10, <1>11

\* The messages of a part of it are the first of the messages.
LEMMA CarriesPart ==
    ASSUME NEW d \in Decoder, NEW s \in Seq(Byte), NEW t \in Seq(Byte),
           NEW ms \in Seq(Seq(Byte)), Carries(d, s \o t, ms)
    PROVE  \E more \in Seq(Seq(Byte)) : /\ ms = Messages(d, s) \o more
                                        /\ t = <<>> => more = <<>>
<1> DEFINE a == Run(d, s).raws
           b == Run(Run(d, s).dec, t).raws
           u == MessagesOf(a)
           v == MessagesOf(b)
<1>1. Run(d, s).dec \in Decoder /\ a \in Seq(Seq(Byte))
  BY RunType
<1>2. b \in Seq(Seq(Byte))
  BY <1>1, RunType
<1>3. Run(d, s \o t).raws = a \o b
  BY RunConcat
<1>4. RawsOf(ms) = a \o b
  <2>1. Run(d, s \o t).raws = RawsOf(ms)
    BY DEF Carries
  <2> QED BY <1>3, <2>1
<1>5. MessagesOf(RawsOf(ms)) = ms
  BY RawsOfType
<1>6. Messages(d, s) = u
  BY MessagesIs
<1>7. t = <<>> => b = <<>>
  <2>1. ASSUME t = <<>> PROVE b = <<>>
    <3>1. Run(Run(d, s).dec, t) = Start(Run(d, s).dec)
      BY <1>1, <2>1, RunStarts
    <3> QED BY <3>1 DEF Start
  <2> QED BY <2>1
<1> HIDE DEF a, b
<1>8. u \in Seq(Seq(Byte)) /\ v \in Seq(Seq(Byte)) /\ Len(v) = Len(b)
  BY <1>1, <1>2, BytesType, ImageType DEF MessagesOf
<1>9. MessagesOf(a \o b) = u \o v
  BY <1>1, <1>2, MessagesConcat
<1> HIDE DEF u, v
<1>10. ms = u \o v
  BY <1>4, <1>5, <1>9
<1>11. t = <<>> => v = <<>>
  <2>1. ASSUME t = <<>> PROVE v = <<>>
    <3>1. Len(v) = 0
      BY <1>7, <1>8, <2>1
    <3> QED BY <1>8, <3>1, EmptySeq
  <2> QED BY <2>1
<1> QED BY <1>6, <1>8, <1>10, <1>11

\* A decoder that is fed frames holds no more than one of them.
LEMMA CarriesBounds ==
    ASSUME NEW d \in Decoder, NEW s \in Seq(Byte), NEW ms \in Seq(Seq(Byte)), Carries(d, s, ms),
           NEW n \in Nat, \A i \in 1..Len(ms) : Len(ms[i]) + 2 <= n
    PROVE  Len(d.raw) <= n
<1> DEFINE z == RawsOf(ms)
<1>1. Len(ms) \in Nat /\ \A i \in 1..Len(ms) : ms[i] \in Seq(Byte)
  BY LenProperties
<1>2. z \in Seq(Seq(Byte)) /\ Len(z) = Len(ms) /\ \A i \in 1..Len(ms) : z[i] = RawOf(ms[i])
  BY RawsOfType
<1>3. Run(d, s).raws = z /\ Run(d, s).dec = FreshDecoder
  BY DEF Carries
<1> HIDE DEF z
<1>4. IF z = <<>> THEN Len(d.raw) <= Len(FreshDecoder.raw) ELSE Len(d.raw) <= Len(z[1])
  BY <1>3, RawGrows
<1>5. Len(d.raw) \in Nat
  <2>1. d.raw \in Seq(Byte)
    BY DEF Decoder
  <2> QED BY <2>1, LenProperties
<1>6. CASE z = <<>>
  <2>1. Len(FreshDecoder.raw) = 0
    BY DEF FreshDecoder
  <2> QED BY <1>4, <1>5, <1>6, <2>1
<1>7. CASE z # <<>>
  <2>1. 1 \in 1..Len(ms)
    <3>1. Len(z) # 0
      BY <1>2, <1>7, EmptySeq
    <3> QED BY <1>1, <1>2, <3>1
  <2>2. z[1] = RawOf(ms[1]) /\ ms[1] \in Seq(Byte) /\ Len(ms[1]) + 2 <= n
    BY <1>1, <1>2, <2>1
  <2>3. Len(z[1]) = Len(ms[1]) + 2
    BY <2>2, BytesType
  <2>4. Len(ms[1]) \in Nat
    BY <2>2, LenProperties
  <2> QED BY <1>4, <1>5, <1>7, <2>2, <2>3, <2>4
<1> QED BY <1>6, <1>7

-----------------------------------------------------------------------------
(* The stream that is on its way.                                          *)

\* What follows the buffer.
Rest == Joined(packets) \o tx

LEMMA RestType ==
    ASSUME TypeOK
    PROVE  /\ Rest \in Seq(Byte) /\ Unread(recv_buf) \in Seq(Byte)
           /\ Unread(recv_buf) \o Joined(packets) \o tx = Unread(recv_buf) \o Rest
<1>1. packets \in Seq(Seq(Byte)) /\ tx \in Seq(Byte) /\ recv_buf \in Ring
  BY DEF TypeOK
<1>2. Joined(packets) \in Seq(Byte) /\ Unread(recv_buf) \in Seq(Byte)
  BY <1>1, JoinedType, UnreadType
<1>3. Rest \in Seq(Byte)
  BY <1>1, <1>2, ConcatProperties DEF Rest
<1>4. Unread(recv_buf) \o (Joined(packets) \o tx) = (Unread(recv_buf) \o Joined(packets)) \o tx
  <2> DEFINE a == Unread(recv_buf)
             b == Joined(packets)
  <2> HIDE DEF a, b
  <2>1. a \o (b \o tx) = (a \o b) \o tx
    BY <1>1, <1>2, Regroup DEF a, b
  <2> QED BY <2>1 DEF a, b
<1> QED BY <1>2, <1>3, <1>4 DEF Rest

\* A read moves a packet into the buffer, or its beginning.
LEMMA ReadMoves ==
    ASSUME TypeOK, circ_read
    PROVE  \E got, cut \in Seq(Byte) :
              /\ Unread(recv_buf') = Unread(recv_buf) \o got
              /\ Rest' \in Seq(Byte)
              /\ Rest = (got \o cut) \o Rest'
              /\ missed' = missed + Cardinality(Ends(cut))
              /\ (cuts' = cuts /\ cut = <<>>) \/ cuts' = cuts + 1
<1> DEFINE p == Head(packets)
           space == CIRC_SPACE_TO_END(recv_buf)
           got == Got(p, space)
           cut == SubSeq(p, space + 1, Len(p))
           j == Joined(Tail(packets))
<1>0. packets \in Seq(Seq(Byte)) /\ tx \in Seq(Byte) /\ recv_buf \in Ring
  BY DEF TypeOK
<1>1. /\ packets # <<>> /\ packets' = Tail(packets) /\ tx' = tx
      /\ recv_buf' = Filled(recv_buf, got)
      /\ missed' = missed + Cardinality(Ends(cut))
      /\ cuts' = cuts + (IF Lost(p, space) THEN 1 ELSE 0)
  BY DEF circ_read, subsystem
<1>2. p \in Seq(Byte) /\ Tail(packets) \in Seq(Seq(Byte)) /\ Joined(packets) = p \o j
  BY <1>0, <1>1, JoinedFirst
<1>3. j \in Seq(Byte)
  BY <1>2, JoinedType
<1>4. space \in Nat
  BY <1>0, SpaceType
<1>5. /\ got \in Seq(Byte) /\ Len(got) <= space /\ cut \in Seq(Byte)
      /\ ~Lost(p, space) => got = p
      /\ Lost(p, space) => p = got \o cut
  BY <1>2, <1>4, GotSplits
<1>6. ~Lost(p, space) => cut = <<>>
  <2>1. ASSUME ~Lost(p, space) PROVE cut = <<>>
    <3>1. ~(Len(p) > space) /\ Len(p) \in Nat
      BY <1>2, <2>1, LenProperties DEF Lost
    <3>2. space + 1 \in Int /\ Len(p) \in Int /\ Len(p) < space + 1
      BY <1>4, <3>1
    <3> QED BY <3>2, SubSeqEmpty
  <2> QED BY <2>1
<1>7. Unread(Filled(recv_buf, got)) = Unread(recv_buf) \o got
  BY <1>0, <1>5, RingAppends
<1>8. Rest' = j \o tx
  BY <1>1 DEF Rest
<1>9. Rest = (p \o j) \o tx
  BY <1>2 DEF Rest
<1>10. (cuts' = cuts /\ cut = <<>>) \/ cuts' = cuts + 1
  <2>1. CASE Lost(p, space)
    BY <1>1, <2>1
  <2>2. CASE ~Lost(p, space)
    <3>1. cuts' = cuts + 0 /\ cuts \in Nat
      BY <1>1, <2>2 DEF TypeOK
    <3> QED BY <1>6, <2>2, <3>1
  <2> QED BY <2>1, <2>2
<1> HIDE DEF p, got, cut, j, space
<1>11. p = got \o cut
  <2>1. CASE Lost(p, space)
    BY <1>5, <2>1
  <2>2. CASE ~Lost(p, space)
    <3>1. got \o <<>> = got
      BY <1>5, ConcatEmptySeq
    <3> QED BY <1>5, <1>6, <2>2, <3>1
  <2> QED BY <2>1, <2>2
<1>12. p \o (j \o tx) = (p \o j) \o tx
  BY <1>0, <1>2, <1>3, Regroup
<1>13. Rest' \in Seq(Byte)
  BY <1>0, <1>3, <1>8, ConcatProperties
<1>14. Rest = (got \o cut) \o Rest'
  BY <1>8, <1>9, <1>11, <1>12
<1>15. Unread(recv_buf') = Unread(recv_buf) \o got
  BY <1>1, <1>7 DEF got, p, space
<1>16. missed' = missed + Cardinality(Ends(cut))
  BY <1>1
<1> QED BY <1>5, <1>10, <1>13, <1>14, <1>15, <1>16

\* Packets are cut off what is to be sent.
LEMMA TransmitMoves ==
    ASSUME TypeOK, Transmit
    PROVE  Rest' = Rest
<1>0. packets \in Seq(Seq(Byte)) /\ tx \in Seq(Byte)
  BY DEF TypeOK
<1>1. PICK n \in 1..Len(tx) :
        /\ packets' = Append(packets, SubSeq(tx, 1, n))
        /\ tx' = SubSeq(tx, n + 1, Len(tx))
  BY DEF Transmit
<1> DEFINE x == SubSeq(tx, 1, n)
           y == SubSeq(tx, n + 1, Len(tx))
           j == Joined(packets)
<1>2. x \in Seq(Byte) /\ y \in Seq(Byte) /\ x \o y = tx
  BY <1>0, CutOff
<1>3. packets' = Append(packets, x) /\ tx' = y
  BY <1>1
<1> HIDE DEF x, y
<1>4. j \in Seq(Byte) /\ Joined(Append(packets, x)) = j \o x
  BY <1>0, <1>2, JoinedType, JoinedAppend
<1> HIDE DEF j
<1>5. j \o (x \o y) = (j \o x) \o y
  BY <1>2, <1>4, Regroup
<1> QED BY <1>2, <1>3, <1>4, <1>5 DEF Rest, j

\* A frame is sent behind what is to be sent.
LEMMA BeginAdds ==
    ASSUME TypeOK, Begin
    PROVE  /\ sent' = sent + 1 /\ sent < Len(Script)
           /\ Script[sent + 1] \in Seq(Byte)
           /\ \E g : /\ \/ g = hdlc_encode(Script[sent + 1])
                        \/ g = <<NHDLC_CONTROL_CHAR>> \o hdlc_encode(Script[sent + 1])
                     /\ g \in Seq(Byte)
                     /\ Rest' = Rest \o g
<1>0. packets \in Seq(Seq(Byte)) /\ tx \in Seq(Byte) /\ Script \in Seq(Seq(Byte)) /\ sent \in Nat
  BY DataChannelAssumption DEF TypeOK
<1> DEFINE m == Script[sent + 1]
           e == hdlc_encode(m)
           z == <<>>
           f == <<NHDLC_CONTROL_CHAR>>
           j == Joined(packets)
<1>1. sent' = sent + 1 /\ sent < Len(Script) /\ packets' = packets
  BY DEF Begin
<1>2. \E flag : (flag = z \/ flag = f) /\ tx' = (tx \o flag) \o e
  BY DEF Begin
<1>3. m \in Seq(Byte)
  <2>1. Len(Script) \in Nat
    BY <1>0, LenProperties
  <2>2. sent + 1 \in 1..Len(Script)
    BY <1>0, <1>1, <2>1
  <2> QED BY <1>0, <2>2, ElementOfSeq
<1>4. e \in Seq(Byte) /\ f \in Seq(Byte) /\ j \in Seq(Byte)
  BY <1>0, <1>3, FrameType, ControlByte, JoinedType
<1> HIDE DEF m, e, f, j
<1>5. tx \o z = tx
  BY <1>0, ConcatEmptySeq
<1>6. (tx \o f) \o e = tx \o (f \o e) /\ f \o e \in Seq(Byte)
  BY ZenonT(30), <1>0, <1>4, Regroup, ConcatProperties
<1>7. PICK g : (g = e \/ g = f \o e) /\ tx' = tx \o g
  BY <1>2, <1>5, <1>6
<1>8. g \in Seq(Byte)
  BY <1>4, <1>6, <1>7
<1>9. j \o (tx \o g) = (j \o tx) \o g
  BY ZenonT(30), <1>0, <1>4, <1>8, Regroup
<1>10. Rest' = Rest \o g
  BY <1>1, <1>7, <1>9 DEF Rest, j
<1> QED BY <1>1, <1>3, <1>7, <1>8, <1>10 DEF m, e, f

\* Nothing was cut: what was passed on, and the messages that are on their way or
\* went with the endpoint, are those sent since the boot.
StreamOf(lost, ms) ==
    /\ up => lost = <<>>
    /\ Carries(recv_decoder, Unread(recv_buf) \o (Rest \o lost), ms)
    /\ Behind(out, boot.out) \o ms = SubSeq(Script, boot.sent + 1, sent)

\* The same of what a step leads to.
StreamsTo(lost, ms) ==
    /\ up' => lost = <<>>
    /\ Carries(recv_decoder', Unread(recv_buf') \o (Rest' \o lost), ms)
    /\ Behind(out', boot'.out) \o ms = SubSeq(Script, boot'.sent + 1, sent')

StreamTrack ==
    ~apps_hdlc_encode /\ cuts = 0 =>
        /\ pc # "crashed"
        /\ \E lost \in Seq(Byte), ms \in Seq(Seq(Byte)) : StreamOf(lost, ms)

LEMMA StreamTrackInit == Init => StreamTrack
<1> SUFFICES ASSUME Init PROVE StreamTrack
  OBVIOUS
<1> DEFINE z == <<>>
<1>1. z \in Seq(Byte) /\ z \in Seq(Seq(Byte)) /\ Len(z) = 0
  OBVIOUS
<1>2. /\ boot.sent = 0 /\ boot.out = 0 /\ sent = 0 /\ out = z /\ packets = z /\ tx = z
      /\ pc = "select" /\ recv_buf = FreshRing /\ recv_decoder = FreshDecoder
  BY DEF Init
<1>3. SubSeq(Script, 1, 0) = z
  BY SubSeqEmpty
<1>4. Unread(FreshRing) = z /\ Joined(z) = z
  BY FreshRingIs, JoinedNone
<1> HIDE DEF z
<1>5. z \o z = z
  BY <1>1, ConcatEmptySeq DEF z
<1>6. Behind(z, 0) = z
  BY <1>1, BehindNothing DEF z
<1>7. Unread(recv_buf) \o (Rest \o z) = z
  BY <1>2, <1>4, <1>5 DEF Rest
<1>8. Carries(FreshDecoder, z, z)
  BY CarriesNothing DEF z
<1>9. Behind(out, boot.out) \o z = SubSeq(Script, boot.sent + 1, sent)
  BY <1>2, <1>3, <1>5, <1>6
<1>10. StreamOf(z, z)
  BY <1>2, <1>7, <1>8, <1>9 DEF StreamOf, z
<1> QED BY <1>1, <1>2, <1>10 DEF StreamTrack

\* A step that leaves the data channel alone, but for the place of the callback.
LEMMA StreamTrackKept ==
    ASSUME StreamTrack,
           UNCHANGED <<apps_hdlc_encode, recv_buf, recv_decoder, out, up, sent, tx, packets,
                       cuts, boot>>,
           pc' # "crashed" \/ pc' = pc
    PROVE  StreamTrack'
BY DEF StreamTrack, StreamOf, Rest

LEMMA StreamTrackNext == TypeOK /\ Shape /\ StreamTrack /\ [Next]_vars => StreamTrack'
<1> SUFFICES ASSUME TypeOK, Shape, StreamTrack, [Next]_vars PROVE StreamTrack'
  OBVIOUS
<1> USE DEF perif, subsystem, command, history
<1>0. /\ recv_buf \in Ring /\ recv_decoder \in Decoder /\ out \in Seq(Seq(Byte))
      /\ packets \in Seq(Seq(Byte)) /\ tx \in Seq(Byte)
      /\ Script \in Seq(Seq(Byte)) /\ sent \in Nat /\ boot.sent \in Nat /\ boot.out \in Nat
      /\ boot.sent <= sent /\ boot.out <= Len(out) /\ cuts \in Nat
  BY DataChannelAssumption DEF TypeOK, Shape
<1> DEFINE U == Unread(recv_buf)
           B == Behind(out, boot.out)
           G == SubSeq(Script, boot.sent + 1, sent)
<1>a. U \in Seq(Byte) /\ Rest \in Seq(Byte) /\ B \in Seq(Seq(Byte))
  BY <1>0, RestType, BehindType
<1>1. CASE diag_data_recv
  BY <1>1, StreamTrackKept DEF diag_data_recv
<1>2. CASE circ_read_Full
  BY <1>2, StreamTrackKept DEF circ_read_Full
<1>3. CASE circ_read
  <2> SUFFICES ASSUME ~apps_hdlc_encode', cuts' = 0
               PROVE  /\ pc' # "crashed"
                      /\ \E lost \in Seq(Byte), ms \in Seq(Seq(Byte)) : StreamsTo(lost, ms)
    BY DEF StreamTrack, StreamOf, StreamsTo
  <2>1. PICK got \in Seq(Byte), cut \in Seq(Byte) :
           /\ Unread(recv_buf') = U \o got
           /\ Rest' \in Seq(Byte)
           /\ Rest = (got \o cut) \o Rest'
           /\ (cuts' = cuts /\ cut = <<>>) \/ cuts' = cuts + 1
    BY <1>3, ReadMoves
  <2>2. cuts = 0 /\ cut = <<>>
    BY <1>0, <2>1
  <2>3. /\ pc' = "read" \/ pc' = "decode"
        /\ UNCHANGED <<apps_hdlc_encode, recv_decoder, out, up, sent, boot>>
    BY <1>3 DEF circ_read
  <2>4. PICK lost \in Seq(Byte), ms \in Seq(Seq(Byte)) : StreamOf(lost, ms)
    BY <2>2, <2>3 DEF StreamTrack
  <2> DEFINE R == Rest'
  <2>5. R \in Seq(Byte) /\ got \o cut = got
    <3>1. got \o <<>> = got
      BY ConcatEmptySeq
    <3> QED BY <2>1, <2>2, <3>1
  <2>6. Rest = got \o R
    BY <2>1, <2>5
  <2> HIDE DEF R, U
  <2>7. U \o (Rest \o lost) = (U \o got) \o (R \o lost)
    <3>1. got \o (R \o lost) = (got \o R) \o lost
      BY <2>5, Regroup
    <3>2. R \o lost \in Seq(Byte)
      BY <2>5, ConcatProperties
    <3>3. U \o (got \o (R \o lost)) = (U \o got) \o (R \o lost)
      BY <1>a, <3>2, Regroup
    <3> QED BY <2>6, <3>1, <3>3
  <2>8. Carries(recv_decoder, U \o (Rest \o lost), ms)
    BY <2>4 DEF StreamOf, U
  <2>9. StreamsTo(lost, ms)
    BY <2>1, <2>3, <2>4, <2>7, <2>8 DEF StreamsTo, StreamOf, R
  <2> QED BY <2>3, <2>9
<1>4. CASE Eagain
  BY <1>4, StreamTrackKept DEF Eagain
<1>5. CASE ReadError
  BY <1>5, StreamTrackKept DEF ReadError
<1>6. CASE Decode
  <2> SUFFICES ASSUME ~apps_hdlc_encode', cuts' = 0
               PROVE  /\ pc' # "crashed"
                      /\ \E lost \in Seq(Byte), ms \in Seq(Seq(Byte)) : StreamsTo(lost, ms)
    BY DEF StreamTrack, StreamOf, StreamsTo
  <2>1. PICK one \in {hdlc_decode_one(recv_decoder, recv_buf)} :
          /\ recv_buf' = one.ring
          /\ recv_decoder' = one.dec
          /\ IF ~one.found THEN pc' = "read" /\ UNCHANGED out
             ELSE IF msglen(one.raw) < 0 THEN pc' = "crashed" /\ UNCHANGED out
             ELSE pc' = "decode" /\ out' = Append(out, Message(one.raw))
    BY <1>6 DEF Decode, dm_broadcast
  <2>2. UNCHANGED <<apps_hdlc_encode, up, sent, tx, packets, cuts, boot>>
    BY <1>6 DEF Decode, dm_broadcast
  <2>3. PICK lost \in Seq(Byte), ms \in Seq(Seq(Byte)) : StreamOf(lost, ms)
    BY <2>2 DEF StreamTrack
  <2> DEFINE t == Rest \o lost
  <2>4. t \in Seq(Byte) /\ one = hdlc_decode_one(recv_decoder, recv_buf)
    BY <1>a, <2>1, ConcatProperties
  <2>5. Carries(recv_decoder, U \o t, ms) /\ (up => lost = <<>>) /\ B \o ms = G
    BY <2>3 DEF StreamOf
  <2>6. Rest' = Rest
    BY <2>2 DEF Rest
  <2> HIDE DEF t
  <2>7. /\ ~one.found => Carries(one.dec, Unread(one.ring) \o t, ms)
        /\ one.found => FirstIs(one, t, ms)
    <3>1. recv_decoder \in Decoder /\ recv_buf \in Ring
      BY <1>0
    <3>2. Carries(recv_decoder, Unread(recv_buf) \o t, ms)
      BY <2>5
    <3>3. ms \in Seq(Seq(Byte)) /\ t \in Seq(Byte) /\ one = hdlc_decode_one(recv_decoder, recv_buf)
      BY <2>4
    <3>4. ~one.found => Carries(one.dec, Unread(one.ring) \o t, ms)
      BY <3>1, <3>2, <3>3, CarriesFirst
    <3>5. one.found => FirstIs(one, t, ms)
      BY <3>1, <3>2, <3>3, CarriesFirst
    <3> QED BY <3>4, <3>5
  <2>8. CASE ~one.found
    <3>1. pc' = "read" /\ out' = out
      BY <2>1, <2>8
    <3>2. StreamsTo(lost, ms)
      BY <2>1, <2>2, <2>5, <2>6, <2>7, <2>8, <3>1 DEF StreamsTo, StreamOf, t
    <3> QED BY <3>1, <3>2
  <2>9. CASE one.found
    <3>1. PICK m \in Seq(Byte), rest \in Seq(Seq(Byte)) :
             /\ one.raw = RawOf(m)
             /\ ms = <<m>> \o rest
             /\ Carries(one.dec, Unread(one.ring) \o t, rest)
      BY <2>7, <2>9, Zenon DEF FirstIs
    <3>2. Len(one.raw) = Len(m) + 2 /\ Len(m) \in Nat /\ Message(one.raw) = m
      BY <3>1, BytesType, LenProperties, DecodesFrame
    <3>3. ~(msglen(one.raw) < 0)
      BY <3>2 DEF msglen
    <3>4. pc' = "decode" /\ out' = Append(out, m)
      BY <2>1, <2>9, <3>2, <3>3
    <3> DEFINE x == <<m>>
    <3>a. x \in Seq(Seq(Byte))
      OBVIOUS
    <3>b. Behind(Append(out, m), boot.out) = Behind(out, boot.out) \o <<m>>
      BY <1>0, BehindAppend
    <3>5. x \in Seq(Seq(Byte)) /\ Behind(Append(out, m), boot.out) = B \o x
      BY <3>a, <3>b
    <3> HIDE DEF x, B, G
    <3>6. B \o (x \o rest) = (B \o x) \o rest
      BY <1>a, <3>5, Regroup
    <3>7. (B \o x) \o rest = G
      BY <2>5, <3>1, <3>6 DEF x
    <3>8. Behind(out', boot'.out) \o rest = SubSeq(Script, boot'.sent + 1, sent')
      BY <2>2, <3>4, <3>5, <3>7 DEF G
    <3>9. StreamsTo(lost, rest)
      BY <2>1, <2>2, <2>5, <2>6, <3>1, <3>8 DEF StreamsTo, StreamOf, t
    <3> QED BY <3>4, <3>9
  <2>10. one.found \in BOOLEAN
    BY <1>0, <2>4, DecodeOneTakes
  <2> QED BY <2>8, <2>9, <2>10
<1>7. CASE diag_data_recv_raw
  <2>1. apps_hdlc_encode
    BY <1>7 DEF diag_data_recv_raw, Shape
  <2>2. apps_hdlc_encode' = apps_hdlc_encode
    BY <1>7 DEF diag_data_recv_raw, dm_broadcast
  <2> QED BY <2>1, <2>2 DEF StreamTrack
<1>8. CASE diag_cmd_recv
  BY <1>8, StreamTrackKept DEF diag_cmd_recv
<1>9. CASE diag_cmd_recv_Error
  BY <1>9, StreamTrackKept DEF diag_cmd_recv_Error
<1>10. CASE Begin
  <2> SUFFICES ASSUME ~apps_hdlc_encode', cuts' = 0
               PROVE  /\ pc' # "crashed"
                      /\ \E lost \in Seq(Byte), ms \in Seq(Seq(Byte)) : StreamsTo(lost, ms)
    BY DEF StreamTrack, StreamOf, StreamsTo
  <2>1. up /\ UNCHANGED <<apps_hdlc_encode, recv_buf, recv_decoder, pc, out, up, cuts, boot>>
    BY <1>10 DEF Begin
  <2> DEFINE m == Script[sent + 1]
             x == <<m>>
             z == <<>>
  <2>2. sent' = sent + 1 /\ sent < Len(Script) /\ m \in Seq(Byte)
    BY <1>10, BeginAdds
  <2>3. PICK g : /\ g = hdlc_encode(m) \/ g = <<NHDLC_CONTROL_CHAR>> \o hdlc_encode(m)
                 /\ g \in Seq(Byte)
                 /\ Rest' = Rest \o g
    BY <1>10, BeginAdds
  <2>4. PICK lost \in Seq(Byte), ms \in Seq(Seq(Byte)) : StreamOf(lost, ms)
    BY <2>1 DEF StreamTrack
  <2>5. pc # "crashed"
    BY <2>1 DEF StreamTrack
  <2>6. z \in Seq(Byte) /\ Rest \o z = Rest /\ lost = z
    BY <1>a, <2>1, <2>4, ConcatEmptySeq DEF StreamOf
  <2>7. x \in Seq(Seq(Byte)) /\ SubSeq(Script, boot.sent + 1, sent + 1) = G \o x
        /\ G \in Seq(Seq(Byte))
    <3> DEFINE b == boot.sent
    <3>1. b \in Nat /\ sent \in Nat /\ b <= sent /\ sent < Len(Script)
      BY <1>0, <2>2
    <3> HIDE DEF b
    <3>a. Script \in Seq(Seq(Byte))
      BY <1>0
    <3>2. SubSeq(Script, b + 1, sent) \in Seq(Seq(Byte))
          /\ SubSeq(Script, b + 1, sent + 1) = SubSeq(Script, b + 1, sent) \o x
      BY <3>1, <3>a, BegunGrows
    <3>3. x \in Seq(Seq(Byte))
      BY <2>2
    <3> HIDE DEF x
    <3> QED BY <3>2, <3>3 DEF b
  <2>8. Carries(recv_decoder, U \o Rest, ms) /\ B \o ms = G
    BY <2>4, <2>6 DEF StreamOf
  <2> HIDE DEF m, x, z, U, B, G
  <2>9. U \o Rest \in Seq(Byte)
    BY <1>a, ConcatProperties
  <2>10. Carries(recv_decoder, (U \o Rest) \o g, ms \o x)
    BY <1>0, <2>2, <2>3, <2>8, <2>9, CarriesMore DEF x
  <2>11. (U \o Rest) \o g = U \o (Rest \o g) /\ Rest \o g \in Seq(Byte)
    BY <1>a, <2>3, Regroup, ConcatProperties
  <2>12. (Rest \o g) \o z = Rest \o g
    BY <2>11, ConcatEmptySeq DEF z
  <2>13. B \o (ms \o x) = G \o x /\ ms \o x \in Seq(Seq(Byte))
    BY ZenonT(30), <1>a, <2>7, <2>8, Regroup, ConcatProperties
  <2>14. Carries(recv_decoder', Unread(recv_buf') \o (Rest' \o z), ms \o x)
    BY <2>1, <2>3, <2>10, <2>11, <2>12 DEF U
  <2>15. Behind(out', boot'.out) \o (ms \o x) = SubSeq(Script, boot'.sent + 1, sent')
    BY <2>1, <2>2, <2>7, <2>13 DEF B
  <2>16. StreamsTo(z, ms \o x)
    BY <2>14, <2>15 DEF StreamsTo, z
  <2> QED BY <2>1, <2>5, <2>6, <2>13, <2>16
<1>11. CASE Transmit
  <2>1. Rest' = Rest
    BY <1>11, TransmitMoves
  <2>2. UNCHANGED <<apps_hdlc_encode, recv_buf, recv_decoder, pc, out, up, sent, cuts, boot>>
    BY <1>11 DEF Transmit
  <2> QED BY <2>1, <2>2 DEF StreamTrack, StreamOf
<1>12. CASE TransmitRaw
  <2>1. apps_hdlc_encode /\ apps_hdlc_encode' = apps_hdlc_encode
    BY <1>12 DEF TransmitRaw
  <2> QED BY <2>1 DEF StreamTrack
<1>13. CASE Answer
  BY <1>13, StreamTrackKept DEF Answer
<1>14. CASE Down
  <2> SUFFICES ASSUME ~apps_hdlc_encode', cuts' = 0
               PROVE  /\ pc' # "crashed"
                      /\ \E lost \in Seq(Byte), ms \in Seq(Seq(Byte)) : StreamsTo(lost, ms)
    BY DEF StreamTrack, StreamOf, StreamsTo
  <2>1. UNCHANGED <<apps_hdlc_encode, recv_buf, recv_decoder, pc, out, sent, cuts, boot>>
        /\ pc # "crashed" /\ up /\ up' = FALSE /\ packets' = <<>> /\ tx' = <<>>
    BY <1>14 DEF Down
  <2>2. PICK lost \in Seq(Byte), ms \in Seq(Seq(Byte)) : StreamOf(lost, ms)
    BY <2>1 DEF StreamTrack
  <2>3. Rest \o lost = Rest
    BY <1>a, <2>1, <2>2, ConcatEmptySeq DEF StreamOf
  <2>4. Rest' \o Rest = Rest
    <3> DEFINE z == <<>>
    <3>1. z \in Seq(Byte) /\ Joined(z) = z /\ packets' = z /\ tx' = z
      BY <2>1, JoinedNone
    <3>2. z \o z = z /\ z \o Rest = Rest
      BY <1>a, ConcatEmptySeq
    <3> HIDE DEF z
    <3> QED BY <3>1, <3>2 DEF Rest
  <2>5. StreamsTo(Rest, ms)
    <3>1. Carries(recv_decoder, Unread(recv_buf) \o Rest, ms)
      BY <2>2, <2>3 DEF StreamOf
    <3>2. Carries(recv_decoder', Unread(recv_buf') \o (Rest' \o Rest), ms)
      BY <2>1, <2>4, <3>1
    <3>3. Behind(out', boot'.out) \o ms = SubSeq(Script, boot'.sent + 1, sent')
      BY <2>1, <2>2 DEF StreamOf
    <3> QED BY <2>1, <3>2, <3>3 DEF StreamsTo
  <2> QED BY <1>a, <2>1, <2>5
<1>15. CASE Reopen
  <2>1. /\ ~up /\ recv_decoder' = FreshDecoder /\ recv_buf' = FreshRing /\ pc' = "select"
        /\ boot' = Booted /\ UNCHANGED <<apps_hdlc_encode, out, sent, tx, packets>>
    BY <1>15 DEF Reopen
  <2> DEFINE z == <<>>
  <2>2. packets = z /\ tx = z
    BY <2>1 DEF Shape
  <2>3. boot'.sent = sent /\ boot'.out = Len(out)
    BY <2>1 DEF Booted
  <2>4. z \in Seq(Byte) /\ z \in Seq(Seq(Byte)) /\ Len(z) = 0
    OBVIOUS
  <2>5. SubSeq(Script, sent + 1, sent) = z /\ Behind(out, Len(out)) = z
    BY <1>0, SubSeqEmpty, BehindNothing
  <2>6. Unread(FreshRing) = z /\ Joined(z) = z
    BY FreshRingIs, JoinedNone
  <2>7. Carries(FreshDecoder, z, z)
    BY CarriesNothing
  <2> HIDE DEF z
  <2>8. z \o z = z
    BY <2>4, ConcatEmptySeq DEF z
  <2>9. Unread(recv_buf') \o (Rest' \o z) = z
    BY <2>1, <2>2, <2>6, <2>8 DEF Rest
  <2>10. Behind(out', boot'.out) \o z = SubSeq(Script, boot'.sent + 1, sent')
    BY <2>1, <2>3, <2>5, <2>8
  <2>11. StreamsTo(z, z)
    BY <2>1, <2>7, <2>9, <2>10 DEF StreamsTo, z
  <2> QED BY <2>1, <2>4, <2>11 DEF StreamTrack, StreamOf, StreamsTo
<1>16. CASE UNCHANGED vars
  BY <1>16, StreamTrackKept DEF vars
<1>17. CASE Drain
  BY <1>17, StreamTrackKept DEF Drain
<1> QED
  BY <1>1, <1>2, <1>3, <1>4, <1>5, <1>6, <1>7, <1>8, <1>9, <1>10, <1>11, <1>12, <1>13,
     <1>14, <1>15, <1>16, <1>17 DEF Next, RouterStep, Environment

\* The same where the router encodes and packets are messages.
RawTrack ==
    apps_hdlc_encode /\ cuts = 0 =>
        \E lost \in Seq(Seq(Byte)) :
           /\ up => lost = <<>>
           /\ (Behind(out, boot.out) \o packets) \o lost = SubSeq(Script, boot.sent + 1, sent)

LEMMA RawTrackInit == Init => RawTrack
<1> SUFFICES ASSUME Init PROVE RawTrack
  OBVIOUS
<1> DEFINE z == <<>>
<1>1. z \in Seq(Seq(Byte)) /\ Len(z) = 0
  OBVIOUS
<1>2. boot.sent = 0 /\ boot.out = 0 /\ sent = 0 /\ out = z /\ packets = z
  BY DEF Init
<1>3. SubSeq(Script, 1, 0) = z
  BY SubSeqEmpty
<1> HIDE DEF z
<1>4. z \o z = z
  BY <1>1, ConcatEmptySeq DEF z
<1>5. Behind(z, 0) = z
  BY <1>1, BehindNothing DEF z
<1>6. (Behind(out, boot.out) \o packets) \o z = SubSeq(Script, boot.sent + 1, sent)
  BY <1>2, <1>3, <1>4, <1>5
<1> QED BY <1>1, <1>6 DEF RawTrack, z

LEMMA RawTrackKept ==
    ASSUME RawTrack,
           UNCHANGED <<apps_hdlc_encode, out, up, sent, packets, cuts, boot>>
    PROVE  RawTrack'
BY DEF RawTrack

LEMMA RawTrackNext == TypeOK /\ Shape /\ RawTrack /\ [Next]_vars => RawTrack'
<1> SUFFICES ASSUME TypeOK, Shape, RawTrack, [Next]_vars PROVE RawTrack'
  OBVIOUS
<1> USE DEF perif, subsystem, command, history
<1>0. /\ out \in Seq(Seq(Byte)) /\ packets \in Seq(Seq(Byte))
      /\ Script \in Seq(Seq(Byte)) /\ sent \in Nat /\ boot.sent \in Nat /\ boot.out \in Nat
      /\ boot.sent <= sent /\ boot.out <= Len(out) /\ cuts \in Nat /\ RAW_SIZE \in Nat
  BY DataChannelAssumption DEF TypeOK, Shape
<1> DEFINE B == Behind(out, boot.out)
           G == SubSeq(Script, boot.sent + 1, sent)
<1>a. B \in Seq(Seq(Byte))
  BY <1>0, BehindType
<1>1. CASE diag_data_recv
  BY <1>1, RawTrackKept DEF diag_data_recv
<1>2. CASE circ_read_Full
  BY <1>2, RawTrackKept DEF circ_read_Full
<1>3. CASE circ_read
  BY <1>3 DEF circ_read, Shape, RawTrack
<1>4. CASE Eagain
  BY <1>4, RawTrackKept DEF Eagain
<1>5. CASE ReadError
  BY <1>5, RawTrackKept DEF ReadError
<1>6. CASE Decode
  <2>1. pc = "decode" /\ apps_hdlc_encode' = apps_hdlc_encode
    BY <1>6 DEF Decode, dm_broadcast
  <2> QED BY <2>1 DEF Shape, RawTrack
<1>7. CASE diag_data_recv_raw
  <2> SUFFICES ASSUME apps_hdlc_encode', cuts' = 0
               PROVE  \E lost \in Seq(Seq(Byte)) :
                         /\ up' => lost = <<>>
                         /\ (Behind(out', boot'.out) \o packets') \o lost
                               = SubSeq(Script, boot'.sent + 1, sent')
    BY DEF RawTrack
  <2> DEFINE p == Head(packets)
             R == Tail(packets)
             x == <<p>>
  <2>1. /\ packets # <<>> /\ packets' = R /\ up' = up /\ up
        /\ out' = Append(out, Got(p, RAW_SIZE))
        /\ cuts' = cuts + (IF Lost(p, RAW_SIZE) THEN 1 ELSE 0)
        /\ UNCHANGED <<apps_hdlc_encode, sent, boot>>
    BY <1>7 DEF diag_data_recv_raw, dm_broadcast
  <2>2. p \in Seq(Byte) /\ R \in Seq(Seq(Byte)) /\ packets = x \o R
    BY <1>0, <2>1, JoinedFirst
  <2>3. ~Lost(p, RAW_SIZE) /\ cuts = 0
    <3>1. CASE Lost(p, RAW_SIZE)
      <4>1. cuts' = cuts + 1
        BY <2>1, <3>1
      <4> QED BY <1>0, <4>1
    <3>2. CASE ~Lost(p, RAW_SIZE)
      <4>1. cuts' = cuts + 0
        BY <2>1, <3>2
      <4> QED BY <1>0, <3>2, <4>1
    <3> QED BY <3>1, <3>2
  <2>4. Got(p, RAW_SIZE) = p
    BY <1>0, <2>2, <2>3, GotSplits
  <2>5. Behind(Append(out, p), boot.out) = Behind(out, boot.out) \o <<p>>
    BY <1>0, <2>2, BehindAppend
  <2>6. x \in Seq(Seq(Byte))
    BY <2>2
  <2>7. PICK lost \in Seq(Seq(Byte)) : (up => lost = <<>>) /\ (B \o packets) \o lost = G
    BY <2>1, <2>3 DEF RawTrack
  <2> HIDE DEF x, p, R, B, G
  <2>8. B \o (x \o R) = (B \o x) \o R
    BY <1>a, <2>2, <2>6, Regroup
  <2>9. Behind(out', boot'.out) \o packets' = B \o packets
    BY <2>1, <2>2, <2>4, <2>5, <2>8 DEF B, x
  <2>10. SubSeq(Script, boot'.sent + 1, sent') = G
    BY <2>1 DEF G
  <2>11. (Behind(out', boot'.out) \o packets') \o lost = SubSeq(Script, boot'.sent + 1, sent')
    BY <2>7, <2>9, <2>10
  <2> QED BY <2>1, <2>7, <2>11
<1>8. CASE diag_cmd_recv
  BY <1>8, RawTrackKept DEF diag_cmd_recv
<1>9. CASE diag_cmd_recv_Error
  BY <1>9, RawTrackKept DEF diag_cmd_recv_Error
<1>10. CASE Begin
  BY <1>10 DEF Begin, RawTrack
<1>11. CASE Transmit
  <2>1. PICK n \in 1..Len(tx) : TRUE
    BY <1>11 DEF Transmit
  <2>2. tx # <<>>
    BY <2>1
  <2>3. ~apps_hdlc_encode /\ apps_hdlc_encode' = apps_hdlc_encode
    BY <1>11, <2>2 DEF Transmit, Shape
  <2> QED BY <2>3 DEF RawTrack
<1>12. CASE TransmitRaw
  <2> SUFFICES ASSUME apps_hdlc_encode', cuts' = 0
               PROVE  \E lost \in Seq(Seq(Byte)) :
                         /\ up' => lost = <<>>
                         /\ (Behind(out', boot'.out) \o packets') \o lost
                               = SubSeq(Script, boot'.sent + 1, sent')
    BY DEF RawTrack
  <2> DEFINE m == Script[sent + 1]
             x == <<m>>
             z == <<>>
  <2>1. /\ up /\ up' = up /\ sent < Len(Script) /\ sent' = sent + 1
        /\ packets' = Append(packets, m)
        /\ UNCHANGED <<apps_hdlc_encode, out, cuts, boot>>
    BY <1>12 DEF TransmitRaw
  <2>2. m \in Seq(Byte) /\ SubSeq(Script, boot.sent + 1, sent + 1) = G \o x
        /\ G \in Seq(Seq(Byte))
    <3> DEFINE b == boot.sent
    <3>1. b \in Nat /\ sent \in Nat /\ b <= sent /\ sent < Len(Script)
      BY <1>0, <2>1
    <3> HIDE DEF b
    <3>a. Script \in Seq(Seq(Byte))
      BY <1>0
    <3>2. m \in Seq(Byte) /\ SubSeq(Script, b + 1, sent) \in Seq(Seq(Byte))
          /\ SubSeq(Script, b + 1, sent + 1) = SubSeq(Script, b + 1, sent) \o x
      BY <3>1, <3>a, BegunGrows
    <3> HIDE DEF m, x
    <3> QED BY <3>2 DEF b
  <2>3. x \in Seq(Seq(Byte)) /\ Append(packets, m) = packets \o x
    <3>1. m \in Seq(Byte) /\ packets \in Seq(Seq(Byte))
      BY <1>0, <2>2
    <3> HIDE DEF m
    <3>2. <<m>> \in Seq(Seq(Byte))
      BY <3>1
    <3>3. Append(packets, m) = packets \o <<m>>
      BY <3>1, AppendIsConcat
    <3> QED BY <3>2, <3>3
  <2>4. PICK lost \in Seq(Seq(Byte)) : (up => lost = <<>>) /\ (B \o packets) \o lost = G
    BY <2>1 DEF RawTrack
  <2>5. z \in Seq(Seq(Byte)) /\ lost = z
    BY <2>1, <2>4
  <2> HIDE DEF x, m, z, B, G
  <2>6. B \o packets \in Seq(Seq(Byte))
    BY <1>0, <1>a, ConcatProperties
  <2>7. B \o packets = G
    BY <2>4, <2>5, <2>6, ConcatEmptySeq DEF z
  <2>8. B \o (packets \o x) = (B \o packets) \o x /\ G \o x \in Seq(Seq(Byte))
    <3>1. packets \in Seq(Seq(Byte)) /\ x \in Seq(Seq(Byte)) /\ G \in Seq(Seq(Byte))
      BY <1>0, <2>2, <2>3
    <3>2. B \o (packets \o x) = (B \o packets) \o x
      BY SMTT(30), <1>a, <3>1, Regroup
    <3>3. G \o x \in Seq(Seq(Byte))
      BY <3>1, ConcatProperties
    <3> QED BY <3>2, <3>3
  <2>9. (G \o x) \o z = G \o x
    BY <2>8, ConcatEmptySeq DEF z
  <2>10. (Behind(out', boot'.out) \o packets') \o z = SubSeq(Script, boot'.sent + 1, sent')
    BY <2>1, <2>2, <2>3, <2>7, <2>8, <2>9 DEF B
  <2> QED BY <2>5, <2>10 DEF z
<1>13. CASE Answer
  BY <1>13, RawTrackKept DEF Answer
<1>14. CASE Down
  <2> SUFFICES ASSUME apps_hdlc_encode', cuts' = 0
               PROVE  \E lost \in Seq(Seq(Byte)) :
                         /\ up' => lost = <<>>
                         /\ (Behind(out', boot'.out) \o packets') \o lost
                               = SubSeq(Script, boot'.sent + 1, sent')
    BY DEF RawTrack
  <2> DEFINE z == <<>>
  <2>1. /\ up /\ up' = FALSE /\ packets' = z
        /\ UNCHANGED <<apps_hdlc_encode, out, sent, cuts, boot>>
    BY <1>14 DEF Down
  <2>2. PICK lost \in Seq(Seq(Byte)) : (up => lost = <<>>) /\ (B \o packets) \o lost = G
    BY <2>1 DEF RawTrack
  <2>3. lost = z
    BY <2>1, <2>2
  <2>4. B \o z = B
    BY <1>a, ConcatEmptySeq
  <2> HIDE DEF B, G
  <2>5. B \o packets \in Seq(Seq(Byte))
    BY <1>0, <1>a, ConcatProperties
  <2>6. (B \o packets) \o z = B \o packets
    BY <2>5, ConcatEmptySeq
  <2> HIDE DEF z
  <2>7. (Behind(out', boot'.out) \o packets') \o packets = SubSeq(Script, boot'.sent + 1, sent')
    BY <2>1, <2>2, <2>3, <2>4, <2>6 DEF B, G
  <2> QED BY <1>0, <2>1, <2>7
<1>15. CASE Reopen
  <2> DEFINE z == <<>>
  <2>1. /\ ~up /\ boot' = Booted /\ UNCHANGED <<apps_hdlc_encode, out, sent, packets>>
    BY <1>15 DEF Reopen
  <2>2. packets = z
    BY <2>1 DEF Shape
  <2>3. boot'.sent = sent /\ boot'.out = Len(out)
    BY <2>1 DEF Booted
  <2>4. z \in Seq(Seq(Byte))
    OBVIOUS
  <2>5. SubSeq(Script, sent + 1, sent) = z /\ Behind(out, Len(out)) = z
    BY <1>0, SubSeqEmpty, BehindNothing
  <2>6. z \o z = z
    BY <2>4, ConcatEmptySeq
  <2> HIDE DEF z
  <2>7. (Behind(out', boot'.out) \o packets') \o z = SubSeq(Script, boot'.sent + 1, sent')
    BY <2>1, <2>2, <2>3, <2>5, <2>6
  <2> QED BY <2>4, <2>7 DEF RawTrack, z
<1>16. CASE UNCHANGED vars
  BY <1>16, RawTrackKept DEF vars
<1>17. CASE Drain
  BY <1>17, RawTrackKept DEF Drain
<1> QED
  BY <1>1, <1>2, <1>3, <1>4, <1>5, <1>6, <1>7, <1>8, <1>9, <1>10, <1>11, <1>12, <1>13,
     <1>14, <1>15, <1>16, <1>17 DEF Next, RouterStep, Environment

Tracked == TypeOK /\ Shape /\ StreamTrack /\ RawTrack

LEMMA TrackedInit == Init => Tracked
BY InitType, ShapeInit, StreamTrackInit, RawTrackInit DEF Tracked

LEMMA TrackedNext == Tracked /\ [Next]_vars => Tracked'
BY NextType, ShapeNext, StreamTrackNext, RawTrackNext DEF Tracked

LEMMA TrackedInOrder == Tracked => InOrder
<1> SUFFICES ASSUME Tracked, cuts = 0, pc # "closed"
             PROVE  /\ IsPrefix(SubSeq(out, boot.out + 1, Len(out)) \o InTransit,
                                SubSeq(Script, boot.sent + 1, sent))
                    /\ up => SubSeq(out, boot.out + 1, Len(out)) \o InTransit
                                = SubSeq(Script, boot.sent + 1, sent)
  BY DEF InOrder
<1>0. /\ TypeOK /\ Shape /\ out \in Seq(Seq(Byte)) /\ boot.out \in Nat /\ boot.out <= Len(out)
      /\ recv_decoder \in Decoder /\ packets \in Seq(Seq(Byte))
  BY DEF Tracked, TypeOK, Shape
<1> DEFINE B == Behind(out, boot.out)
           G == SubSeq(Script, boot.sent + 1, sent)
           I == InTransit
           r == B \o I
<1>1. B \in Seq(Seq(Byte))
  BY <1>0, BehindType
<1>2. \E more \in Seq(Seq(Byte)) : /\ I \in Seq(Seq(Byte)) /\ B \o (I \o more) = G
                                   /\ up => more = <<>>
  <2>1. CASE apps_hdlc_encode
    <3>1. I = packets
      BY <1>0, <2>1 DEF Shape, InTransit
    <3>2. PICK lost \in Seq(Seq(Byte)) : (up => lost = <<>>) /\ (B \o packets) \o lost = G
      BY <2>1 DEF Tracked, RawTrack
    <3> HIDE DEF B, G, I
    <3>3. B \o (packets \o lost) = G
      BY <1>0, <1>1, <3>2, Regroup
    <3> QED BY <1>0, <3>1, <3>2, <3>3
  <2>2. CASE ~apps_hdlc_encode
    <3>1. PICK lost \in Seq(Byte), ms \in Seq(Seq(Byte)) : StreamOf(lost, ms)
      BY <2>2 DEF Tracked, StreamTrack
    <3>2. pc # "crashed"
      BY <2>2 DEF Tracked, StreamTrack
    <3> DEFINE s == Unread(recv_buf) \o Rest
    <3>3. I = Messages(recv_decoder, Unread(recv_buf) \o Joined(packets) \o tx)
      BY <2>2, <3>2 DEF InTransit
    <3>4. I = Messages(recv_decoder, s)
      BY <1>0, <3>3, RestType
    <3>5. Rest \in Seq(Byte) /\ Unread(recv_buf) \in Seq(Byte)
      BY <1>0, RestType
    <3>6. s \in Seq(Byte) /\ Unread(recv_buf) \o (Rest \o lost) = s \o lost
      BY <3>5, ConcatProperties, Regroup
    <3>7. Carries(recv_decoder, s \o lost, ms) /\ (up => lost = <<>>) /\ B \o ms = G
      BY <3>1, <3>6 DEF StreamOf
    <3> HIDE DEF s, B, G, I
    <3>8. PICK more \in Seq(Seq(Byte)) : /\ ms = Messages(recv_decoder, s) \o more
                                         /\ lost = <<>> => more = <<>>
      BY <1>0, <3>6, <3>7, CarriesPart
    <3>9. I \in Seq(Seq(Byte))
      BY <1>0, <3>4, <3>6, MessagesIs
    <3> QED BY <3>4, <3>7, <3>8, <3>9
  <2> QED BY <2>1, <2>2
<1>3. PICK more \in Seq(Seq(Byte)) : /\ I \in Seq(Seq(Byte)) /\ B \o (I \o more) = G
                                     /\ up => more = <<>>
  BY <1>2
<1> HIDE DEF B, G, I
<1>4. r \in Seq(Seq(Byte)) /\ r \o more = G
  BY <1>1, <1>3, Regroup, ConcatProperties
<1> HIDE DEF r
<1>5. IsPrefix(r, G)
  BY <1>4, PrefixOfConcat
<1>6. up => r = G
  BY <1>3, <1>4, ConcatEmptySeq
<1> QED BY <1>5, <1>6 DEF r, B, G, I, Behind

\* diag_data_recv passes on what a subsystem sends unchanged, once and in order,
\* whatever the messages are and wherever packets, reads and the end of the
\* circular buffer cut them, so long as nothing is cut off a packet.
THEOREM MessagesInOrder == Spec => []InOrder
<1>1. Init => Tracked
  BY TrackedInit
<1>2. Tracked /\ [Next]_vars => Tracked'
  BY TrackedNext
<1>3. Tracked => InOrder
  BY TrackedInOrder
<1> QED BY <1>1, <1>2, <1>3, PTL DEF Spec

\* The frames of the script fit the raw buffer of the decoder.
MessagesFit == \A i \in 1..Len(Script) : Len(Script[i]) + 2 <= HDLC_BUF_SIZE

LEMMA TrackedInBounds ==
    ASSUME MessagesFit
    PROVE  Tracked => DecoderInBounds
<1> SUFFICES ASSUME Tracked, cuts = 0
             PROVE  Len(recv_decoder.raw) <= HDLC_BUF_SIZE /\ pc # "crashed"
  BY DEF DecoderInBounds
<1>0. /\ TypeOK /\ Shape /\ recv_decoder \in Decoder /\ HDLC_BUF_SIZE \in Nat
      /\ out \in Seq(Seq(Byte)) /\ boot.out \in Nat /\ boot.out <= Len(out)
      /\ boot.sent \in Nat /\ sent \in Nat /\ boot.sent <= sent /\ sent <= Len(Script)
      /\ Script \in Seq(Seq(Byte))
  <2>1. Len(Script) \in Nat
    BY DataChannelAssumption, LenProperties
  <2> QED BY <2>1, HdlcAssumption, DataChannelAssumption DEF Tracked, TypeOK, Shape
<1>1. CASE apps_hdlc_encode
  <2>1. recv_decoder = FreshDecoder /\ pc # "crashed"
    BY <1>0, <1>1 DEF Shape
  <2>2. Len(FreshDecoder.raw) = 0
    BY DEF FreshDecoder
  <2> QED BY <1>0, <2>1, <2>2
<1>2. CASE ~apps_hdlc_encode
  <2>1. PICK lost \in Seq(Byte), ms \in Seq(Seq(Byte)) : StreamOf(lost, ms)
    BY <1>2 DEF Tracked, StreamTrack
  <2>2. pc # "crashed"
    BY <1>2 DEF Tracked, StreamTrack
  <2> DEFINE s == Unread(recv_buf) \o (Rest \o lost)
             B == Behind(out, boot.out)
             G == SubSeq(Script, boot.sent + 1, sent)
             n == HDLC_BUF_SIZE
  <2>3. s \in Seq(Byte)
    <3>1. Rest \in Seq(Byte) /\ Unread(recv_buf) \in Seq(Byte)
      BY <1>0, RestType
    <3>2. Rest \o lost \in Seq(Byte)
      BY <3>1, ConcatProperties
    <3> QED BY <3>1, <3>2, ConcatProperties
  <2>4. Carries(recv_decoder, s, ms) /\ B \o ms = G
    BY <2>1 DEF StreamOf
  <2>5. B \in Seq(Seq(Byte))
    BY <1>0, BehindType
  <2>6. Len(G) = sent - boot.sent /\ \A i \in 1..Len(G) : G[i] = Script[boot.sent + i]
    <3> DEFINE b == boot.sent
    <3>1. b \in Nat /\ b <= sent /\ sent \in Nat /\ sent <= Len(Script) /\ Len(Script) \in Nat
      BY <1>0, LenProperties
    <3> HIDE DEF b
    <3>2. Len(SubSeq(Script, b + 1, sent)) = sent - b
      BY <1>0, <3>1, BegunType
    <3>3. \A i \in (b + 1)..sent : Script[i] \in Seq(Byte)
      BY <1>0, <3>1, ElementOfSeq
    <3>4. \A i \in 1..(sent - (b + 1) + 1) : SubSeq(Script, b + 1, sent)[i] = Script[(b + 1) + i - 1]
      BY <3>1, <3>3, SubSeqProperties
    <3>5. \A i \in 1..(sent - b) : SubSeq(Script, b + 1, sent)[i] = Script[b + i]
      <4> SUFFICES ASSUME NEW i \in 1..(sent - b)
                   PROVE  SubSeq(Script, b + 1, sent)[i] = Script[b + i]
        OBVIOUS
      <4>1. i \in 1..(sent - (b + 1) + 1) /\ (b + 1) + i - 1 = b + i
        BY <3>1
      <4> QED BY <3>4, <4>1
    <3> QED BY <3>2, <3>5 DEF b
  <2> HIDE DEF s, B, G, n
  <2>7. \A i \in 1..Len(ms) : Len(ms[i]) + 2 <= n
    <3> SUFFICES ASSUME NEW i \in 1..Len(ms) PROVE Len(ms[i]) + 2 <= n
      OBVIOUS
    <3>1. Len(B) \in Nat /\ Len(ms) \in Nat
      BY <2>5, LenProperties
    <3>2. /\ Len(B \o ms) = Len(B) + Len(ms)
          /\ \A k \in 1..(Len(B) + Len(ms)) :
                (B \o ms)[k] = IF k <= Len(B) THEN B[k] ELSE ms[k - Len(B)]
      BY <2>5, ConcatProperties
    <3>3. Len(B) + i \in 1..(Len(B) + Len(ms)) /\ ~(Len(B) + i <= Len(B))
          /\ (Len(B) + i) - Len(B) = i
      BY <3>1
    <3>4. G[Len(B) + i] = ms[i] /\ Len(B) + i \in 1..Len(G)
      BY <2>4, <3>2, <3>3
    <3>5. G[Len(B) + i] = Script[boot.sent + (Len(B) + i)]
      BY <2>6, <3>4
    <3>6. boot.sent + (Len(B) + i) \in 1..Len(Script)
      <4>1. Len(Script) \in Nat /\ i \in Nat /\ i >= 1
        BY <1>0, LenProperties
      <4>2. Len(B) + i <= sent - boot.sent
        BY <1>0, <2>6, <3>1, <3>4
      <4> DEFINE j == Len(B)
                 b == boot.sent
                 l == Len(Script)
      <4>3. j \in Nat /\ b \in Nat /\ l \in Nat /\ sent \in Nat /\ sent <= l /\ j + i <= sent - b
            /\ i \in Nat /\ i >= 1
        BY <1>0, <3>1, <4>1, <4>2
      <4> HIDE DEF j, b, l
      <4>4. b + (j + i) \in 1..l
        BY <4>3
      <4> QED BY <4>4 DEF j, b, l
    <3>7. Len(Script[boot.sent + (Len(B) + i)]) + 2 <= HDLC_BUF_SIZE
      BY <3>6 DEF MessagesFit
    <3> QED BY <3>4, <3>5, <3>7 DEF n
  <2>8. Len(recv_decoder.raw) <= n
    BY <1>0, <2>3, <2>4, <2>7, CarriesBounds DEF n
  <2> QED BY <2>2, <2>8 DEF n
<1> QED BY <1>1, <1>2

\* hdlc_decode_one, which checks neither its index nor the length of a message,
\* stays in its buffer as long as no packet lost its end, if every message and its
\* CRC fit that buffer.
THEOREM DecoderStaysInBounds == MessagesFit => (Spec => []DecoderInBounds)
<1> SUFFICES ASSUME MessagesFit PROVE Spec => []DecoderInBounds
  OBVIOUS
<1>1. Init => Tracked
  BY TrackedInit
<1>2. Tracked /\ [Next]_vars => Tracked'
  BY TrackedNext
<1>3. Tracked => DecoderInBounds
  BY TrackedInBounds
<1> QED BY <1>1, <1>2, <1>3, PTL DEF Spec

-----------------------------------------------------------------------------
(* The stream as the subsystem means it.                                   *)

\* Every end marker ends a frame, but where one has just ended: what the router
\* makes of a stream is compared with this, and where it lost a part, it is not
\* the same until the next end marker.
StrictEaten(run, b) ==
    IF b # NHDLC_CONTROL_CHAR THEN [dec |-> Take(run.dec, b), raws |-> run.raws]
    ELSE IF run.dec = FreshDecoder THEN run
    ELSE [dec |-> FreshDecoder, raws |-> Append(run.raws, run.dec.raw)]

StrictStep == [r \in RunState |-> [b \in Byte |-> StrictEaten(r, b)]]

Strict(d, s) == Fold(StrictStep, Start(d), s)

LEMMA StrictEatenType ==
    ASSUME NEW r \in RunState, NEW b \in Byte
    PROVE  StrictEaten(r, b) \in RunState
<1>1. r.dec \in Decoder /\ r.raws \in Seq(Seq(Byte)) /\ r.dec.raw \in Seq(Byte)
  BY DEF RunState, Decoder
<1>2. [dec |-> Take(r.dec, b), raws |-> r.raws] \in RunState
  BY <1>1, TakeType DEF RunState
<1>3. Append(r.raws, r.dec.raw) \in Seq(Seq(Byte))
  <2> DEFINE x == r.dec.raw
             y == r.raws
  <2>1. x \in Seq(Byte) /\ y \in Seq(Seq(Byte))
    BY <1>1
  <2> HIDE DEF x, y
  <2>2. Append(y, x) \in Seq(Seq(Byte))
    BY <2>1, AppendProperties
  <2> QED BY <2>2 DEF x, y
<1>4. [dec |-> FreshDecoder, raws |-> Append(r.raws, r.dec.raw)] \in RunState
  BY <1>3, FreshType DEF RunState
<1> QED BY <1>2, <1>4 DEF StrictEaten

LEMMA StrictIsStep ==
    /\ IsStep(StrictStep, RunState, Byte)
    /\ \A r \in RunState, b \in Byte : StrictStep[r][b] = StrictEaten(r, b)
<1>1. \A r \in RunState, b \in Byte : StrictEaten(r, b) \in RunState
  BY StrictEatenType
<1> QED BY <1>1, Zenon DEF StrictStep, IsStep

LEMMA StrictStarts ==
    ASSUME NEW d \in Decoder
    PROVE  Strict(d, <<>>) = Start(d)
BY StrictIsStep, StartType, FoldEmpty DEF Strict

LEMMA StrictGrows ==
    ASSUME NEW d \in Decoder, NEW s \in Seq(Byte), NEW b \in Byte
    PROVE  /\ Strict(d, s) \in RunState
           /\ Strict(d, Append(s, b)) = StrictEaten(Strict(d, s), b)
<1> DEFINE x == Start(d)
<1>0. x \in RunState
  BY StartType
<1>2. Strict(d, Append(s, b)) = Fold(StrictStep, x, Append(s, b))
  BY DEF Strict
<1>5. Strict(d, s) = Fold(StrictStep, x, s)
  BY DEF Strict
<1> HIDE DEF x
<1>3. Fold(StrictStep, x, Append(s, b)) = StrictStep[Fold(StrictStep, x, s)][b]
  BY <1>0, StrictIsStep, FoldAppend
<1>4. Fold(StrictStep, x, s) \in RunState
  BY <1>0, StrictIsStep, FoldType
<1>6. StrictStep[Fold(StrictStep, x, s)][b] = StrictEaten(Fold(StrictStep, x, s), b)
  BY <1>4, StrictIsStep
<1> QED BY <1>2, <1>3, <1>4, <1>5, <1>6

LEMMA StrictType ==
    ASSUME NEW d \in Decoder, NEW s \in Seq(Byte)
    PROVE  /\ Strict(d, s) \in RunState
           /\ Strict(d, s).dec \in Decoder
           /\ Strict(d, s).raws \in Seq(Seq(Byte))
<1>1. 0 \in Byte
  BY DEF Byte
<1>2. Strict(d, s) \in RunState
  BY <1>1, StrictGrows
<1> QED BY <1>2 DEF RunState

LEMMA StrictBehind ==
    ASSUME NEW r \in RunState, NEW q \in RunState, NEW x \in Seq(Seq(Byte)), NEW b \in Byte,
           r.dec = q.dec, r.raws = x \o q.raws
    PROVE  /\ StrictEaten(r, b).dec = StrictEaten(q, b).dec
           /\ StrictEaten(r, b).raws = x \o StrictEaten(q, b).raws
<1>1. q.raws \in Seq(Seq(Byte)) /\ q.dec.raw \in Seq(Byte)
  BY DEF RunState, Decoder
<1>2. CASE b # NHDLC_CONTROL_CHAR
  <2>1. /\ StrictEaten(r, b) = [dec |-> Take(r.dec, b), raws |-> r.raws]
        /\ StrictEaten(q, b) = [dec |-> Take(q.dec, b), raws |-> q.raws]
    BY <1>2 DEF StrictEaten
  <2> QED BY <2>1
<1>3. CASE b = NHDLC_CONTROL_CHAR /\ q.dec = FreshDecoder
  BY <1>3 DEF StrictEaten
<1>4. CASE b = NHDLC_CONTROL_CHAR /\ q.dec # FreshDecoder
  <2> DEFINE y == q.dec.raw
             z == q.raws
  <2>1. /\ StrictEaten(r, b).dec = FreshDecoder /\ StrictEaten(r, b).raws = Append(x \o z, y)
        /\ StrictEaten(q, b).dec = FreshDecoder /\ StrictEaten(q, b).raws = Append(z, y)
    BY <1>4 DEF StrictEaten
  <2>2. y \in Seq(Byte) /\ z \in Seq(Seq(Byte))
    BY <1>1
  <2> HIDE DEF y, z
  <2>3. x \o Append(z, y) = Append(x \o z, y)
    BY <2>2, AppendConcat
  <2> QED BY <2>1, <2>3
<1> QED BY <1>2, <1>3, <1>4

LEMMA StrictConcat ==
    ASSUME NEW d \in Decoder, NEW s \in Seq(Byte), NEW t \in Seq(Byte)
    PROVE  /\ Strict(d, s \o t).dec = Strict(Strict(d, s).dec, t).dec
           /\ Strict(d, s \o t).raws = Strict(d, s).raws \o Strict(Strict(d, s).dec, t).raws
<1> DEFINE e == Strict(d, s).dec
           Same(u) == /\ Strict(d, s \o u).dec = Strict(e, u).dec
                      /\ Strict(d, s \o u).raws = Strict(d, s).raws \o Strict(e, u).raws
           P == {u \in Seq(Byte) : Same(u)}
<1>0. e \in Decoder /\ Strict(d, s).raws \in Seq(Seq(Byte))
  BY StrictType
<1>1. <<>> \in P
  <2>1. s \o <<>> = s /\ <<>> \in Seq(Byte)
    BY ConcatEmptySeq
  <2>2. Strict(e, <<>>) = Start(e)
    BY <1>0, StrictStarts
  <2>3. Strict(e, <<>>).dec = e /\ Strict(e, <<>>).raws = <<>>
    BY <2>2 DEF Start
  <2>4. Strict(d, s).raws \o <<>> = Strict(d, s).raws
    BY <1>0, ConcatEmptySeq
  <2> QED BY <2>1, <2>3, <2>4
<1>2. ASSUME NEW u \in P, NEW b \in Byte PROVE Append(u, b) \in P
  <2> DEFINE r == Strict(d, s \o u)
             q == Strict(e, u)
             x == Strict(d, s).raws
  <2>1. u \in Seq(Byte) /\ s \o u \in Seq(Byte) /\ Append(u, b) \in Seq(Byte)
    BY ConcatProperties, AppendProperties
  <2>2. s \o Append(u, b) = Append(s \o u, b)
    BY <2>1
  <2>3. Strict(d, s \o Append(u, b)) = StrictEaten(r, b) /\ r \in RunState
    BY <2>1, <2>2, StrictGrows
  <2>4. Strict(e, Append(u, b)) = StrictEaten(q, b) /\ q \in RunState
    BY <1>0, <2>1, StrictGrows
  <2>5. r.dec = q.dec /\ r.raws = x \o q.raws
    OBVIOUS
  <2>6. x \in Seq(Seq(Byte)) /\ q.raws \in Seq(Seq(Byte)) /\ q.dec.raw \in Seq(Byte)
    BY <1>0, <2>4 DEF RunState, Decoder
  <2> HIDE DEF r, q, x, e
  <2>7. StrictEaten(r, b).dec = StrictEaten(q, b).dec
        /\ StrictEaten(r, b).raws = x \o StrictEaten(q, b).raws
    BY <2>3, <2>4, <2>5, <2>6, StrictBehind
  <2> QED BY <2>1, <2>3, <2>4, <2>7 DEF x
<1>3. P \in SUBSET Seq(Byte)
  OBVIOUS
<1> HIDE DEF P
<1>4. \A u \in Seq(Byte) : u \in P
  BY <1>1, <1>2, <1>3, SeqGrows
<1>5. t \in P
  BY <1>4
<1> QED BY <1>5 DEF P

LEMMA StrictByte ==
    ASSUME NEW d \in Decoder, NEW b \in Byte
    PROVE  Strict(d, <<b>>) = StrictEaten(Start(d), b)
<1> DEFINE e == <<>>
           f == <<b>>
<1>1. e \in Seq(Byte) /\ Append(e, b) = f
  OBVIOUS
<1>2. Strict(d, e) = Start(d)
  BY StrictStarts
<1> HIDE DEF e, f
<1>3. e \in Seq(Byte)
  BY <1>1
<1>4. Strict(d, Append(e, b)) = StrictEaten(Strict(d, e), b)
  BY <1>3, StrictGrows
<1>5. Strict(d, f) = StrictEaten(Start(d), b)
  BY <1>1, <1>2, <1>4
<1> QED BY <1>5 DEF f

LEMMA StrictUnmarked ==
    ASSUME NEW d \in Decoder, NEW s \in Seq(Byte), Unmarked(s)
    PROVE  Strict(d, s) = Run(d, s)
<1> DEFINE P == {u \in Seq(Byte) : Unmarked(u) => Strict(d, u) = Run(d, u)}
<1>1. <<>> \in P
  <2>1. <<>> \in Seq(Byte)
    OBVIOUS
  <2> QED BY <2>1, StrictStarts, RunStarts
<1>2. ASSUME NEW u \in P, NEW b \in Byte PROVE Append(u, b) \in P
  <2> DEFINE v == Append(u, b)
  <2>0. u \in Seq(Byte) /\ Len(u) \in Nat
    BY LenProperties
  <2>1. v \in Seq(Byte) /\ Len(v) = Len(u) + 1 /\ v[Len(u) + 1] = b
        /\ \A i \in 1..Len(u) : v[i] = u[i]
    BY <2>0, AppendProperties
  <2>2. Run(d, v) = Eaten(Run(d, u), b) /\ Strict(d, v) = StrictEaten(Strict(d, u), b)
    BY <2>0, RunGrows, StrictGrows
  <2> HIDE DEF v
  <2>3. ASSUME Unmarked(v) PROVE Strict(d, v) = Run(d, v)
    <3>1. Unmarked(u) /\ b # NHDLC_CONTROL_CHAR
      <4>1. Len(u) + 1 \in 1..Len(v) /\ \A i \in 1..Len(u) : i \in 1..Len(v)
        BY <2>0, <2>1
      <4> QED BY <2>1, <2>3, <4>1 DEF Unmarked
    <3>2. Strict(d, u) = Run(d, u)
      BY <3>1
    <3> QED BY <2>2, <3>1, <3>2 DEF Eaten, StrictEaten
  <2> QED BY <2>1, <2>3 DEF v
<1>3. P \in SUBSET Seq(Byte)
  OBVIOUS
<1> HIDE DEF P
<1>4. \A u \in Seq(Byte) : u \in P
  BY <1>1, <1>2, <1>3, SeqGrows
<1>5. s \in P
  BY <1>4
<1> QED BY <1>5 DEF P

\* A frame means its message, also behind an end of frame.
LEMMA StrictFrame ==
    ASSUME NEW m \in Seq(Byte), NEW g,
           g = hdlc_encode(m) \/ g = <<NHDLC_CONTROL_CHAR>> \o hdlc_encode(m)
    PROVE  /\ Strict(FreshDecoder, g).dec = FreshDecoder
           /\ Strict(FreshDecoder, g).raws = <<RawOf(m)>>
<1> DEFINE x == RawOf(m)
           d == [raw |-> x, escape |-> FALSE]
           u == Escaped(x)
           e == <<NHDLC_CONTROL_CHAR>>
           f == hdlc_encode(m)
           y == <<x>>
<1>1. x \in Seq(Byte) /\ x # <<>>
  <2>1. x \in Seq(Byte) /\ Len(x) = Len(m) + 2 /\ Len(m) \in Nat
    BY FrameType, LenProperties DEF RawOf
  <2>2. x # <<>>
    BY <2>1
  <2> QED BY <2>1, <2>2
<1>3. f = u \o e
  BY DEF hdlc_encode, RawOf
<1> HIDE DEF x
<1>4. /\ d \in Decoder /\ d.raw = x /\ d # FreshDecoder
      /\ u \in Seq(Byte) /\ e \in Seq(Byte) /\ f \in Seq(Byte)
  BY <1>1, EscapedType, ControlByte, FrameType DEF Decoder, FreshDecoder
<1>5. Strict(FreshDecoder, u) = [dec |-> d, raws |-> <<>>]
  <2>1. Strict(FreshDecoder, u) = Run(FreshDecoder, u)
    BY <1>1, <1>4, FreshType, EscapedUnmarked, StrictUnmarked
  <2> QED BY <1>1, <2>1, DecodesEscaped
<1>6. Strict(d, e).dec = FreshDecoder /\ Strict(d, e).raws = y
  <2>1. Strict(d, e) = StrictEaten(Start(d), NHDLC_CONTROL_CHAR)
    BY <1>4, ControlByte, StrictByte
  <2>2. Append(<<>>, x) = <<x>>
    OBVIOUS
  <2>3. Start(d).dec = d /\ Start(d).raws = <<>>
    BY DEF Start
  <2> HIDE DEF d, e
  <2>4. StrictEaten(Start(d), NHDLC_CONTROL_CHAR)
           = [dec |-> FreshDecoder, raws |-> Append(<<>>, x)]
    BY <1>4, <2>3 DEF StrictEaten
  <2> QED BY <2>1, <2>2, <2>4
<1>7. Strict(FreshDecoder, e) = Start(FreshDecoder)
  BY FreshType, ControlByte, StrictByte DEF StrictEaten, Start
<1> HIDE DEF u, e, d, f
<1>y. y \in Seq(Seq(Byte))
  BY <1>1
<1> HIDE DEF y
<1>8. Strict(FreshDecoder, f).dec = FreshDecoder /\ Strict(FreshDecoder, f).raws = y
  <2>1. u \in Seq(Byte) /\ e \in Seq(Byte)
    BY <1>4
  <2>2. /\ Strict(FreshDecoder, u \o e).dec = Strict(Strict(FreshDecoder, u).dec, e).dec
        /\ Strict(FreshDecoder, u \o e).raws
               = Strict(FreshDecoder, u).raws \o Strict(Strict(FreshDecoder, u).dec, e).raws
    BY <2>1, FreshType, StrictConcat
  <2>3. <<>> \o y = y
    BY <1>y, ConcatEmptySeq
  <2> QED BY <1>3, <1>5, <1>6, <2>2, <2>3
<1>9. Strict(FreshDecoder, e \o f).dec = FreshDecoder /\ Strict(FreshDecoder, e \o f).raws = y
  <2>1. f \in Seq(Byte) /\ e \in Seq(Byte)
    BY <1>4
  <2>2. /\ Strict(FreshDecoder, e \o f).dec = Strict(Strict(FreshDecoder, e).dec, f).dec
        /\ Strict(FreshDecoder, e \o f).raws
               = Strict(FreshDecoder, e).raws \o Strict(Strict(FreshDecoder, e).dec, f).raws
    BY <2>1, FreshType, StrictConcat
  <2>3. <<>> \o y = y
    BY <1>y, ConcatEmptySeq
  <2>4. Start(FreshDecoder).dec = FreshDecoder /\ Start(FreshDecoder).raws = <<>>
    BY DEF Start
  <2> QED BY <1>7, <1>8, <2>2, <2>3, <2>4
<1> QED BY <1>8, <1>9 DEF f, e, y, x

-----------------------------------------------------------------------------
(* Counting what was damaged, and what was missed.                         *)

Spoilt(o) == {i \in 1..Len(o) : o[i] \notin ToSet(Script)}

LEMMA SpoiltType ==
    ASSUME NEW o \in Seq(Seq(Byte))
    PROVE  /\ IsFiniteSet(Spoilt(o)) /\ Cardinality(Spoilt(o)) \in Nat
           /\ Len(o) \in Nat
<1>1. Len(o) \in Nat
  BY LenProperties
<1>2. Spoilt(o) \subseteq 1..Len(o) /\ IsFiniteSet(1..Len(o))
  BY <1>1, FS_Interval DEF Spoilt
<1>3. IsFiniteSet(Spoilt(o))
  BY <1>2, FS_Subset
<1> QED BY <1>1, <1>3, FS_CardinalityType

LEMMA SpoiltConcat ==
    ASSUME NEW o \in Seq(Seq(Byte)), NEW y \in Seq(Seq(Byte))
    PROVE  Cardinality(Spoilt(o)) <= Cardinality(Spoilt(o \o y))
<1> DEFINE z == o \o y
<1>0. Len(o) \in Nat /\ Len(y) \in Nat
  BY LenProperties
<1>1. /\ z \in Seq(Seq(Byte)) /\ Len(z) = Len(o) + Len(y)
      /\ \A i \in 1..(Len(o) + Len(y)) : z[i] = IF i <= Len(o) THEN o[i] ELSE y[i - Len(o)]
  BY ConcatProperties
<1> HIDE DEF z
<1>2. ASSUME NEW i \in Spoilt(o) PROVE i \in Spoilt(z)
  <2>1. i \in 1..Len(o) /\ o[i] \notin ToSet(Script)
    BY DEF Spoilt
  <2>2. i \in 1..Len(z) /\ z[i] = o[i]
    BY <1>0, <1>1, <2>1
  <2> QED BY <2>1, <2>2 DEF Spoilt
<1>3. Spoilt(o) \in SUBSET Spoilt(z)
  BY <1>2
<1>4. IsFiniteSet(Spoilt(z))
  BY <1>1, SpoiltType
<1>5. Cardinality(Spoilt(o)) <= Cardinality(Spoilt(z))
  BY <1>3, <1>4, FS_Subset
<1> QED BY <1>5 DEF z

LEMMA SpoiltAppend ==
    ASSUME NEW o \in Seq(Seq(Byte)), NEW m \in Seq(Byte)
    PROVE  /\ Cardinality(Spoilt(Append(o, m))) <= Cardinality(Spoilt(o)) + 1
           /\ m \in ToSet(Script) => Cardinality(Spoilt(Append(o, m))) <= Cardinality(Spoilt(o))
<1> DEFINE z == Append(o, m)
           k == Len(o) + 1
           S == Spoilt(o)
           T == Spoilt(z)
<1>0. Len(o) \in Nat
  BY LenProperties
<1>1. /\ z \in Seq(Seq(Byte)) /\ Len(z) = Len(o) + 1 /\ z[Len(o) + 1] = m
      /\ \A i \in 1..Len(o) : z[i] = o[i]
  BY AppendProperties
<1> HIDE DEF z
<1>2. IsFiniteSet(S) /\ Cardinality(S) \in Nat /\ Cardinality(T) \in Nat
  BY <1>1, SpoiltType
<1>3. ASSUME NEW i \in T PROVE i \in S \/ (i = k /\ m \notin ToSet(Script))
  <2>1. i \in 1..Len(z) /\ z[i] \notin ToSet(Script)
    BY DEF Spoilt
  <2>2. CASE i = k
    BY <1>1, <2>1, <2>2
  <2>3. CASE i # k
    <3>1. i \in 1..Len(o) /\ z[i] = o[i]
      BY <1>0, <1>1, <2>1, <2>3
    <3> QED BY <2>1, <3>1 DEF Spoilt
  <2> QED BY <2>2, <2>3
<1> HIDE DEF S, T, k
<1>4. IsFiniteSet(S \cup {k}) /\ Cardinality(S \cup {k}) <= Cardinality(S) + 1
  <2>1. /\ IsFiniteSet(S \cup {k})
        /\ Cardinality(S \cup {k}) = IF k \in S THEN Cardinality(S) ELSE Cardinality(S) + 1
    BY <1>2, FS_AddElement
  <2> QED BY <1>2, <2>1
<1>5. Cardinality(T) <= Cardinality(S) + 1
  <2>1. T \in SUBSET (S \cup {k})
    BY <1>3
  <2>2. Cardinality(T) <= Cardinality(S \cup {k})
    BY <1>4, <2>1, FS_Subset
  <2>3. Cardinality(S \cup {k}) \in Nat
    BY <1>4, FS_CardinalityType
  <2> QED BY <1>2, <1>4, <2>2, <2>3
<1>6. m \in ToSet(Script) => Cardinality(T) <= Cardinality(S)
  <2>1. ASSUME m \in ToSet(Script) PROVE Cardinality(T) <= Cardinality(S)
    <3>1. T \in SUBSET S
      BY <1>3, <2>1
    <3> QED BY <1>2, <3>1, FS_Subset
  <2> QED BY <2>1
<1> QED BY <1>5, <1>6 DEF S, T, z

LEMMA SpoiltNothing == Cardinality(Spoilt(<<>>)) = 0
<1>1. Spoilt(<<>>) = {}
  BY DEF Spoilt
<1> QED BY <1>1, FS_EmptySet

LEMMA MessagesAppend ==
    ASSUME NEW t \in Seq(Seq(Byte)), NEW r \in Seq(Byte), NEW x \in Seq(Seq(Byte))
    PROVE  /\ MessagesOf(t) \in Seq(Seq(Byte))
           /\ x \o MessagesOf(t) \in Seq(Seq(Byte))
           /\ Message(r) \in Seq(Byte)
           /\ x \o MessagesOf(Append(t, r)) = Append(x \o MessagesOf(t), Message(r))
<1> DEFINE m == Message(r)
           u == MessagesOf(t)
           y == <<r>>
           z == <<m>>
<1>1. m \in Seq(Byte)
  BY MessageType
<1>2. u \in Seq(Seq(Byte))
  BY BytesType, ImageType DEF MessagesOf
<1>3. y \in Seq(Seq(Byte)) /\ Append(t, r) = t \o y
  <2>1. y \in Seq(Seq(Byte))
    OBVIOUS
  <2>2. Append(t, r) = t \o <<r>>
    BY AppendIsConcat
  <2> QED BY <2>1, <2>2
<1>4. MessagesOf(y) = z
  <2>1. MessagesOf(y) = <<MessageBytes[r]>>
    BY BytesType, ImageOne DEF MessagesOf
  <2> QED BY <2>1, BytesType
<1> HIDE DEF m, u, y
<1>5. MessagesOf(t \o y) = u \o MessagesOf(y)
  BY <1>3, MessagesConcat DEF u
<1>6. Append(u, m) = u \o <<m>>
  BY <1>1, <1>2, AppendIsConcat
<1>7. MessagesOf(Append(t, r)) = Append(u, m)
  BY <1>3, <1>4, <1>5, <1>6
<1>8. x \o Append(u, m) = Append(x \o u, m) /\ x \o u \in Seq(Seq(Byte))
  BY SMTT(30), <1>1, <1>2, AppendConcat, ConcatProperties
<1> QED BY <1>1, <1>2, <1>7, <1>8 DEF u, m

LEMMA EndsGrow ==
    ASSUME NEW s \in Seq(Byte), NEW b \in Byte
    PROVE  /\ Cardinality(Ends(s)) <= Cardinality(Ends(Append(s, b)))
           /\ b = NHDLC_CONTROL_CHAR =>
                 Cardinality(Ends(Append(s, b))) = Cardinality(Ends(s)) + 1
<1> DEFINE z == Append(s, b)
           k == Len(s) + 1
           S == Ends(s)
           T == Ends(z)
<1>0. Len(s) \in Nat
  BY LenProperties
<1>1. /\ z \in Seq(Byte) /\ Len(z) = Len(s) + 1 /\ z[Len(s) + 1] = b
      /\ \A i \in 1..Len(s) : z[i] = s[i]
  BY AppendProperties
<1> HIDE DEF z
<1>2. IsFiniteSet(S) /\ IsFiniteSet(T)
  BY <1>1, EndsFinite
<1>3. S \in SUBSET T /\ k \notin S
  <2>1. ASSUME NEW i \in S PROVE i \in T
    <3>1. i \in 1..Len(s) /\ s[i] = NHDLC_CONTROL_CHAR
      BY DEF Ends
    <3>2. i \in 1..Len(z)
      BY <1>0, <1>1, <3>1
    <3> QED BY <1>1, <3>1, <3>2 DEF Ends
  <2>2. k \notin 1..Len(s)
    BY <1>0
  <2> QED BY <2>1, <2>2 DEF Ends
<1>4. b = NHDLC_CONTROL_CHAR => T = S \cup {k}
  <2> SUFFICES ASSUME b = NHDLC_CONTROL_CHAR PROVE T = S \cup {k}
    OBVIOUS
  <2>1. k \in T
    <3>1. k \in 1..Len(z)
      BY <1>0, <1>1
    <3> QED BY <1>1, <3>1 DEF Ends
  <2>2. ASSUME NEW i \in T PROVE i \in S \cup {k}
    <3>1. i \in 1..Len(z) /\ z[i] = NHDLC_CONTROL_CHAR
      BY DEF Ends
    <3>2. CASE i # k
      <4>1. i \in 1..Len(s) /\ z[i] = s[i]
        BY <1>0, <1>1, <3>1, <3>2
      <4> QED BY <3>1, <4>1 DEF Ends
    <3> QED BY <3>2
  <2> QED BY <1>3, <2>1, <2>2
<1> HIDE DEF S, T, k
<1>5. Cardinality(S) <= Cardinality(T)
  BY <1>2, <1>3, FS_Subset
<1>6. Cardinality(S \cup {k}) = Cardinality(S) + 1
  BY <1>2, <1>3, FS_AddElement
<1> QED BY <1>4, <1>5, <1>6 DEF S, T, z

\* A frame ends at a marker.
LEMMA StrictEnds ==
    ASSUME NEW d \in Decoder, NEW s \in Seq(Byte)
    PROVE  Len(Strict(d, s).raws) <= Cardinality(Ends(s))
<1> DEFINE P == {u \in Seq(Byte) : Len(Strict(d, u).raws) <= Cardinality(Ends(u))}
<1>1. <<>> \in P
  <2>1. <<>> \in Seq(Byte)
    OBVIOUS
  <2>2. Strict(d, <<>>).raws = <<>>
    BY StrictStarts DEF Start
  <2>3. Ends(<<>>) = {}
    BY DEF Ends
  <2>4. Cardinality(Ends(<<>>)) = 0
    BY <2>3, FS_EmptySet
  <2>5. Len(Strict(d, <<>>).raws) = 0
    BY <2>2
  <2>6. Len(Strict(d, <<>>).raws) <= Cardinality(Ends(<<>>))
    BY <2>4, <2>5
  <2> QED BY <2>1, <2>6
<1>2. ASSUME NEW u \in P, NEW b \in Byte PROVE Append(u, b) \in P
  <2> DEFINE q == Strict(d, u)
             v == Append(u, b)
  <2>1. u \in Seq(Byte) /\ v \in Seq(Byte)
    BY AppendProperties
  <2>2. Strict(d, v) = StrictEaten(q, b)
    BY <2>1, StrictGrows
  <2>3. q.raws \in Seq(Seq(Byte)) /\ q.dec.raw \in Seq(Byte)
    BY <2>1, StrictType DEF Decoder
  <2>4. Len(q.raws) <= Cardinality(Ends(u))
    OBVIOUS
  <2>5. /\ Cardinality(Ends(u)) <= Cardinality(Ends(v))
        /\ b = NHDLC_CONTROL_CHAR => Cardinality(Ends(v)) = Cardinality(Ends(u)) + 1
    BY <2>1, EndsGrow
  <2>6. Cardinality(Ends(u)) \in Nat /\ Cardinality(Ends(v)) \in Nat /\ Len(q.raws) \in Nat
    BY <2>1, <2>3, EndsFinite, LenProperties
  <2> HIDE DEF q, v
  <2>7. CASE b # NHDLC_CONTROL_CHAR
    <3>1. Strict(d, v).raws = q.raws
      BY <2>2, <2>7 DEF StrictEaten
    <3> QED BY <2>1, <2>4, <2>5, <2>6, <3>1 DEF v
  <2>8. CASE b = NHDLC_CONTROL_CHAR
    <3>1. Strict(d, v).raws = q.raws \/ Strict(d, v).raws = Append(q.raws, q.dec.raw)
      BY <2>2, <2>8 DEF StrictEaten
    <3>2. Len(Append(q.raws, q.dec.raw)) = Len(q.raws) + 1
      <4> DEFINE a == q.raws
                 c == q.dec.raw
      <4>1. a \in Seq(Seq(Byte)) /\ c \in Seq(Byte)
        BY <2>3
      <4> HIDE DEF a, c
      <4>2. Len(Append(a, c)) = Len(a) + 1
        BY <4>1, AppendProperties
      <4> QED BY <4>2 DEF a, c
    <3>3. Len(Strict(d, v).raws) <= Len(q.raws) + 1 /\ Len(Strict(d, v).raws) \in Nat
      BY <2>6, <3>1, <3>2
    <3> QED BY <2>1, <2>4, <2>5, <2>6, <2>8, <3>3 DEF v
  <2> QED BY <2>7, <2>8
<1>3. P \in SUBSET Seq(Byte)
  OBVIOUS
<1> HIDE DEF P
<1>4. \A u \in Seq(Byte) : u \in P
  BY <1>1, <1>2, <1>3, SeqGrows
<1>5. s \in P
  BY <1>4
<1> QED BY <1>5 DEF P

-----------------------------------------------------------------------------
(* The router, out of step and back.                                       *)

\* Frames of messages of the script.
Good(raws) ==
    \A i \in 1..Len(raws) : raws[i] # <<>> /\ Message(raws[i]) \in ToSet(Script)

\* A decoder that is out of step is to damage one more message, and to miss one
\* more when the other has one begun that it has not, or the reverse.
Credit(a, b) == IF a = b THEN 0 ELSE 1

Gap(a, b) == IF (a.raw = <<>>) = (b.raw = <<>>) THEN 0 ELSE 1

LEMMA CreditType ==
    \A a, b : /\ Credit(a, b) \in {0, 1} /\ Gap(a, b) \in {0, 1}
              /\ a = b => Credit(a, b) = 0 /\ Gap(a, b) = 0
BY DEF Credit, Gap

LEMMA GoodAppend ==
    ASSUME NEW t \in Seq(Seq(Byte)), NEW r \in Seq(Byte)
    PROVE  Good(Append(t, r)) <=>
              Good(t) /\ r # <<>> /\ Message(r) \in ToSet(Script)
<1> DEFINE z == Append(t, r)
<1>0. Len(t) \in Nat
  BY LenProperties
<1>1. /\ Len(z) = Len(t) + 1 /\ z[Len(t) + 1] = r
      /\ \A i \in 1..Len(t) : z[i] = t[i]
  BY AppendProperties
<1> HIDE DEF z
<1>2. ASSUME Good(z) PROVE Good(t) /\ r # <<>> /\ Message(r) \in ToSet(Script)
  <2>1. Len(t) + 1 \in 1..Len(z) /\ \A i \in 1..Len(t) : i \in 1..Len(z)
    BY <1>0, <1>1
  <2>2. z[Len(t) + 1] # <<>> /\ Message(z[Len(t) + 1]) \in ToSet(Script)
    BY <1>2, <2>1, Zenon DEF Good
  <2>3. Good(t)
    <3> SUFFICES ASSUME NEW i \in 1..Len(t)
                 PROVE  t[i] # <<>> /\ Message(t[i]) \in ToSet(Script)
      BY DEF Good
    <3>1. z[i] # <<>> /\ Message(z[i]) \in ToSet(Script)
      BY <1>2, <2>1, Zenon DEF Good
    <3> QED BY <1>1, <3>1
  <2> QED BY <1>1, <2>2, <2>3
<1>3. ASSUME Good(t), r # <<>>, Message(r) \in ToSet(Script) PROVE Good(z)
  <2> SUFFICES ASSUME NEW i \in 1..Len(z)
               PROVE  z[i] # <<>> /\ Message(z[i]) \in ToSet(Script)
    BY DEF Good
  <2>1. CASE i = Len(t) + 1
    BY <1>1, <1>3, <2>1
  <2>2. CASE i # Len(t) + 1
    <3>1. i \in 1..Len(t) /\ z[i] = t[i]
      BY <1>0, <1>1, <2>2
    <3>2. t[i] # <<>> /\ Message(t[i]) \in ToSet(Script)
      BY <1>3, <3>1, Zenon DEF Good
    <3> QED BY <3>1, <3>2
  <2> QED BY <2>1, <2>2
<1> QED BY <1>2, <1>3 DEF z

LEMMA GoodConcat ==
    ASSUME NEW s \in Seq(Seq(Byte)), NEW t \in Seq(Seq(Byte))
    PROVE  Good(s \o t) <=> Good(s) /\ Good(t)
<1> DEFINE z == s \o t
<1>0. Len(s) \in Nat /\ Len(t) \in Nat
  BY LenProperties
<1>1. /\ Len(z) = Len(s) + Len(t)
      /\ \A i \in 1..(Len(s) + Len(t)) : z[i] = IF i <= Len(s) THEN s[i] ELSE t[i - Len(s)]
  BY ConcatProperties
<1> HIDE DEF z
<1>2. ASSUME Good(z) PROVE Good(s) /\ Good(t)
  <2>1. ASSUME NEW i \in 1..Len(s) PROVE s[i] # <<>> /\ Message(s[i]) \in ToSet(Script)
    <3>1. i \in 1..Len(z) /\ z[i] = s[i]
      BY <1>0, <1>1
    <3>2. z[i] # <<>> /\ Message(z[i]) \in ToSet(Script)
      BY <1>2, <3>1, Zenon DEF Good
    <3> QED BY <3>1, <3>2
  <2>2. ASSUME NEW i \in 1..Len(t) PROVE t[i] # <<>> /\ Message(t[i]) \in ToSet(Script)
    <3> DEFINE j == Len(s) + i
    <3>1. j \in 1..(Len(s) + Len(t)) /\ ~(j <= Len(s)) /\ j - Len(s) = i
      BY <1>0
    <3>a. j \in 1..Len(z) /\ z[j] = t[i]
      BY <1>1, <3>1
    <3>2. z[j] # <<>> /\ Message(z[j]) \in ToSet(Script)
      BY <1>2, <3>a, Zenon DEF Good
    <3> QED BY <3>a, <3>2
  <2> QED BY <2>1, <2>2 DEF Good
<1>3. ASSUME Good(s), Good(t) PROVE Good(z)
  <2> SUFFICES ASSUME NEW i \in 1..Len(z)
               PROVE  z[i] # <<>> /\ Message(z[i]) \in ToSet(Script)
    BY DEF Good
  <2>0. i \in 1..(Len(s) + Len(t))
    BY <1>1
  <2>1. CASE i <= Len(s)
    <3>1. i \in 1..Len(s) /\ z[i] = s[i]
      BY <1>0, <1>1, <2>0, <2>1
    <3>2. s[i] # <<>> /\ Message(s[i]) \in ToSet(Script)
      BY <1>3, <3>1, Zenon DEF Good
    <3> QED BY <3>1, <3>2
  <2>2. CASE ~(i <= Len(s))
    <3> DEFINE j == i - Len(s)
    <3>1. j \in 1..Len(t) /\ z[i] = t[j]
      BY <1>0, <1>1, <2>0, <2>2
    <3>2. t[j] # <<>> /\ Message(t[j]) \in ToSet(Script)
      BY <1>3, <3>1, Zenon DEF Good
    <3> QED BY <3>1, <3>2
  <2> QED BY <2>1, <2>2
<1> QED BY <1>2, <1>3 DEF z

LEMMA MessagesOfType ==
    ASSUME NEW raws \in Seq(Seq(Byte))
    PROVE  MessagesOf(raws) \in Seq(Seq(Byte)) /\ Len(MessagesOf(raws)) = Len(raws)
BY BytesType, ImageType DEF MessagesOf

Spoils(x, raws) == Cardinality(Spoilt(x \o MessagesOf(raws)))

LEMMA SpoilsAppend ==
    ASSUME NEW x \in Seq(Seq(Byte)), NEW t \in Seq(Seq(Byte)), NEW r \in Seq(Byte)
    PROVE  /\ Spoils(x, t) \in Nat /\ Spoils(x, Append(t, r)) \in Nat
           /\ Spoils(x, Append(t, r)) <= Spoils(x, t) + 1
           /\ Message(r) \in ToSet(Script) => Spoils(x, Append(t, r)) <= Spoils(x, t)
           /\ Len(t) \in Nat /\ Len(Append(t, r)) = Len(t) + 1
<1> DEFINE o == x \o MessagesOf(t)
           m == Message(r)
<1>1. o \in Seq(Seq(Byte)) /\ m \in Seq(Byte) /\ x \o MessagesOf(Append(t, r)) = Append(o, m)
  BY MessagesAppend
<1> HIDE DEF o, m
<1>2. Append(o, m) \in Seq(Seq(Byte))
  BY <1>1, AppendProperties
<1>3. Cardinality(Spoilt(o)) \in Nat /\ Cardinality(Spoilt(Append(o, m))) \in Nat
  BY <1>1, <1>2, SpoiltType
<1>4. /\ Cardinality(Spoilt(Append(o, m))) <= Cardinality(Spoilt(o)) + 1
      /\ m \in ToSet(Script) => Cardinality(Spoilt(Append(o, m))) <= Cardinality(Spoilt(o))
  BY <1>1, SpoiltAppend
<1>5. Spoils(x, t) = Cardinality(Spoilt(o)) /\ Spoils(x, Append(t, r)) = Cardinality(Spoilt(Append(o, m)))
  BY <1>1 DEF Spoils, o
<1>6. Len(t) \in Nat /\ Len(Append(t, r)) = Len(t) + 1
  BY LenProperties, AppendProperties
<1> QED BY <1>3, <1>4, <1>5, <1>6 DEF m

\* One byte, to the router's decoder and to the other one.
LEMMA ByteTracks ==
    ASSUME NEW ra \in RunState, NEW rb \in RunState, NEW b \in Byte, NEW x \in Seq(Seq(Byte)),
           NEW p, p = Eaten(ra, b), NEW q, q = StrictEaten(rb, b), Good(q.raws)
    PROVE  /\ Good(rb.raws)
           /\ Spoils(x, p.raws) + Credit(p.dec, q.dec)
                 <= Spoils(x, ra.raws) + Credit(ra.dec, rb.dec)
           /\ Len(q.raws) - Len(rb.raws) + Gap(p.dec, q.dec)
                 <= Len(p.raws) - Len(ra.raws) + Gap(ra.dec, rb.dec)
<1> DEFINE a == ra.dec
           c == rb.dec
           s == ra.raws
           t == rb.raws
           Fa == FreshDecoder
<1>0. /\ a \in Decoder /\ c \in Decoder /\ a.raw \in Seq(Byte) /\ c.raw \in Seq(Byte)
      /\ s \in Seq(Seq(Byte)) /\ t \in Seq(Seq(Byte))
  BY DEF RunState, Decoder
<1>1. Fa.raw = <<>>
  BY DEF FreshDecoder
<1> HIDE DEF Fa
<1>2. CASE b # NHDLC_CONTROL_CHAR
  <2>1. p.dec = Take(a, b) /\ p.raws = s /\ q.dec = Take(c, b) /\ q.raws = t
    BY <1>2 DEF Eaten, StrictEaten
  <2>2. ASSUME NEW d \in Decoder
        PROVE  IF b = ESCAPE THEN Take(d, b).raw = d.raw ELSE Take(d, b).raw # <<>>
    <3>1. CASE b = ESCAPE
      BY <3>1 DEF Take
    <3>2. CASE b # ESCAPE
      <4> DEFINE r == d.raw
                 e == IF d.escape THEN Toggled(b) ELSE b
      <4>1. r \in Seq(Byte) /\ e \in Byte
        BY ToggledByte DEF Decoder
      <4>2. Take(d, b).raw = Append(r, e)
        BY <3>2 DEF Take
      <4> HIDE DEF r, e
      <4> DEFINE y == Append(r, e)
      <4>3. Len(y) = Len(r) + 1 /\ Len(r) \in Nat
        BY <4>1, AppendProperties, LenProperties
      <4> HIDE DEF y
      <4>x. y # <<>>
        BY <4>3
      <4>4. Append(r, e) # <<>>
        BY <4>x DEF y
      <4> QED BY <3>2, <4>2, <4>4
    <3> QED BY <3>1, <3>2
  <2>3. Credit(p.dec, q.dec) <= Credit(a, c)
    BY <2>1 DEF Credit
  <2>4. Gap(p.dec, q.dec) <= Gap(a, c)
    <3>1. CASE b = ESCAPE
      <4>1. p.dec.raw = a.raw /\ q.dec.raw = c.raw
        BY <1>0, <2>1, <2>2, <3>1
      <4> QED BY <4>1 DEF Gap
    <3>2. CASE b # ESCAPE
      <4>1. p.dec.raw # <<>> /\ q.dec.raw # <<>>
        BY <1>0, <2>1, <2>2, <3>2
      <4> QED BY <4>1 DEF Gap
    <3> QED BY <3>1, <3>2
  <2>5. Spoils(x, s) \in Nat /\ Len(s) \in Nat /\ Len(t) \in Nat
    BY <1>0, SpoilsAppend
  <2> DEFINE cr == Credit(p.dec, q.dec)
             cs == Credit(a, c)
             gr == Gap(p.dec, q.dec)
             gs == Gap(a, c)
  <2>6. cr \in {0, 1} /\ cs \in {0, 1} /\ gr \in {0, 1} /\ gs \in {0, 1}
    BY CreditType
  <2>7. cr <= cs /\ gr <= gs
    BY <2>3, <2>4
  <2> HIDE DEF cr, cs, gr, gs
  <2>8. Spoils(x, s) + cr <= Spoils(x, s) + cs
        /\ Len(t) - Len(t) + gr <= Len(s) - Len(s) + gs
    BY <2>5, <2>6, <2>7
  <2> QED BY <2>1, <2>8 DEF cr, cs, gr, gs
<1>3. CASE b = NHDLC_CONTROL_CHAR
  <2>1. \/ a.raw = <<>> /\ p.dec = a /\ p.raws = s
        \/ a.raw # <<>> /\ p.dec = Fa /\ p.raws = Append(s, a.raw)
    BY <1>3 DEF Eaten, Fa
  <2>2. \/ c = Fa /\ q.dec = c /\ q.raws = t
        \/ c # Fa /\ q.dec = Fa /\ q.raws = Append(t, c.raw)
    BY <1>3 DEF StrictEaten, Fa
  <2> DEFINE u == a.raw
             v == c.raw
  <2>3. /\ u \in Seq(Byte) /\ v \in Seq(Byte)
        /\ a \in Decoder /\ c \in Decoder
        /\ s \in Seq(Seq(Byte)) /\ t \in Seq(Seq(Byte))
    BY <1>0
  <2>4. Gap(a, c) = IF (u = <<>>) = (v = <<>>) THEN 0 ELSE 1
    BY DEF Gap
  <2>5. Credit(a, c) = IF a = c THEN 0 ELSE 1
    BY DEF Credit
  <2>6. a = c => u = v
    OBVIOUS
  <2>7. c = Fa => v = <<>>
    BY <1>1
  <2>8. \/ u = <<>> /\ p.dec = a /\ p.raws = s
        \/ u # <<>> /\ p.dec = Fa /\ p.raws = Append(s, u)
    BY <2>1
  <2>9. \/ c = Fa /\ q.dec = c /\ q.raws = t
        \/ c # Fa /\ q.dec = Fa /\ q.raws = Append(t, v)
    BY <2>2
  <2>10. a = Fa => u = <<>>
    BY <1>1
  <2>a. Credit(a, c) \in {0, 1} /\ Gap(a, c) \in {0, 1}
    BY CreditType
  <2>b. Credit(Fa, Fa) = 0 /\ Gap(Fa, Fa) = 0
    BY CreditType
  <2> HIDE DEF u, v, a, c, s, t
  <2>11. /\ Spoils(x, s) \in Nat /\ Spoils(x, Append(s, u)) \in Nat
         /\ Spoils(x, Append(s, u)) <= Spoils(x, s) + 1
         /\ Message(u) \in ToSet(Script) => Spoils(x, Append(s, u)) <= Spoils(x, s)
         /\ Len(s) \in Nat /\ Len(Append(s, u)) = Len(s) + 1
    BY <2>3, SpoilsAppend
  <2>12. Len(t) \in Nat /\ Len(Append(t, v)) = Len(t) + 1
    BY <2>3, SpoilsAppend
  <2>13. CASE c = Fa
    <3>1. q.dec = c /\ q.raws = t
      BY <2>9, <2>13
    <3>2. CASE u = <<>>
      <4>1. p.dec = a /\ p.raws = s
        BY <2>8, <3>2
      <4> QED BY <2>11, <2>12, <2>a, <3>1, <4>1 DEF a, c, s, t
    <3>3. CASE u # <<>>
      <4>1. p.dec = Fa /\ p.raws = Append(s, u)
        BY <2>8, <3>3
      <4>2. a # c /\ v = <<>>
        BY <2>6, <2>7, <2>10, <2>13, <3>3
      <4>3. Credit(a, c) = 1 /\ Gap(a, c) = 1
        BY <2>4, <2>5, <3>3, <4>2
      <4>4. Credit(p.dec, q.dec) = 0 /\ Gap(p.dec, q.dec) = 0
        BY <2>13, <2>b, <3>1, <4>1
      <4>5. Spoils(x, p.raws) + 0 <= Spoils(x, s) + 1
        BY <2>11, <4>1
      <4>6. Len(q.raws) - Len(t) + 0 <= Len(p.raws) - Len(s) + 1
        BY <2>11, <2>12, <3>1, <4>1
      <4> QED BY <3>1, <4>3, <4>4, <4>5, <4>6 DEF a, c, s, t
    <3> QED BY <3>2, <3>3
  <2>14. CASE c # Fa
    <3>1. q.dec = Fa /\ q.raws = Append(t, v)
      BY <2>9, <2>14
    <3>2. Good(t) /\ v # <<>> /\ Message(v) \in ToSet(Script)
      BY <2>3, <3>1, GoodAppend
    <3>3. CASE u = <<>>
      <4>1. p.dec = a /\ p.raws = s
        BY <2>8, <3>3
      <4>2. a # c
        BY <2>6, <3>2, <3>3
      <4>3. Credit(a, c) = 1 /\ Gap(a, c) = 1
        BY <2>4, <2>5, <3>2, <3>3, <4>2
      <4>4. Credit(p.dec, q.dec) \in {0, 1}
        BY CreditType
      <4>5. Gap(p.dec, q.dec) = 0
        <5>1. p.dec.raw = <<>> /\ q.dec.raw = <<>>
          BY <1>1, <3>1, <3>3, <4>1 DEF u, a
        <5> QED BY <5>1 DEF Gap
      <4>6. Spoils(x, p.raws) + Credit(p.dec, q.dec) <= Spoils(x, s) + 1
        BY <2>11, <4>1, <4>4
      <4>7. Len(q.raws) - Len(t) + 0 <= Len(p.raws) - Len(s) + 1
        BY <2>11, <2>12, <3>1, <4>1
      <4> QED BY <3>2, <4>3, <4>5, <4>6, <4>7 DEF a, c, s, t
    <3>4. CASE u # <<>>
      <4>1. p.dec = Fa /\ p.raws = Append(s, u)
        BY <2>8, <3>4
      <4>2. Credit(p.dec, q.dec) = 0 /\ Gap(p.dec, q.dec) = 0
        BY <2>b, <3>1, <4>1
      <4>3. Spoils(x, p.raws) + 0 <= Spoils(x, s) + Credit(a, c)
        <5>1. CASE a = c
          <6>1. Spoils(x, Append(s, u)) <= Spoils(x, s) /\ Credit(a, c) = 0
            BY <2>5, <2>6, <2>11, <3>2, <5>1
          <6> QED BY <2>11, <4>1, <6>1
        <5>2. CASE a # c
          <6>1. Credit(a, c) = 1
            BY <2>5, <5>2
          <6> QED BY <2>11, <4>1, <6>1
        <5> QED BY <5>1, <5>2
      <4>4. Len(q.raws) - Len(t) + 0 <= Len(p.raws) - Len(s) + Gap(a, c)
        BY <2>11, <2>12, <2>a, <3>1, <4>1
      <4> QED BY <3>2, <4>2, <4>3, <4>4 DEF a, c, s, t
    <3> QED BY <3>3, <3>4
  <2> QED BY <2>13, <2>14
<1> QED BY <1>2, <1>3

\* A stretch that means messages of the script: a router that is in step passes
\* them on, one that is not damages at most one and misses at most one.
LEMMA StreamTracks ==
    ASSUME NEW a \in Decoder, NEW b \in Decoder, NEW s \in Seq(Byte), NEW x \in Seq(Seq(Byte)),
           Good(Strict(b, s).raws)
    PROVE  /\ Spoils(x, Run(a, s).raws) + Credit(Run(a, s).dec, Strict(b, s).dec)
                 <= Cardinality(Spoilt(x)) + Credit(a, b)
           /\ Len(Strict(b, s).raws) + Gap(Run(a, s).dec, Strict(b, s).dec)
                 <= Len(Run(a, s).raws) + Gap(a, b)
<1> DEFINE Holds(u) ==
             Good(Strict(b, u).raws) =>
               /\ Spoils(x, Run(a, u).raws) + Credit(Run(a, u).dec, Strict(b, u).dec)
                     <= Cardinality(Spoilt(x)) + Credit(a, b)
               /\ Len(Strict(b, u).raws) + Gap(Run(a, u).dec, Strict(b, u).dec)
                     <= Len(Run(a, u).raws) + Gap(a, b)
           P == {u \in Seq(Byte) : Holds(u)}
<1>0. Cardinality(Spoilt(x)) \in Nat
  BY SpoiltType
<1>1. <<>> \in P
  <2> DEFINE z == <<>>
  <2>1. z \in Seq(Byte) /\ z \in Seq(Seq(Byte)) /\ Len(z) = 0
    OBVIOUS
  <2>2. Run(a, z).dec = a /\ Run(a, z).raws = z /\ Strict(b, z).dec = b /\ Strict(b, z).raws = z
    BY RunStarts, StrictStarts DEF Start
  <2> HIDE DEF z
  <2>3. Spoils(x, z) = Cardinality(Spoilt(x))
    <3>1. MessagesOf(z) \in Seq(Seq(Byte)) /\ Len(MessagesOf(z)) = Len(z)
        <4>1. z \in Seq(Seq(Byte))
        BY <2>1
      <4> QED BY <4>1, MessagesOfType
    <3>2. MessagesOf(z) = <<>>
      BY <2>1, <3>1, EmptySeq
    <3>3. x \o <<>> = x
      BY ConcatEmptySeq
    <3> QED BY <3>2, <3>3 DEF Spoils
  <2>4. Credit(a, b) \in {0, 1} /\ Gap(a, b) \in {0, 1}
    BY CreditType
  <2>5. Holds(z)
    BY <1>0, <2>1, <2>2, <2>3, <2>4
  <2> QED BY <2>1, <2>5 DEF z
<1>2. ASSUME NEW u \in P, NEW c \in Byte PROVE Append(u, c) \in P
  <2> DEFINE v == Append(u, c)
             ra == Run(a, u)
             rb == Strict(b, u)
             p == Run(a, v)
             q == Strict(b, v)
  <2>1. u \in Seq(Byte) /\ v \in Seq(Byte)
    BY AppendProperties
  <2>2. ra \in RunState /\ rb \in RunState /\ p = Eaten(ra, c) /\ q = StrictEaten(rb, c)
    BY <2>1, RunGrows, StrictGrows
  <2>3. /\ p.raws \in Seq(Seq(Byte)) /\ q.raws \in Seq(Seq(Byte))
        /\ ra.raws \in Seq(Seq(Byte)) /\ rb.raws \in Seq(Seq(Byte))
    BY <2>1, RunType, StrictType
  <2>4. Holds(u)
    OBVIOUS
  <2> SUFFICES ASSUME Good(q.raws)
               PROVE  /\ Spoils(x, p.raws) + Credit(p.dec, q.dec)
                            <= Cardinality(Spoilt(x)) + Credit(a, b)
                      /\ Len(q.raws) + Gap(p.dec, q.dec) <= Len(p.raws) + Gap(a, b)
    BY <2>1
  <2>5. Good(rb.raws) => /\ Spoils(x, ra.raws) + Credit(ra.dec, rb.dec)
                               <= Cardinality(Spoilt(x)) + Credit(a, b)
                         /\ Len(rb.raws) + Gap(ra.dec, rb.dec) <= Len(ra.raws) + Gap(a, b)
    BY <2>4
  <2> HIDE DEF v, ra, rb, p, q
  <2>6. /\ Good(rb.raws)
        /\ Spoils(x, p.raws) + Credit(p.dec, q.dec)
              <= Spoils(x, ra.raws) + Credit(ra.dec, rb.dec)
        /\ Len(q.raws) - Len(rb.raws) + Gap(p.dec, q.dec)
              <= Len(p.raws) - Len(ra.raws) + Gap(ra.dec, rb.dec)
    BY <2>2, ByteTracks
  <2>7. Spoils(x, p.raws) \in Nat /\ Spoils(x, ra.raws) \in Nat
    <3>1. <<>> \in Seq(Byte)
      OBVIOUS
    <3> QED BY <2>3, <3>1, SpoilsAppend
  <2>8. Len(p.raws) \in Nat /\ Len(q.raws) \in Nat /\ Len(ra.raws) \in Nat /\ Len(rb.raws) \in Nat
    BY <2>3, LenProperties
  <2> DEFINE c1 == Credit(p.dec, q.dec)
             c2 == Credit(ra.dec, rb.dec)
             c3 == Credit(a, b)
             g1 == Gap(p.dec, q.dec)
             g2 == Gap(ra.dec, rb.dec)
             g3 == Gap(a, b)
  <2>a. /\ c1 \in {0, 1} /\ c2 \in {0, 1} /\ c3 \in {0, 1}
        /\ g1 \in {0, 1} /\ g2 \in {0, 1} /\ g3 \in {0, 1}
    BY CreditType
  <2>10. /\ Spoils(x, p.raws) + c1 <= Spoils(x, ra.raws) + c2
         /\ Spoils(x, ra.raws) + c2 <= Cardinality(Spoilt(x)) + c3
         /\ Len(q.raws) - Len(rb.raws) + g1 <= Len(p.raws) - Len(ra.raws) + g2
         /\ Len(rb.raws) + g2 <= Len(ra.raws) + g3
    BY <2>5, <2>6
  <2> HIDE DEF c1, c2, c3, g1, g2, g3
  <2>9. c1 \in Nat /\ c2 \in Nat /\ c3 \in Nat /\ g1 \in Nat /\ g2 \in Nat /\ g3 \in Nat
    BY <2>a
  <2> DEFINE h1 == Spoils(x, p.raws)
             h2 == Spoils(x, ra.raws)
             h3 == Cardinality(Spoilt(x))
             l1 == Len(p.raws)
             l2 == Len(ra.raws)
             m1 == Len(q.raws)
             m2 == Len(rb.raws)
  <2>b. /\ h1 \in Nat /\ h2 \in Nat /\ h3 \in Nat
        /\ l1 \in Nat /\ l2 \in Nat /\ m1 \in Nat /\ m2 \in Nat
    BY <1>0, <2>7, <2>8
  <2>c. h1 + c1 <= h2 + c2 /\ h2 + c2 <= h3 + c3
        /\ m1 - m2 + g1 <= l1 - l2 + g2 /\ m2 + g2 <= l2 + g3
    BY <2>10
  <2> HIDE DEF h1, h2, h3, l1, l2, m1, m2
  <2>d. h1 + c1 <= h3 + c3
    BY <2>9, <2>b, <2>c
  <2>e. m1 + g1 <= l1 + g3
    BY <2>9, <2>b, <2>c
  <2> QED BY <2>d, <2>e DEF c1, c3, g1, g3, h1, h3, l1, m1
<1>3. P \in SUBSET Seq(Byte)
  OBVIOUS
<1> HIDE DEF P
<1>4. \A u \in Seq(Byte) : u \in P
  BY <1>1, <1>2, <1>3, SeqGrows
<1>5. s \in P
  BY <1>4
<1> QED BY <1>5 DEF P

-----------------------------------------------------------------------------
(* How far the router is out of step.                                      *)

\* Read by a decoder ds, rest is frames of the script.  The router's decoder is
\* dec; c packets were cut, of what was passed on and what the router is about
\* to pass on spoilt messages are damaged, and against the ones begun that are
\* not in rest it counts as passed, with the markers and packets that were lost.
Sync(ds, rest, dec, spoilt, c, begun, passed) ==
    /\ Strict(ds, rest).dec = FreshDecoder
    /\ Good(Strict(ds, rest).raws)
    /\ spoilt + Credit(dec, ds) <= c
    /\ begun + Gap(dec, ds) <= passed + Len(Strict(ds, rest).raws)

LEMMA SyncRead ==
    ASSUME NEW ds \in Decoder, NEW got \in Seq(Byte), NEW cut \in Seq(Byte), NEW rest \in Seq(Byte),
           NEW dec \in Decoder, NEW x \in Seq(Seq(Byte)), NEW c \in Nat, NEW c2 \in Nat,
           NEW begun \in Int, NEW passed \in Int,
           Sync(ds, (got \o cut) \o rest, dec, Cardinality(Spoilt(x)), c, begun, passed),
           (c2 = c /\ cut = <<>>) \/ c2 = c + 1
    PROVE  /\ Spoils(x, Run(dec, got).raws) <= c2
           /\ \E e \in Decoder :
                 Sync(e, rest, Run(dec, got).dec, Spoils(x, Run(dec, got).raws), c2, begun,
                      passed + Len(Run(dec, got).raws) + Cardinality(Ends(cut)) + (c2 - c))
<1> DEFINE r == Run(dec, got)
           sg == Strict(ds, got)
           d1 == sg.dec
           sc == Strict(d1, cut)
           d2 == sc.dec
           sr == Strict(d2, rest)
           y == got \o cut
           sy == Strict(ds, y)
           z == y \o rest
           sz == Strict(ds, z)
<1>1. r.dec \in Decoder /\ r.raws \in Seq(Seq(Byte)) /\ d1 \in Decoder /\ sg.raws \in Seq(Seq(Byte))
  BY RunType, StrictType
<1>2. d2 \in Decoder /\ sc.raws \in Seq(Seq(Byte))
  BY <1>1, StrictType
<1>3. sr.raws \in Seq(Seq(Byte)) /\ y \in Seq(Byte)
  BY <1>2, StrictType, ConcatProperties
<1>4. sy.dec = d2 /\ sy.raws = sg.raws \o sc.raws
  BY StrictConcat
<1>5. sz.dec = Strict(sy.dec, rest).dec /\ sz.raws = sy.raws \o Strict(sy.dec, rest).raws
  <2>1. y \in Seq(Byte)
    BY <1>3
  <2> HIDE DEF y
  <2> QED BY <2>1, StrictConcat
<1>6. sz.dec = sr.dec /\ sz.raws = (sg.raws \o sc.raws) \o sr.raws
  BY <1>4, <1>5
<1>7. /\ sz.dec = FreshDecoder /\ Good(sz.raws)
      /\ Cardinality(Spoilt(x)) + Credit(dec, ds) <= c
      /\ begun + Gap(dec, ds) <= passed + Len(sz.raws)
  BY DEF Sync
<1>8. Len(sc.raws) <= Cardinality(Ends(cut))
  BY <1>1, StrictEnds
<1>9. cut = <<>> => d2 = d1 /\ sc.raws = <<>>
  <2>1. ASSUME cut = <<>> PROVE sc = Start(d1)
    BY <1>1, <2>1, StrictStarts
  <2> QED BY <2>1 DEF Start
<1>10. Cardinality(Ends(cut)) \in Nat
  BY EndsFinite
<1>11. r = Run(dec, got) /\ sg = Strict(ds, got) /\ d1 = sg.dec /\ d2 = sc.dec
       /\ sr = Strict(d2, rest)
  OBVIOUS
<1> DEFINE a1 == sg.raws
           a2 == sc.raws
           a3 == sr.raws
<1>12. a1 \in Seq(Seq(Byte)) /\ a2 \in Seq(Seq(Byte)) /\ a3 \in Seq(Seq(Byte))
       /\ sz.raws = (a1 \o a2) \o a3
  BY <1>1, <1>2, <1>3, <1>6
<1> HIDE DEF r, sg, d1, sc, d2, sr, y, sy, z, sz
<1>13. Good(a1) /\ Good(a3) /\ Len(sz.raws) = Len(a1) + Len(a2) + Len(a3)
  <2>1. a1 \in Seq(Seq(Byte)) /\ a2 \in Seq(Seq(Byte)) /\ a3 \in Seq(Seq(Byte))
    BY <1>12
  <2> HIDE DEF a1, a2, a3
  <2>2. a1 \o a2 \in Seq(Seq(Byte)) /\ Len(a1 \o a2) = Len(a1) + Len(a2)
    BY <2>1, ConcatProperties
  <2>3. Len((a1 \o a2) \o a3) = Len(a1 \o a2) + Len(a3)
    BY <2>1, <2>2, ConcatProperties
  <2>4. Good(a1 \o a2) /\ Good(a3)
    BY <1>7, <1>12, <2>1, <2>2, GoodConcat
  <2>5. Good(a1)
    BY <2>1, <2>4, GoodConcat
  <2> QED BY <1>12, <2>2, <2>3, <2>4, <2>5
<1>14. /\ Spoils(x, r.raws) + Credit(r.dec, d1) <= Cardinality(Spoilt(x)) + Credit(dec, ds)
       /\ Len(a1) + Gap(r.dec, d1) <= Len(r.raws) + Gap(dec, ds)
  <2>1. Good(Strict(ds, got).raws)
    BY <1>11, <1>13
  <2>2. /\ Spoils(x, Run(dec, got).raws) + Credit(Run(dec, got).dec, Strict(ds, got).dec)
             <= Cardinality(Spoilt(x)) + Credit(dec, ds)
        /\ Len(Strict(ds, got).raws) + Gap(Run(dec, got).dec, Strict(ds, got).dec)
             <= Len(Run(dec, got).raws) + Gap(dec, ds)
    BY <2>1, StreamTracks
  <2> QED BY <1>11, <2>2
<1> DEFINE sp == Spoils(x, r.raws)
           s0 == Cardinality(Spoilt(x))
           c0 == Credit(dec, ds)
           c1 == Credit(r.dec, d1)
           cz == Credit(r.dec, d2)
           g0 == Gap(dec, ds)
           g1 == Gap(r.dec, d1)
           gz == Gap(r.dec, d2)
           l0 == Len(r.raws)
           l1 == Len(a1)
           l2 == Len(a2)
           l3 == Len(a3)
           en == Cardinality(Ends(cut))
<1>15. /\ c0 \in {0, 1} /\ c1 \in {0, 1} /\ cz \in {0, 1}
       /\ g0 \in {0, 1} /\ g1 \in {0, 1} /\ gz \in {0, 1}
  BY CreditType
<1>16. sp \in Nat /\ s0 \in Nat
  <2>1. <<>> \in Seq(Byte)
    OBVIOUS
  <2> QED BY <1>1, <2>1, SpoilsAppend, SpoiltType
<1>17. l0 \in Nat /\ l1 \in Nat /\ l2 \in Nat /\ l3 \in Nat /\ en \in Nat
  BY <1>1, <1>10, <1>12, LenProperties
<1>18. sp + c1 <= s0 + c0 /\ s0 + c0 <= c /\ l1 + g1 <= l0 + g0
       /\ begun + g0 <= passed + (l1 + l2 + l3) /\ l2 <= en
  BY <1>7, <1>8, <1>13, <1>14
<1>19. (c2 = c /\ l2 = 0 /\ cz = c1 /\ gz = g1) \/ c2 = c + 1
  <2>1. CASE c2 = c /\ cut = <<>>
    <3>1. d2 = d1 /\ a2 = <<>>
      BY <1>9, <2>1
    <3>2. l2 = 0
      BY <3>1
    <3> QED BY <2>1, <3>1, <3>2
  <2>2. CASE c2 = c + 1
    BY <2>2
  <2> QED BY <2>1, <2>2
<1> HIDE DEF sp, s0, c0, c1, cz, g0, g1, gz, l0, l1, l2, l3, en
<1>20. sp + cz <= c2
  BY <1>15, <1>16, <1>18, <1>19
<1>21. begun + gz <= (passed + l0 + en + (c2 - c)) + l3
  <2>1. CASE c2 = c /\ l2 = 0 /\ cz = c1 /\ gz = g1
    BY <1>15, <1>17, <1>18, <2>1
  <2>2. CASE c2 = c + 1
    <3>1. c2 - c = 1
      BY <2>2
    <3> QED BY <1>15, <1>17, <1>18, <3>1
  <2> QED BY <1>19, <2>1, <2>2
<1>22. sp <= c2
  BY <1>15, <1>16, <1>20
<1>23. Sync(d2, rest, r.dec, sp, c2, begun, passed + l0 + en + (c2 - c))
  BY <1>6, <1>7, <1>11, <1>13, <1>20, <1>21 DEF Sync, cz, gz, l3, a3
<1> QED BY <1>2, <1>22, <1>23 DEF sp, l0, en, r

LEMMA InScript ==
    ASSUME NEW i \in 1..Len(Script)
    PROVE  Script[i] \in ToSet(Script)
BY DEF ToSet

LEMMA SyncBegin ==
    ASSUME NEW ds \in Decoder, NEW rest \in Seq(Byte), NEW dec, NEW spoilt, NEW c,
           NEW begun \in Int, NEW passed \in Int,
           Sync(ds, rest, dec, spoilt, c, begun, passed),
           NEW m \in Seq(Byte), m \in ToSet(Script), NEW g \in Seq(Byte),
           g = hdlc_encode(m) \/ g = <<NHDLC_CONTROL_CHAR>> \o hdlc_encode(m)
    PROVE  Sync(ds, rest \o g, dec, spoilt, c, begun + 1, passed)
<1> DEFINE a == Strict(ds, rest).raws
           x == RawOf(m)
           y == <<x>>
           gg == Gap(dec, ds)
<1>1. Strict(ds, rest).dec = FreshDecoder /\ Good(a) /\ begun + gg <= passed + Len(a)
      /\ spoilt + Credit(dec, ds) <= c
  BY DEF Sync
<1>2. a \in Seq(Seq(Byte))
  BY StrictType
<1>3. x \in Seq(Byte) /\ x # <<>> /\ Message(x) = m
  <2>1. x \in Seq(Byte) /\ Len(x) = Len(m) + 2 /\ Len(m) \in Nat
    BY BytesType, LenProperties
  <2>2. Message(x) = m
    BY DecodesFrame
  <2> HIDE DEF x
  <2>3. x # <<>>
    BY <2>1
  <2> QED BY <2>1, <2>2, <2>3
<1>4. Strict(FreshDecoder, g).dec = FreshDecoder /\ Strict(FreshDecoder, g).raws = y
  BY StrictFrame
<1>5. Strict(ds, rest \o g).dec = FreshDecoder /\ Strict(ds, rest \o g).raws = a \o y
  <2>1. /\ Strict(ds, rest \o g).dec = Strict(Strict(ds, rest).dec, g).dec
        /\ Strict(ds, rest \o g).raws = Strict(ds, rest).raws \o Strict(Strict(ds, rest).dec, g).raws
    BY StrictConcat
  <2> QED BY <1>1, <1>4, <2>1
<1> HIDE DEF a, x, gg
<1>6. a \o y = Append(a, x)
  BY <1>2, <1>3, AppendIsConcat
<1>7. Good(Append(a, x))
  BY <1>1, <1>2, <1>3, GoodAppend
<1>8. Len(Append(a, x)) = Len(a) + 1 /\ Len(a) \in Nat
  BY <1>2, <1>3, AppendProperties, LenProperties
<1>9. gg \in {0, 1}
  BY CreditType DEF gg
<1>10. (begun + 1) + gg <= passed + (Len(a) + 1)
  BY <1>1, <1>8, <1>9
<1> QED BY <1>1, <1>5, <1>6, <1>7, <1>8, <1>10 DEF Sync, gg

\* A router that starts anew is in step.
LEMMA SyncStarts ==
    ASSUME NEW rest, rest = <<>>, NEW spoilt \in Nat, NEW c \in Nat, spoilt <= c,
           NEW passed \in Nat
    PROVE  Sync(FreshDecoder, rest, FreshDecoder, spoilt, c, 0, passed)
<1> DEFINE z == Strict(FreshDecoder, rest)
<1>1. z.dec = FreshDecoder /\ z.raws = <<>>
  BY FreshType, StrictStarts DEF Start
<1> HIDE DEF z
<1>2. Good(z.raws) /\ Len(z.raws) = 0
  BY <1>1 DEF Good
<1>3. Credit(FreshDecoder, FreshDecoder) = 0 /\ Gap(FreshDecoder, FreshDecoder) = 0
  BY CreditType
<1> QED BY <1>1, <1>2, <1>3 DEF Sync, z

\* What the router is about to make of its buffer.
Held == Run(recv_decoder, Unread(recv_buf))

\* What it passed on and is about to pass on since the boot, and what it lost.
Accounted == Len(out) + Len(Held.raws) - boot.out + missed + cuts

SyncTrack ==
    ~apps_hdlc_encode /\ pc # "crashed" =>
        /\ Spoils(out, Held.raws) <= cuts
        /\ up => \E ds \in Decoder :
                    Sync(ds, Rest, Held.dec, Spoils(out, Held.raws), cuts, sent - boot.sent,
                         Accounted)

LEMMA HeldType ==
    ASSUME TypeOK
    PROVE  /\ Held.dec \in Decoder /\ Held.raws \in Seq(Seq(Byte))
           /\ Len(Held.raws) \in Nat /\ Spoils(out, Held.raws) \in Nat
           /\ MessagesOf(Held.raws) \in Seq(Seq(Byte))
           /\ out \o MessagesOf(Held.raws) \in Seq(Seq(Byte))
<1>1. recv_decoder \in Decoder /\ Unread(recv_buf) \in Seq(Byte) /\ out \in Seq(Seq(Byte))
  BY UnreadType DEF TypeOK
<1>2. Held.dec \in Decoder /\ Held.raws \in Seq(Seq(Byte))
  BY <1>1, RunType DEF Held
<1>3. <<>> \in Seq(Byte)
  OBVIOUS
<1>4. Spoils(out, Held.raws) \in Nat /\ Len(Held.raws) \in Nat
  BY <1>1, <1>2, <1>3, SpoilsAppend
<1>5. MessagesOf(Held.raws) \in Seq(Seq(Byte)) /\ out \o MessagesOf(Held.raws) \in Seq(Seq(Byte))
  BY <1>1, <1>2, <1>3, MessagesAppend
<1> QED BY <1>2, <1>4, <1>5

LEMMA HeldTypeNext ==
    ASSUME TypeOK'
    PROVE  Len(out') \in Nat /\ Len(Held'.raws) \in Nat
<1>1. recv_decoder' \in Decoder /\ recv_buf' \in Ring /\ out' \in Seq(Seq(Byte))
  BY DEF TypeOK
<1>2. Unread(recv_buf') \in Seq(Byte)
  BY <1>1, UnreadType
<1>3. Run(recv_decoder', Unread(recv_buf')).raws \in Seq(Seq(Byte))
  BY <1>1, <1>2, RunType
<1>4. Held'.raws \in Seq(Seq(Byte))
  BY <1>3 DEF Held
<1> QED BY <1>1, <1>4, LenProperties

LEMMA FreshHeld ==
    Run(FreshDecoder, Unread(FreshRing)).dec = FreshDecoder
    /\ Run(FreshDecoder, Unread(FreshRing)).raws = <<>>
BY FreshRingIs, FreshType, RunStarts DEF Start

LEMMA SpoilsNothing ==
    ASSUME NEW x \in Seq(Seq(Byte))
    PROVE  Spoils(x, <<>>) = Cardinality(Spoilt(x))
<1> DEFINE z == <<>>
<1>1. z \in Seq(Seq(Byte)) /\ Len(z) = 0
  OBVIOUS
<1>a. z \in Seq(Seq(Byte))
  BY <1>1
<1> HIDE DEF z
<1>2. MessagesOf(z) \in Seq(Seq(Byte)) /\ Len(MessagesOf(z)) = Len(z)
  BY <1>a, MessagesOfType
<1>3. MessagesOf(z) = <<>>
  BY <1>1, <1>2, EmptySeq
<1>4. x \o <<>> = x
  BY ConcatEmptySeq
<1> QED BY <1>3, <1>4 DEF Spoils, z

LEMMA SyncTrackInit == Init => SyncTrack
<1> SUFFICES ASSUME Init PROVE SyncTrack
  OBVIOUS
<1> DEFINE z == <<>>
<1>1. /\ boot.sent = 0 /\ boot.out = 0 /\ sent = 0 /\ out = z /\ packets = z /\ tx = z
      /\ recv_buf = FreshRing /\ recv_decoder = FreshDecoder /\ cuts = 0 /\ missed = 0
  BY DEF Init
<1>2. Held.dec = FreshDecoder /\ Held.raws = z
  BY <1>1, FreshHeld DEF Held
<1>3. Spoils(z, z) = 0
  <2>1. z \in Seq(Seq(Byte))
    OBVIOUS
  <2> QED BY <2>1, SpoilsNothing, SpoiltNothing
<1>4. Joined(z) = z /\ z \o z = z /\ Len(z) = 0
  BY JoinedNone
<1> HIDE DEF z
<1>5. Rest = z
  BY <1>1, <1>4 DEF Rest
<1>6. Accounted = 0
  <2>1. Accounted = 0 + 0 - 0 + 0 + 0
    BY <1>1, <1>2, <1>4 DEF Accounted
  <2> QED BY <2>1
<1>7. Sync(FreshDecoder, z, FreshDecoder, 0, 0, 0, 0)
  BY SyncStarts DEF z
<1>8. Sync(FreshDecoder, Rest, Held.dec, Spoils(out, Held.raws), cuts, sent - boot.sent, Accounted)
  <2>1. sent - boot.sent = 0
    BY <1>1
  <2> QED BY <1>1, <1>2, <1>3, <1>5, <1>6, <1>7, <2>1
<1>9. Spoils(out, Held.raws) <= cuts
  BY <1>1, <1>2, <1>3
<1> QED BY <1>8, <1>9, FreshType DEF SyncTrack

\* A step that leaves the data channel alone, but for the place of the callback.
LEMMA SyncTrackKept ==
    ASSUME SyncTrack,
           UNCHANGED <<apps_hdlc_encode, recv_buf, recv_decoder, out, up, sent, tx, packets,
                       cuts, missed, boot>>,
           pc' # "crashed" => pc # "crashed"
    PROVE  SyncTrack'
BY DEF SyncTrack, Held, Accounted, Rest

LEMMA SyncTrackNext == TypeOK /\ Shape /\ SyncTrack /\ [Next]_vars => SyncTrack'
<1> SUFFICES ASSUME TypeOK, Shape, SyncTrack, [Next]_vars PROVE SyncTrack'
  OBVIOUS
<1> USE DEF perif, subsystem, command, history
<1>0. /\ recv_buf \in Ring /\ recv_decoder \in Decoder /\ out \in Seq(Seq(Byte))
      /\ packets \in Seq(Seq(Byte)) /\ tx \in Seq(Byte)
      /\ Script \in Seq(Seq(Byte)) /\ sent \in Nat /\ boot.sent \in Nat /\ boot.out \in Nat
      /\ boot.sent <= sent /\ boot.out <= Len(out) /\ cuts \in Nat /\ missed \in Nat
      /\ Len(out) \in Nat
  BY DataChannelAssumption, LenProperties DEF TypeOK, Shape
<1> DEFINE U == Unread(recv_buf)
           h == Held.raws
           x == out \o MessagesOf(h)
<1>a. /\ U \in Seq(Byte) /\ Rest \in Seq(Byte) /\ Held.dec \in Decoder /\ h \in Seq(Seq(Byte))
      /\ Len(h) \in Nat /\ Spoils(out, h) \in Nat
      /\ MessagesOf(h) \in Seq(Seq(Byte)) /\ x \in Seq(Seq(Byte))
  BY RestType, HeldType
<1>b. Spoils(out, h) = Cardinality(Spoilt(x))
  BY DEF Spoils
<1>c. sent - boot.sent \in Int /\ Accounted \in Int
  <2> DEFINE b == boot.sent
             o == boot.out
  <2>1. b \in Nat /\ o \in Nat
    BY <1>0
  <2>2. Accounted = Len(out) + Len(h) - o + missed + cuts
    BY DEF Accounted
  <2> HIDE DEF b, o, h
  <2>3. sent - b \in Int /\ Accounted \in Int
    BY <1>0, <1>a, <2>1, <2>2
  <2> QED BY <2>3 DEF b
<1>1. CASE diag_data_recv
  BY <1>1, SyncTrackKept DEF diag_data_recv
<1>2. CASE circ_read_Full
  BY <1>2, SyncTrackKept DEF circ_read_Full
<1>3. CASE circ_read
  <2>1. PICK got \in Seq(Byte), cut \in Seq(Byte) :
           /\ Unread(recv_buf') = U \o got
           /\ Rest' \in Seq(Byte)
           /\ Rest = (got \o cut) \o Rest'
           /\ missed' = missed + Cardinality(Ends(cut))
           /\ (cuts' = cuts /\ cut = <<>>) \/ cuts' = cuts + 1
    BY <1>3, ReadMoves
  <2>2. /\ pc = "read" /\ up
        /\ UNCHANGED <<apps_hdlc_encode, recv_decoder, out, up, sent, boot>>
    BY <1>3 DEF circ_read
  <2> SUFFICES ASSUME ~apps_hdlc_encode
               PROVE  /\ Spoils(out', Held'.raws) <= cuts'
                      /\ \E ds \in Decoder :
                            Sync(ds, Rest', Held'.dec, Spoils(out', Held'.raws), cuts',
                                 sent' - boot'.sent, Accounted')
    BY <2>2 DEF SyncTrack
  <2>3. PICK ds \in Decoder :
           Sync(ds, Rest, Held.dec, Spoils(out, h), cuts, sent - boot.sent, Accounted)
    BY <2>2 DEF SyncTrack
  <2> DEFINE r == Run(Held.dec, got)
             R == Rest'
             e == Held.dec
             k == r.raws
  <2>4. Held'.dec = r.dec /\ Held'.raws = h \o k
    <3>1. Held' = Run(recv_decoder, U \o got)
      BY <2>1, <2>2 DEF Held
    <3>2. /\ Run(recv_decoder, U \o got).dec = Run(Run(recv_decoder, U).dec, got).dec
          /\ Run(recv_decoder, U \o got).raws
                 = Run(recv_decoder, U).raws \o Run(Run(recv_decoder, U).dec, got).raws
      BY <1>0, <1>a, RunConcat
    <3> QED BY <3>1, <3>2 DEF Held
  <2>5. R \in Seq(Byte) /\ e \in Decoder /\ k \in Seq(Seq(Byte)) /\ r.dec \in Decoder
    BY <1>a, <2>1, RunType
  <2>6. cuts' \in Nat
    BY SMTT(30), <1>0, <2>1
  <2>7. Sync(ds, (got \o cut) \o R, e, Cardinality(Spoilt(x)), cuts, sent - boot.sent, Accounted)
    BY <1>b, <2>1, <2>3
  <2>8. k = Run(e, got).raws /\ r.dec = Run(e, got).dec
    OBVIOUS
  <2> DEFINE en == Cardinality(Ends(cut))
             begun == sent - boot.sent
             passed == Accounted
             c2 == cuts'
  <2>x. x \in Seq(Seq(Byte)) /\ h \in Seq(Seq(Byte)) /\ MessagesOf(h) \in Seq(Seq(Byte))
    BY <1>a
  <2>9. Spoils(out', Held'.raws) = Spoils(x, k)
    <3>1. MessagesOf(k) \in Seq(Seq(Byte))
      BY <2>5, MessagesOfType
    <3>2. MessagesOf(h \o k) = MessagesOf(h) \o MessagesOf(k)
      <4>1. h \in Seq(Seq(Byte)) /\ k \in Seq(Seq(Byte))
        BY <1>a, <2>5
      <4> HIDE DEF h, k
      <4> QED BY <4>1, MessagesConcat
    <3> DEFINE mh == MessagesOf(h)
               mk == MessagesOf(k)
    <3>3. mh \in Seq(Seq(Byte)) /\ mk \in Seq(Seq(Byte))
      BY <1>a, <3>1
    <3>4. x = out \o mh /\ MessagesOf(h \o k) = mh \o mk
      BY <3>2
    <3> HIDE DEF mh, mk, h, k, x
    <3>5. out \o (mh \o mk) = (out \o mh) \o mk
      BY ZenonT(30), <1>0, <3>3, Regroup
    <3> QED BY <2>2, <2>4, <3>4, <3>5 DEF Spoils, mk
  <2>10. Len(h \o k) = Len(h) + Len(k) /\ Len(k) \in Nat
    <3>1. h \in Seq(Seq(Byte)) /\ k \in Seq(Seq(Byte))
      BY <1>a, <2>5
    <3> HIDE DEF h, k
    <3> QED BY <3>1, ConcatProperties, LenProperties
  <2>11. Accounted' = passed + Len(k) + en + (c2 - cuts)
    <3> DEFINE o == boot.out
               m2 == missed'
               l == Len(out)
               lh == Len(h)
               lk == Len(k)
    <3>1. o \in Nat /\ en \in Nat /\ l \in Nat /\ lh \in Nat /\ lk \in Nat /\ c2 \in Nat
      BY <1>0, <1>a, <2>6, <2>10, EndsFinite
    <3>2. Accounted' = Len(out') + Len(Held'.raws) - boot'.out + missed' + cuts'
      BY DEF Accounted
    <3>3. Accounted' = l + (lh + lk) - o + m2 + c2
      BY <2>2, <2>4, <2>10, <3>2
    <3>4. passed = l + lh - o + missed + cuts
      BY DEF Accounted
    <3>5. m2 = missed + en
      BY <2>1
    <3> HIDE DEF o, m2, l, lh, lk, en, c2, passed
    <3>6. Accounted' = passed + lk + en + (c2 - cuts)
      BY <1>0, <3>1, <3>3, <3>4, <3>5
    <3> QED BY <3>6 DEF lk
  <2>12. (c2 = cuts /\ cut = <<>>) \/ c2 = cuts + 1
    BY <2>1
  <2>13. begun \in Int /\ passed \in Int /\ c2 \in Nat /\ cuts \in Nat
    BY <1>0, <1>c, <2>6
  <2>14. sent' - boot'.sent = begun
    BY <2>2
  <2>15. Sync(ds, (got \o cut) \o R, e, Cardinality(Spoilt(x)), cuts, begun, passed)
    BY <2>7
  <2> HIDE DEF R, e, k, r, h, x, en, begun, passed, c2
  <2>16. /\ Spoils(x, Run(e, got).raws) <= c2
         /\ \E f \in Decoder :
               Sync(f, R, Run(e, got).dec, Spoils(x, Run(e, got).raws), c2, begun,
                    passed + Len(Run(e, got).raws) + Cardinality(Ends(cut)) + (c2 - cuts))
    BY <2>5, <2>x, <2>12, <2>13, <2>15, SyncRead
  <2>17. PICK f \in Decoder :
               Sync(f, R, r.dec, Spoils(x, k), c2, begun, passed + Len(k) + en + (c2 - cuts))
    BY <2>8, <2>16 DEF en
  <2>18. Sync(f, Rest', Held'.dec, Spoils(out', Held'.raws), cuts', sent' - boot'.sent, Accounted')
    BY <2>4, <2>9, <2>11, <2>14, <2>17 DEF R, c2
  <2>19. Spoils(out', Held'.raws) <= cuts'
    BY <2>8, <2>9, <2>16 DEF c2
  <2> QED BY <2>18, <2>19
<1>4. CASE Eagain
  BY <1>4, SyncTrackKept DEF Eagain
<1>5. CASE ReadError
  BY <1>5, SyncTrackKept DEF ReadError
<1>6. CASE Decode
  <2>1. PICK one \in {hdlc_decode_one(recv_decoder, recv_buf)} :
          /\ recv_buf' = one.ring
          /\ recv_decoder' = one.dec
          /\ IF ~one.found THEN pc' = "read" /\ UNCHANGED out
             ELSE IF msglen(one.raw) < 0 THEN pc' = "crashed" /\ UNCHANGED out
             ELSE pc' = "decode" /\ out' = Append(out, Message(one.raw))
    BY <1>6 DEF Decode, dm_broadcast
  <2>2. pc = "decode" /\ UNCHANGED <<apps_hdlc_encode, up, sent, tx, packets, cuts, missed, boot>>
    BY <1>6 DEF Decode, dm_broadcast
  <2> SUFFICES ASSUME pc' # "crashed", ~apps_hdlc_encode
               PROVE  /\ Spoils(out', Held'.raws) = Spoils(out, h)
                      /\ Held'.dec = Held.dec
                      /\ Len(out') + Len(Held'.raws) = Len(out) + Len(h)
    <3>1. ASSUME ~apps_hdlc_encode', pc' # "crashed" PROVE ~apps_hdlc_encode /\ pc # "crashed"
      BY <2>2, <3>1
    <3>2. Rest' = Rest
      BY <2>2 DEF Rest
    <3>3. ASSUME /\ Spoils(out', Held'.raws) = Spoils(out, h)
                 /\ Held'.dec = Held.dec
                 /\ Len(out') + Len(Held'.raws) = Len(out) + Len(h)
          PROVE  Accounted' = Accounted
      <4>1. Accounted' = Len(out') + Len(Held'.raws) - boot'.out + missed' + cuts'
        BY DEF Accounted
      <4>2. Accounted = Len(out) + Len(h) - boot.out + missed + cuts
        BY DEF Accounted
      <4>3. boot' = boot /\ missed' = missed /\ cuts' = cuts
        BY <2>2
      <4> DEFINE a1 == Len(out')
                 a2 == Len(Held'.raws)
                 b1 == Len(out)
                 b2 == Len(h)
                 bo == boot.out
      <4>4. a1 + a2 = b1 + b2
        BY <3>3
      <4>5. b1 \in Nat /\ b2 \in Nat /\ bo \in Nat
        BY <1>0, <1>a
      <4>6. a1 \in Nat /\ a2 \in Nat
        <5>1. TypeOK'
          BY NextType
        <5> QED BY <5>1, HeldTypeNext
      <4>7. Accounted' = a1 + a2 - bo + missed + cuts /\ Accounted = b1 + b2 - bo + missed + cuts
        BY <4>1, <4>2, <4>3
      <4> HIDE DEF a1, a2, b1, b2, bo
      <4> QED BY <1>0, <4>4, <4>5, <4>6, <4>7
    <3> QED BY <2>2, <3>1, <3>2, <3>3 DEF SyncTrack
  <2>3. one = hdlc_decode_one(recv_decoder, recv_buf)
    BY <2>1
  <2> DEFINE w == Run(one.dec, Unread(one.ring))
             k == w.raws
  <2>4. /\ one.ring \in Ring /\ one.dec \in Decoder /\ one.raw \in Seq(Byte)
        /\ Held.dec = w.dec
        /\ h = IF one.found THEN <<one.raw>> \o k ELSE k
        /\ one.found \in BOOLEAN
    BY <1>0, <2>3, DecodeOneTakes DEF Held
  <2>5. k \in Seq(Seq(Byte))
    BY <2>4, UnreadType, RunType
  <2>6. Held' = w
    BY <2>1 DEF Held
  <2> HIDE DEF w, h
  <2>7. CASE ~one.found
    <3>1. out' = out /\ h = k
      BY <2>1, <2>4, <2>7
    <3> QED BY <2>4, <2>6, <3>1
  <2>8. CASE one.found
    <3> DEFINE g == one.raw
               m == Message(g)
               y == <<g>>
               z == <<m>>
               mk == MessagesOf(k)
    <3>1. out' = Append(out, m) /\ h = y \o k
      BY <2>1, <2>4, <2>8
    <3>2. g \in Seq(Byte) /\ m \in Seq(Byte)
      BY <2>4, MessageType
    <3>3. y \in Seq(Seq(Byte)) /\ z \in Seq(Seq(Byte)) /\ Len(y) = 1
      BY <3>2
    <3>4. MessagesOf(y) = z
      <4>1. MessagesOf(y) = <<MessageBytes[g]>>
        BY <3>2, BytesType, ImageOne DEF MessagesOf
      <4> QED BY <3>2, <4>1, BytesType
    <3>5. mk \in Seq(Seq(Byte))
      BY <2>5, MessagesOfType
    <3>6. Append(out, m) = out \o z
      <4> HIDE DEF m
      <4> QED BY <1>0, <3>2, AppendIsConcat
    <3> HIDE DEF g, m, y, z, k, mk
    <3>7. MessagesOf(y \o k) = z \o mk
      <4>1. y \in Seq(Seq(Byte)) /\ k \in Seq(Seq(Byte))
        BY <2>5, <3>3
      <4>2. MessagesOf(y \o k) = MessagesOf(y) \o MessagesOf(k)
        BY <4>1, MessagesConcat
      <4> QED BY <3>4, <4>2 DEF mk
    <3>8. out \o (z \o mk) = (out \o z) \o mk
      BY ZenonT(30), <1>0, <3>3, <3>5, Regroup
    <3>9. Spoils(out', k) = Spoils(out, h)
      BY <3>1, <3>6, <3>7, <3>8 DEF Spoils, mk
    <3>10. Len(Append(out, m)) = Len(out) + 1
      BY <1>0, <3>2, AppendProperties
    <3>11. Len(y \o k) = 1 + Len(k) /\ Len(k) \in Nat
      BY ZenonT(30), <2>5, <3>3, ConcatProperties, LenProperties
    <3>12. Len(out') + Len(k) = Len(out) + Len(h)
      BY <1>0, <3>1, <3>10, <3>11
    <3> QED BY <2>4, <2>6, <3>9, <3>12 DEF k
  <2> QED BY <2>4, <2>7, <2>8
<1>7. CASE diag_data_recv_raw
  <2>1. apps_hdlc_encode
    BY <1>7 DEF diag_data_recv_raw, Shape
  <2>2. apps_hdlc_encode' = apps_hdlc_encode
    BY <1>7 DEF diag_data_recv_raw, dm_broadcast
  <2> QED BY <2>1, <2>2 DEF SyncTrack
<1>8. CASE diag_cmd_recv
  BY <1>8, SyncTrackKept DEF diag_cmd_recv
<1>9. CASE diag_cmd_recv_Error
  BY <1>9, SyncTrackKept DEF diag_cmd_recv_Error
<1>10. CASE Begin
  <2>1. /\ up /\ UNCHANGED <<apps_hdlc_encode, recv_buf, recv_decoder, pc, out, up, cuts, missed,
                             boot>>
    BY <1>10 DEF Begin
  <2> SUFFICES ASSUME ~apps_hdlc_encode, pc # "crashed"
               PROVE  \E ds \in Decoder :
                         Sync(ds, Rest', Held.dec, Spoils(out, h), cuts, sent' - boot.sent, Accounted)
    BY <2>1 DEF SyncTrack, Held, Accounted
  <2> DEFINE m == Script[sent + 1]
  <2>2. sent' = sent + 1 /\ sent < Len(Script) /\ m \in Seq(Byte)
    BY <1>10, BeginAdds
  <2>3. PICK g : /\ g = hdlc_encode(m) \/ g = <<NHDLC_CONTROL_CHAR>> \o hdlc_encode(m)
                 /\ g \in Seq(Byte)
                 /\ Rest' = Rest \o g
    BY <1>10, BeginAdds
  <2>4. m \in ToSet(Script)
    <3>1. Len(Script) \in Nat
      BY <1>0, LenProperties
    <3>2. sent + 1 \in 1..Len(Script)
      BY <1>0, <2>2, <3>1
    <3> QED BY <3>2, InScript
  <2>5. PICK ds \in Decoder :
           Sync(ds, Rest, Held.dec, Spoils(out, h), cuts, sent - boot.sent, Accounted)
    BY <2>1 DEF SyncTrack
  <2> DEFINE begun == sent - boot.sent
             e == Held.dec
             s == Spoils(out, h)
             R == Rest
             p == Accounted
  <2>6. sent' - boot.sent = begun + 1
    <3> DEFINE b == boot.sent
    <3>1. b \in Nat /\ sent \in Nat
      BY <1>0
    <3> HIDE DEF b
    <3>2. (sent + 1) - b = (sent - b) + 1
      BY <3>1
    <3> QED BY <2>2, <3>2 DEF b
  <2>7. begun \in Int /\ p \in Int /\ R \in Seq(Byte)
    BY <1>a, <1>c
  <2>8. Sync(ds, R, e, s, cuts, begun, p)
    BY <2>5
  <2> HIDE DEF begun, e, s, R, m, p
  <2>9. Sync(ds, R \o g, e, s, cuts, begun + 1, p)
    BY <2>2, <2>3, <2>4, <2>7, <2>8, SyncBegin
  <2> QED BY <2>3, <2>6, <2>9 DEF e, s, R, p
<1>11. CASE Transmit
  <2>1. UNCHANGED <<apps_hdlc_encode, recv_buf, recv_decoder, pc, out, up, sent, cuts, missed, boot>>
    BY <1>11 DEF Transmit
  <2>2. Rest' = Rest
    BY <1>11, TransmitMoves
  <2> QED BY <2>1, <2>2 DEF SyncTrack, Held, Accounted
<1>12. CASE TransmitRaw
  <2>1. apps_hdlc_encode /\ apps_hdlc_encode' = apps_hdlc_encode
    BY <1>12 DEF TransmitRaw
  <2> QED BY <2>1 DEF SyncTrack
<1>13. CASE Answer
  BY <1>13, SyncTrackKept DEF Answer
<1>14. CASE Down
  <2>1. UNCHANGED <<apps_hdlc_encode, recv_buf, recv_decoder, pc, out, cuts>> /\ up' = FALSE
    BY <1>14 DEF Down
  <2> QED BY <2>1 DEF SyncTrack, Held
<1>15. CASE Reopen
  <2>1. /\ pc = "closed" /\ ~up /\ boot' = Booted /\ recv_buf' = FreshRing
        /\ recv_decoder' = FreshDecoder
        /\ UNCHANGED <<apps_hdlc_encode, out, sent, packets, tx, cuts, missed>>
    BY <1>15 DEF Reopen
  <2> SUFFICES ASSUME ~apps_hdlc_encode
               PROVE  /\ Spoils(out', Held'.raws) <= cuts'
                      /\ Sync(FreshDecoder, Rest', Held'.dec, Spoils(out', Held'.raws), cuts',
                              sent' - boot'.sent, Accounted')
    BY <2>1, FreshType DEF SyncTrack
  <2>2. packets = <<>> /\ tx = <<>>
    BY <2>1 DEF Shape
  <2> DEFINE z == <<>>
             s == Cardinality(Spoilt(out))
  <2>3. Rest' = z
    <3>1. Joined(z) = z /\ z \o z = z
      BY JoinedNone
    <3> QED BY <2>1, <2>2, <3>1 DEF Rest
  <2>4. Held'.dec = FreshDecoder /\ Held'.raws = z
    BY <2>1, FreshHeld DEF Held
  <2>5. Spoils(out', Held'.raws) = s
    BY <1>0, <2>1, <2>4, SpoilsNothing
  <2>6. s <= cuts
    <3>1. s <= Cardinality(Spoilt(out \o MessagesOf(h)))
      <4> DEFINE mh == MessagesOf(h)
      <4>1. mh \in Seq(Seq(Byte))
        BY <1>a
      <4> HIDE DEF mh
      <4>2. Cardinality(Spoilt(out)) <= Cardinality(Spoilt(out \o mh))
        BY <1>0, <4>1, SpoiltConcat
      <4> QED BY <4>2 DEF mh
    <3>2. Spoils(out, h) <= cuts
      BY <2>1 DEF SyncTrack
    <3>3. s \in Nat
      BY <1>0, SpoiltType
    <3> HIDE DEF s, h
    <3> QED BY <1>0, <1>a, <1>b, <3>1, <3>2, <3>3
  <2>7. sent' - boot'.sent = 0 /\ Accounted' = missed + cuts
    <3>1. boot'.sent = sent /\ boot'.out = Len(out)
      BY <2>1 DEF Booted
    <3>2. Accounted' = Len(out') + Len(Held'.raws) - boot'.out + missed' + cuts'
      BY DEF Accounted
    <3>3. Accounted' = Len(out) + 0 - Len(out) + missed + cuts
      BY <2>1, <2>4, <3>1, <3>2
    <3> QED BY <1>0, <2>1, <3>1, <3>3
  <2>8. s \in Nat /\ missed + cuts \in Nat
    BY <1>0, SpoiltType
  <2> HIDE DEF z, s
  <2>9. Sync(FreshDecoder, z, FreshDecoder, s, cuts, 0, missed + cuts)
    BY <1>0, <2>6, <2>8, SyncStarts DEF z
  <2> QED BY <2>1, <2>3, <2>4, <2>5, <2>6, <2>7, <2>9
<1>16. CASE UNCHANGED vars
  BY <1>16, SyncTrackKept DEF vars
<1>17. CASE Drain
  BY <1>17, SyncTrackKept DEF Drain
<1> QED
  BY <1>1, <1>2, <1>3, <1>4, <1>5, <1>6, <1>7, <1>8, <1>9, <1>10, <1>11, <1>12, <1>13,
     <1>14, <1>15, <1>16, <1>17 DEF Next, RouterStep, Environment

\* The same where the router encodes: a packet is a message, whole or cut.
RawSync ==
    apps_hdlc_encode =>
        /\ Cardinality(Spoilt(out)) <= cuts
        /\ \A i \in 1..Len(packets) : packets[i] \in ToSet(Script)
        /\ up => Len(out) + Len(packets) - boot.out = sent - boot.sent

LEMMA RawSyncInit == Init => RawSync
<1> SUFFICES ASSUME Init PROVE RawSync
  OBVIOUS
<1> DEFINE z == <<>>
<1>1. out = z /\ packets = z /\ boot.sent = 0 /\ boot.out = 0 /\ sent = 0 /\ cuts = 0
  BY DEF Init
<1>2. Len(z) = 0 /\ Cardinality(Spoilt(z)) = 0
  BY SpoiltNothing
<1> HIDE DEF z
<1> QED BY <1>1, <1>2 DEF RawSync

LEMMA RawSyncKept ==
    ASSUME RawSync, UNCHANGED <<apps_hdlc_encode, out, up, sent, packets, cuts, boot>>
    PROVE  RawSync'
BY DEF RawSync

LEMMA RawSyncNext == TypeOK /\ Shape /\ RawSync /\ [Next]_vars => RawSync'
<1> SUFFICES ASSUME TypeOK, Shape, RawSync, [Next]_vars PROVE RawSync'
  OBVIOUS
<1> USE DEF perif, subsystem, command, history
<1>0. /\ out \in Seq(Seq(Byte)) /\ packets \in Seq(Seq(Byte)) /\ tx \in Seq(Byte)
      /\ Script \in Seq(Seq(Byte)) /\ sent \in Nat /\ boot.sent \in Nat /\ boot.out \in Nat
      /\ boot.sent <= sent /\ boot.out <= Len(out) /\ cuts \in Nat /\ RAW_SIZE \in Nat
      /\ Len(out) \in Nat /\ Len(packets) \in Nat /\ Cardinality(Spoilt(out)) \in Nat
  BY DataChannelAssumption, LenProperties, SpoiltType DEF TypeOK, Shape
<1>1. CASE diag_data_recv
  BY <1>1, RawSyncKept DEF diag_data_recv
<1>2. CASE circ_read_Full
  BY <1>2, RawSyncKept DEF circ_read_Full
<1>3. CASE circ_read
  <2>1. ~apps_hdlc_encode /\ apps_hdlc_encode' = apps_hdlc_encode
    BY <1>3 DEF circ_read, Shape
  <2> QED BY <2>1 DEF RawSync
<1>4. CASE Eagain
  BY <1>4, RawSyncKept DEF Eagain
<1>5. CASE ReadError
  BY <1>5, RawSyncKept DEF ReadError
<1>6. CASE Decode
  <2>1. ~apps_hdlc_encode /\ apps_hdlc_encode' = apps_hdlc_encode
    BY <1>6 DEF Decode, Shape
  <2> QED BY <2>1 DEF RawSync
<1>7. CASE diag_data_recv_raw
  <2> SUFFICES ASSUME apps_hdlc_encode' PROVE RawSync'
    BY DEF RawSync
  <2> DEFINE p == Head(packets)
             g == Got(p, RAW_SIZE)
             R == Tail(packets)
             y == Append(out, g)
             b == boot.out
             d == sent - boot.sent
  <2>1. /\ packets # <<>> /\ packets' = R /\ up' = up /\ up /\ apps_hdlc_encode
        /\ out' = y
        /\ cuts' = cuts + (IF Lost(p, RAW_SIZE) THEN 1 ELSE 0)
        /\ UNCHANGED <<sent, boot>>
    BY <1>7 DEF diag_data_recv_raw, dm_broadcast
  <2>2. /\ p \in Seq(Byte) /\ Len(R) = Len(packets) - 1 /\ p = packets[1]
        /\ \A i \in 1..Len(R) : R[i] = packets[i + 1]
    <3>1. p = packets[1]
      BY SMTT(30) DEF Head
    <3> QED BY <1>0, <2>1, <3>1, HeadTailProperties
  <2>3. g \in Seq(Byte) /\ (~Lost(p, RAW_SIZE) => g = p) /\ Lost(p, RAW_SIZE) \in BOOLEAN
    BY <1>0, <2>2, GotSplits
  <2>4. \A i \in 1..Len(packets) : packets[i] \in ToSet(Script)
    BY <2>1 DEF RawSync
  <2>5. Len(packets) > 0
    BY <1>0, <2>1, EmptySeq
  <2>6. p \in ToSet(Script)
    BY <1>0, <2>2, <2>4, <2>5
  <2>7. \A i \in 1..Len(R) : R[i] \in ToSet(Script)
    <3> SUFFICES ASSUME NEW i \in 1..Len(R) PROVE R[i] \in ToSet(Script)
      OBVIOUS
    <3>1. i + 1 \in 1..Len(packets)
      BY <1>0, <2>2
    <3> QED BY <2>2, <2>4, <3>1
  <2> HIDE DEF g, p, R
  <2>8. Len(y) = Len(out) + 1
    BY <1>0, <2>3, AppendProperties
  <2>9. /\ Cardinality(Spoilt(y)) <= Cardinality(Spoilt(out)) + 1
        /\ g \in ToSet(Script) => Cardinality(Spoilt(y)) <= Cardinality(Spoilt(out))
    BY <1>0, <2>3, SpoiltAppend
  <2>10. y \in Seq(Seq(Byte))
    BY <1>0, <2>3, AppendProperties
  <2>11. Cardinality(Spoilt(y)) \in Nat
    BY <2>10, SpoiltType
  <2>12. Cardinality(Spoilt(out)) <= cuts
    BY <2>1 DEF RawSync
  <2>13. Cardinality(Spoilt(y)) <= cuts'
    <3>1. CASE Lost(p, RAW_SIZE)
      <4>1. cuts' = cuts + 1
        BY <2>1, <3>1
      <4> QED BY <1>0, <2>9, <2>11, <2>12, <4>1
    <3>2. CASE ~Lost(p, RAW_SIZE)
      <4>1. cuts' = cuts + 0
        BY <2>1, <3>2
      <4>2. Cardinality(Spoilt(y)) <= Cardinality(Spoilt(out))
        BY <2>3, <2>6, <2>9, <3>2
      <4> QED BY <1>0, <2>11, <2>12, <4>1, <4>2
    <3> QED BY <3>1, <3>2
  <2>14. Len(out) + Len(packets) - b = d
    BY <2>1 DEF RawSync
  <2>15. b \in Nat
    BY <1>0
  <2> HIDE DEF y, b, d
  <2>16. Len(y) + Len(R) - b = d
    BY <1>0, <2>2, <2>8, <2>14, <2>15
  <2> QED BY <2>1, <2>7, <2>13, <2>16 DEF RawSync, b, d
<1>8. CASE diag_cmd_recv
  BY <1>8, RawSyncKept DEF diag_cmd_recv
<1>9. CASE diag_cmd_recv_Error
  BY <1>9, RawSyncKept DEF diag_cmd_recv_Error
<1>10. CASE Begin
  BY <1>10 DEF Begin, RawSync
<1>11. CASE Transmit
  <2>1. PICK n \in 1..Len(tx) : TRUE
    BY <1>11 DEF Transmit
  <2>2. tx # <<>>
    BY <2>1
  <2>3. ~apps_hdlc_encode /\ apps_hdlc_encode' = apps_hdlc_encode
    BY <1>11, <2>2 DEF Transmit, Shape
  <2> QED BY <2>3 DEF RawSync
<1>12. CASE TransmitRaw
  <2> SUFFICES ASSUME apps_hdlc_encode' PROVE RawSync'
    BY DEF RawSync
  <2> DEFINE m == Script[sent + 1]
             y == Append(packets, m)
             b == boot.out
             e == boot.sent
  <2>1. /\ up /\ up' = up /\ sent < Len(Script) /\ sent' = sent + 1 /\ apps_hdlc_encode
        /\ packets' = y
        /\ UNCHANGED <<out, cuts, boot>>
    BY <1>12 DEF TransmitRaw
  <2>2. m \in Seq(Byte) /\ m \in ToSet(Script)
    <3>1. Len(Script) \in Nat
      BY <1>0, LenProperties
    <3>2. sent + 1 \in 1..Len(Script)
      BY <1>0, <2>1, <3>1
    <3> QED BY <1>0, <3>2, ElementOfSeq, InScript
  <2> HIDE DEF m
  <2>3. /\ Len(y) = Len(packets) + 1 /\ y[Len(packets) + 1] = m
        /\ \A i \in 1..Len(packets) : y[i] = packets[i]
    BY <1>0, <2>2, AppendProperties
  <2> HIDE DEF y
  <2>4. \A i \in 1..Len(packets) : packets[i] \in ToSet(Script)
    BY <2>1 DEF RawSync
  <2>5. \A i \in 1..Len(y) : y[i] \in ToSet(Script)
    <3> SUFFICES ASSUME NEW i \in 1..Len(y) PROVE y[i] \in ToSet(Script)
      OBVIOUS
    <3>1. CASE i = Len(packets) + 1
      BY <2>2, <2>3, <3>1
    <3>2. CASE i # Len(packets) + 1
      <4>1. i \in 1..Len(packets)
        BY <1>0, <2>3, <3>2
      <4> QED BY <2>3, <2>4, <4>1
    <3> QED BY <3>1, <3>2
  <2>6. Len(out) + Len(packets) - b = sent - e /\ Cardinality(Spoilt(out)) <= cuts
    BY <2>1 DEF RawSync
  <2>7. b \in Nat /\ e \in Nat
    BY <1>0
  <2> HIDE DEF b, e
  <2>8. Len(out) + Len(y) - b = (sent + 1) - e
    BY SMTT(30), <1>0, <2>3, <2>6, <2>7
  <2> QED BY <2>1, <2>5, <2>6, <2>8 DEF RawSync, b, e
<1>13. CASE Answer
  BY <1>13, RawSyncKept DEF Answer
<1>14. CASE Down
  <2>1. up' = FALSE /\ packets' = <<>> /\ UNCHANGED <<apps_hdlc_encode, out, cuts>>
    BY <1>14 DEF Down
  <2> QED BY <2>1 DEF RawSync
<1>15. CASE Reopen
  <2>1. /\ ~up /\ boot' = Booted /\ UNCHANGED <<apps_hdlc_encode, out, sent, packets, cuts>>
    BY <1>15 DEF Reopen
  <2>2. packets = <<>>
    BY <2>1 DEF Shape
  <2>3. boot'.sent = sent /\ boot'.out = Len(out)
    BY <2>1 DEF Booted
  <2>4. Len(packets) = 0
    BY <2>2
  <2>5. Len(out) + Len(packets) - Len(out) = 0 /\ sent - sent = 0
    BY <1>0, <2>4
  <2>6. Len(out') + Len(packets') - boot'.out = sent' - boot'.sent
    BY <2>1, <2>3, <2>5
  <2> QED BY <2>1, <2>6 DEF RawSync
<1>16. CASE UNCHANGED vars
  BY <1>16, RawSyncKept DEF vars
<1>17. CASE Drain
  BY <1>17, RawSyncKept DEF Drain
<1> QED
  BY <1>1, <1>2, <1>3, <1>4, <1>5, <1>6, <1>7, <1>8, <1>9, <1>10, <1>11, <1>12, <1>13,
     <1>14, <1>15, <1>16, <1>17 DEF Next, RouterStep, Environment

InStep == TypeOK /\ Shape /\ SyncTrack /\ RawSync

LEMMA InStepResynchronises == InStep => Resynchronises
<1> SUFFICES ASSUME InStep, pc # "crashed"
             PROVE  /\ Cardinality(Damaged) <= cuts
                    /\ up => (Len(out) - boot.out) + Len(InTransit) + missed + cuts
                                >= sent - boot.sent
  BY DEF Resynchronises
<1>0. /\ TypeOK /\ Shape /\ out \in Seq(Seq(Byte)) /\ boot.out \in Nat /\ sent \in Nat
      /\ boot.sent \in Nat /\ recv_decoder \in Decoder /\ packets \in Seq(Seq(Byte))
      /\ cuts \in Nat /\ missed \in Nat /\ Len(out) \in Nat /\ Len(packets) \in Nat
      /\ Cardinality(Spoilt(out)) \in Nat
  BY LenProperties, SpoiltType DEF InStep, TypeOK
<1>1. Damaged = Spoilt(out)
  BY DEF Damaged, Spoilt
<1>2. up => pc # "closed"
  BY <1>0 DEF Shape
<1> DEFINE b == boot.out
           d == sent - boot.sent
<1>3. b \in Nat
  BY <1>0
<1>4. CASE apps_hdlc_encode
  <2>1. Cardinality(Spoilt(out)) <= cuts /\ (up => Len(out) + Len(packets) - b = d)
    BY <1>4 DEF InStep, RawSync
  <2>2. up => InTransit = packets
    BY <1>2, <1>4 DEF InTransit
  <2>3. d \in Int
    BY <1>0
  <2> HIDE DEF b, d
  <2>4. up => (Len(out) - b) + Len(InTransit) + missed + cuts >= d
    <3> SUFFICES ASSUME up PROVE (Len(out) - b) + Len(packets) + missed + cuts >= d
      BY <2>2
    <3> QED BY <1>0, <1>3, <2>1, <2>3
  <2> QED BY <1>1, <2>1, <2>4 DEF b, d
<1>5. CASE ~apps_hdlc_encode
  <2> DEFINE h == Held.raws
             U == Unread(recv_buf)
             e == Held.dec
             w == Run(e, Rest)
  <2>1. /\ e \in Decoder /\ h \in Seq(Seq(Byte)) /\ Len(h) \in Nat /\ Spoils(out, h) \in Nat
        /\ MessagesOf(h) \in Seq(Seq(Byte))
    BY <1>0, HeldType
  <2>2. Rest \in Seq(Byte) /\ U \in Seq(Byte)
        /\ Unread(recv_buf) \o Joined(packets) \o tx = U \o Rest
    BY <1>0, RestType
  <2>3. Spoils(out, h) <= cuts
    BY <1>5 DEF InStep, SyncTrack
  <2>4. Cardinality(Damaged) <= cuts
    <3> DEFINE mh == MessagesOf(h)
    <3>1. mh \in Seq(Seq(Byte))
      BY <2>1
    <3>2. Spoils(out, h) = Cardinality(Spoilt(out \o mh))
      BY DEF Spoils
    <3> HIDE DEF mh, h
    <3>3. Cardinality(Spoilt(out)) <= Cardinality(Spoilt(out \o mh))
      BY <1>0, <3>1, SpoiltConcat
    <3> QED BY <1>0, <1>1, <2>1, <2>3, <3>2, <3>3
  <2>5. ASSUME up PROVE (Len(out) - b) + Len(InTransit) + missed + cuts >= d
    <3>1. InTransit = Messages(recv_decoder, U \o Rest)
      BY <1>2, <1>5, <2>2, <2>5 DEF InTransit
    <3>2. U \o Rest \in Seq(Byte)
      BY <2>2, ConcatProperties
    <3>3. Len(InTransit) = Len(Run(recv_decoder, U \o Rest).raws)
      <4> DEFINE s == U \o Rest
      <4> HIDE DEF s
      <4>1. Len(Messages(recv_decoder, s)) = Len(Run(recv_decoder, s).raws)
        BY <1>0, <3>2, MessagesIs DEF s
      <4> QED BY <3>1, <4>1 DEF s
    <3>4. Run(recv_decoder, U \o Rest).raws = h \o w.raws
      <4>1. Run(recv_decoder, U \o Rest).raws
               = Run(recv_decoder, U).raws \o Run(Run(recv_decoder, U).dec, Rest).raws
        BY <1>0, <2>2, RunConcat
      <4> QED BY <4>1 DEF Held
    <3>5. w.raws \in Seq(Seq(Byte))
      BY <2>1, <2>2, RunType
    <3>6. Len(InTransit) = Len(h) + Len(w.raws) /\ Len(w.raws) \in Nat
      <4> DEFINE k == w.raws
      <4>1. k \in Seq(Seq(Byte)) /\ h \in Seq(Seq(Byte)) /\ Len(InTransit) = Len(h \o k)
        BY <2>1, <3>3, <3>4, <3>5
      <4> HIDE DEF k, h
      <4>2. Len(h \o k) = Len(h) + Len(k) /\ Len(k) \in Nat
        BY <4>1, ConcatProperties, LenProperties
      <4> QED BY <4>1, <4>2 DEF k
    <3>7. PICK ds \in Decoder :
             Sync(ds, Rest, e, Spoils(out, h), cuts, d, Accounted)
      BY <1>5, <2>5 DEF InStep, SyncTrack
    <3> DEFINE v == Strict(ds, Rest)
               g0 == Gap(e, ds)
               g1 == Gap(w.dec, v.dec)
    <3>8. Good(v.raws) /\ d + g0 <= Accounted + Len(v.raws)
      BY <3>7 DEF Sync
    <3>9. Len(v.raws) + g1 <= Len(w.raws) + g0
      <4>1. <<>> \in Seq(Seq(Byte))
        OBVIOUS
      <4> HIDE DEF e
      <4>2. e \in Decoder /\ Rest \in Seq(Byte) /\ Good(Strict(ds, Rest).raws)
        BY <2>1, <2>2, <3>8
      <4> QED BY <4>1, <4>2, StreamTracks
    <3>10. g0 \in {0, 1} /\ g1 \in {0, 1} /\ Len(v.raws) \in Nat
      <4>1. v.raws \in Seq(Seq(Byte))
        BY <2>2, StrictType
      <4> QED BY <4>1, CreditType, LenProperties
    <3>11. Accounted = Len(out) + Len(h) - b + missed + cuts
      BY DEF Accounted
    <3>12. d \in Int
      BY <1>0
    <3> DEFINE lt == Len(InTransit)
               lw == Len(w.raws)
               lv == Len(v.raws)
               lh == Len(h)
               lo == Len(out)
    <3>13. /\ lt = lh + lw /\ lw \in Nat /\ lv \in Nat /\ lh \in Nat /\ lo \in Nat
           /\ lv + g1 <= lw + g0 /\ d + g0 <= (lo + lh - b + missed + cuts) + lv
      BY <1>0, <2>1, <3>6, <3>8, <3>9, <3>10, <3>11
    <3> HIDE DEF lt, lw, lv, lh, lo, g0, g1, b, d
    <3>14. (lo - b) + lt + missed + cuts >= d
      BY <1>0, <1>3, <3>10, <3>12, <3>13
    <3> QED BY <3>14 DEF lo, lt
  <2> QED BY <2>4, <2>5
<1> QED BY <1>4, <1>5

\* Where a packet loses its end, for want of space in the ring or in the buffer of
\* diag_data_recv_raw, at most one message is damaged and, besides the messages
\* that end in the lost part, at most one is missing: the decoder of the router is
\* in step again at the next end of frame.
THEOREM LossesStaySmall == Spec => []Resynchronises
<1>1. Init => InStep
  BY InitType, ShapeInit, SyncTrackInit, RawSyncInit DEF InStep
<1>2. InStep /\ [Next]_vars => InStep'
  BY NextType, ShapeNext, SyncTrackNext, RawSyncNext DEF InStep
<1>3. InStep => Resynchronises
  BY InStepResynchronises
<1> QED BY <1>1, <1>2, <1>3, PTL DEF Spec
=============================================================================
