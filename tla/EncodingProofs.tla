--------------------------- MODULE EncodingProofs ---------------------------
(***************************************************************************)
(* Proofs about Encoding.tla, for every set of DMs, every size of buffer    *)
(* and every choice of commands: the recovery timers are what               *)
(* encode_hdlc_reset says, and the encodings of the DMs differ only while   *)
(* one of them runs.  If the commands fit, every variable keeps its type,   *)
(* and the commands of a host that nobody surprised arrive as they were     *)
(* sent.                                                                    *)
(***************************************************************************)
EXTENDS Encoding, HdlcProofs

\* What encode_type can be: a raw DM stays raw, the others never become it.
Types ==
    {types \in [Dm -> Encode] : /\ \A d \in Encoded : types[d] # "RAW"
                                /\ \A d \in Raw : types[d] = "RAW"}

\* The timer list and encode_hdlc_reset are well typed, and data is only decoded
\* for a DM that is encoded.
Shape ==
    /\ encode_type \in Types
    /\ encode_hdlc_reset \in [Dm -> BOOLEAN]
    /\ timers \in Seq(Dm)
    /\ pc \in {"circ_read", "decode", "hdlc"} => serving \in Encoded

\* The inductive invariant.
RecoveryInv == Shape /\ RecoveryArmed /\ OneEncoding

\* set_encode_type keeps raw DMs raw and makes all others the same.
LEMMA SetEncodeType ==
    ASSUME NEW types \in Types, NEW type \in {"HDLC", "NHDLC"}
    PROVE  /\ set_encode_type(types, type) \in Types
           /\ \A d \in Encoded : set_encode_type(types, type)[d] = type
<1>1. Encoded \subseteq Dm /\ Raw \subseteq Dm
  BY DEF Dm
<1>2. QED
  BY <1>1 DEF set_encode_type, Types, Encode

\* A command leaves the encodings, or it disables HDLC for all DMs.
LEMMA SwitchedTypes ==
    ASSUME NEW types \in Types, NEW rsp
    PROVE  /\ Switched(types, rsp) \in Types
           /\ \/ Switched(types, rsp) = types
              \/ \A d \in Encoded : Switched(types, rsp)[d] = "NHDLC"
<1>1. CASE rsp = "hdlc_disabled"
  BY <1>1, SetEncodeType DEF Switched
<1>2. CASE rsp # "hdlc_disabled"
  BY <1>2 DEF Switched
<1>3. QED
  BY <1>1, <1>2

\* Initially nothing is switched and no timer runs.
LEMMA InitRecovery == Init => RecoveryInv
<1> SUFFICES ASSUME Init PROVE RecoveryInv
  OBVIOUS
<1>1. Encoded \subseteq Dm /\ Raw \subseteq Dm /\ Encoded \cap Raw = {}
  BY EncodingAssumption DEF Dm
<1>2. Shape
  BY <1>1 DEF Init, Shape, Types, Encode
<1>3. RecoveryArmed
  BY DEF Init, RecoveryArmed
<1>4. OneEncoding
  BY <1>1 DEF Init, OneEncoding
<1>5. QED
  BY <1>2, <1>3, <1>4 DEF RecoveryInv

\* A command handled without a bad packet before it.
LEMMA HandledRecovery ==
    ASSUME RecoveryInv,
           NEW rsp, encode_type' = Switched(encode_type, rsp),
           UNCHANGED <<encode_hdlc_reset, timers>>,
           pc' \in {"circ_read", "decode", "hdlc"} => serving' \in Encoded
    PROVE  RecoveryInv'
<1>1. encode_type' \in Types /\ (\/ encode_type' = encode_type
                                 \/ \A d \in Encoded : encode_type'[d] = "NHDLC")
  BY SwitchedTypes DEF RecoveryInv, Shape
<1>2. Shape'
  BY <1>1 DEF RecoveryInv, Shape
<1>3. RecoveryArmed'
  BY DEF RecoveryInv, RecoveryArmed
<1>4. OneEncoding'
  BY <1>1 DEF RecoveryInv, OneEncoding
<1>5. QED
  BY <1>2, <1>3, <1>4 DEF RecoveryInv

\* diag_start_hdlc_recovery puts one encoded DM back to HDLC.
LEMMA RecoveredType ==
    ASSUME encode_type \in Types, NEW d \in Encoded
    PROVE  Recovered(d) \in Types
<1>0. d \in Dm
  BY DEF Dm
<1>1. [encode_type EXCEPT ![d] = "HDLC"] \in Types
  <2>1. d \notin Raw
    BY EncodingAssumption
  <2>2. Encoded \subseteq Dm /\ Raw \subseteq Dm
    BY DEF Dm
  <2> DEFINE types == [encode_type EXCEPT ![d] = "HDLC"]
  <2>4. types \in [Dm -> Encode]
    BY <1>0 DEF Types, Encode
  <2>5. \A e \in Encoded : types[e] # "RAW"
    BY <2>2 DEF Types
  <2>6. \A e \in Raw : types[e] = "RAW"
    BY <2>1, <2>2 DEF Types
  <2>7. QED
    BY <2>4, <2>5, <2>6 DEF Types
<1> QED
  BY <1>1 DEF Recovered

\* A bad packet: diag_start_hdlc_recovery, and then the command.
LEMMA BadPacketRecovery ==
    ASSUME RecoveryInv, NEW d \in Encoded,
           diag_start_hdlc_recovery(d),
           NEW rsp, encode_type' = Switched(Recovered(d), rsp),
           pc' = "dispatch"
    PROVE  RecoveryInv'
<1> USE DEF RecoveryInv
<1>0. d \in Dm
  BY DEF Dm
<1>1. Recovered(d) \in Types
  BY RecoveredType DEF Shape
<1>2. encode_type' \in Types /\ (\/ encode_type' = Recovered(d)
                                 \/ \A e \in Encoded : encode_type'[e] = "NHDLC")
  BY <1>1, SwitchedTypes
<1>3. /\ encode_hdlc_reset' \in [Dm -> BOOLEAN]
      /\ encode_hdlc_reset'[d]
      /\ \A e \in Dm \ {d} : encode_hdlc_reset'[e] = encode_hdlc_reset[e]
  BY <1>0 DEF diag_start_hdlc_recovery, Shape
<1>4. timers' \in Seq(Dm) /\ RecoveryArmed'
  <2>1. CASE encode_hdlc_reset[d]
    <3>1. timers' = timers /\ encode_hdlc_reset' = encode_hdlc_reset
      BY <2>1, <1>0 DEF diag_start_hdlc_recovery, Shape
    <3>2. QED
      BY <3>1 DEF RecoveryArmed, Shape
  <2>2. CASE ~encode_hdlc_reset[d]
    <3>1. timers' = Append(timers, d) /\ timers \in Seq(Dm)
      BY <2>2 DEF diag_start_hdlc_recovery, Shape
    <3>2. /\ timers' \in Seq(Dm)
          /\ Len(timers') = Len(timers) + 1
          /\ timers'[Len(timers) + 1] = d
          /\ \A i \in 1..Len(timers) : timers'[i] = timers[i]
      BY <3>1, <1>0
    <3>3. \A i \in 1..Len(timers) : timers[i] # d
      BY <2>2, <1>0 DEF RecoveryArmed
    <3>4. Len(timers) \in Nat
      BY <3>1
    <3>5. \A i, j \in 1..Len(timers') : timers'[i] = timers'[j] => i = j
      BY <3>2, <3>3, <3>4 DEF RecoveryArmed
    <3>6. \A e \in Dm :
             encode_hdlc_reset'[e] <=> \E i \in 1..Len(timers') : timers'[i] = e
      <4> SUFFICES ASSUME NEW e \in Dm
                   PROVE  encode_hdlc_reset'[e]
                              <=> \E i \in 1..Len(timers') : timers'[i] = e
        OBVIOUS
      <4>1. CASE e = d
        <5>1. Len(timers) + 1 \in 1..Len(timers')
          BY <3>2, <3>4
        <5>2. QED
          BY <4>1, <5>1, <3>2, <1>3
      <4>2. CASE e # d
        <5>1. (\E i \in 1..Len(timers') : timers'[i] = e)
                  <=> \E i \in 1..Len(timers) : timers[i] = e
          BY <4>2, <3>2, <3>4
        <5>2. QED
          BY <4>2, <5>1, <1>3 DEF RecoveryArmed
      <4>3. QED
        BY <4>1, <4>2
    <3>7. QED
      BY <3>2, <3>5, <3>6 DEF RecoveryArmed
  <2>3. QED
    BY <2>1, <2>2
<1>5. Shape'
  BY <1>2, <1>3, <1>4 DEF Shape
<1>6. OneEncoding'
  <2> SUFFICES ASSUME NEW e \in Encoded, NEW f \in Encoded,
                      encode_type'[e] = "HDLC", encode_type'[f] = "NHDLC"
               PROVE  encode_hdlc_reset'[e]
    BY DEF OneEncoding
  <2>0. e \in Dm /\ f \in Dm
    BY DEF Dm
  <2>1. CASE e = d
    BY <2>1, <1>3
  <2>2. CASE e # d
    <3>1. encode_type' = Recovered(d)
      BY <1>2
    <3>2. Recovered(d)[e] = encode_type[e]
      BY <2>0, <2>2 DEF Recovered, Shape, Types
    <3>3. Recovered(d)[f] = encode_type[f]
      <4>1. Recovered(d)[f] # "HDLC"
        BY <3>1
      <4>2. QED
        BY <4>1, <2>0, <1>0 DEF Recovered, Shape, Types
    <3>4. encode_hdlc_reset[e]
      BY <3>1, <3>2, <3>3 DEF OneEncoding
    <3>5. QED
      BY <3>4, <2>0, <2>2, <1>3
  <2>3. QED
    BY <2>1, <2>2
<1>7. QED
  BY <1>4, <1>5, <1>6

\* The timer: all DMs are back in HDLC, and the flag of the one it ran for is
\* cleared with it.
LEMMA TimerRecovery ==
    ASSUME RecoveryInv, Timer
    PROVE  RecoveryInv'
<1> USE DEF RecoveryInv
<1> DEFINE d == Head(timers)
<1>1. /\ timers \in Seq(Dm) /\ timers # <<>>
      /\ timers' = Tail(timers)
      /\ diag_hdlc_reset(d)
      /\ pc = "select" /\ pc' = pc
  BY DEF Timer, Shape, loop
<1>2. /\ d \in Dm /\ d = timers[1]
      /\ Len(timers) \in Nat \ {0}
      /\ timers' \in Seq(Dm)
      /\ Len(timers') = Len(timers) - 1
      /\ \A i \in 1..Len(timers') : timers'[i] = timers[i + 1]
  BY <1>1
<1>3. encode_type' \in Types /\ \A e \in Encoded : encode_type'[e] = "HDLC"
  BY <1>1, SetEncodeType DEF diag_hdlc_reset, Shape
<1>4. /\ encode_hdlc_reset' \in [Dm -> BOOLEAN]
      /\ ~encode_hdlc_reset'[d]
      /\ \A e \in Dm \ {d} : encode_hdlc_reset'[e] = encode_hdlc_reset[e]
  BY <1>1, <1>2 DEF diag_hdlc_reset, Shape
<1>5. RecoveryArmed'
  <2>1. \A i, j \in 1..Len(timers') : timers'[i] = timers'[j] => i = j
    <3> SUFFICES ASSUME NEW i \in 1..Len(timers'), NEW j \in 1..Len(timers'),
                        timers'[i] = timers'[j]
                 PROVE  i = j
      OBVIOUS
    <3>1. i + 1 \in 1..Len(timers) /\ j + 1 \in 1..Len(timers)
      BY <1>2
    <3>2. timers[i + 1] = timers[j + 1]
      BY <1>2
    <3>3. i + 1 = j + 1
      BY <3>1, <3>2 DEF RecoveryArmed
    <3>4. QED
      BY <3>3
  <2>2. \A e \in Dm :
           encode_hdlc_reset'[e] <=> \E i \in 1..Len(timers') : timers'[i] = e
    <3> SUFFICES ASSUME NEW e \in Dm
                 PROVE  encode_hdlc_reset'[e]
                            <=> \E i \in 1..Len(timers') : timers'[i] = e
      OBVIOUS
    <3>1. CASE e = d
      <4>1. \A i \in 1..Len(timers') : timers'[i] # d
        <5> SUFFICES ASSUME NEW i \in 1..Len(timers'), timers[i + 1] = timers[1]
                     PROVE  FALSE
          BY <1>2
        <5>1. 1 \in 1..Len(timers) /\ i + 1 \in 1..Len(timers) /\ i + 1 # 1
          BY <1>2
        <5>2. QED
          BY <5>1 DEF RecoveryArmed
      <4>2. QED
        BY <3>1, <4>1, <1>4
    <3>2. CASE e # d
      <4>1. ASSUME NEW i \in 1..Len(timers), timers[i] = e
            PROVE  \E k \in 1..Len(timers') : timers'[k] = e
        <5>1. i # 1
          BY <3>2, <4>1, <1>2
        <5>2. i - 1 \in 1..Len(timers') /\ (i - 1) + 1 = i
          BY <5>1, <1>2
        <5>3. timers'[i - 1] = e
          BY <5>2, <4>1, <1>2
        <5>4. QED
          BY <5>2, <5>3
      <4>2. ASSUME NEW k \in 1..Len(timers'), timers'[k] = e
            PROVE  \E i \in 1..Len(timers) : timers[i] = e
        <5>1. k + 1 \in 1..Len(timers) /\ timers[k + 1] = e
          BY <4>2, <1>2
        <5>2. QED
          BY <5>1
      <4>3. encode_hdlc_reset'[e] = encode_hdlc_reset[e]
        BY <3>2, <1>4
      <4>4. encode_hdlc_reset[e] <=> \E i \in 1..Len(timers) : timers[i] = e
        BY DEF RecoveryArmed
      <4>5. QED
        BY <4>1, <4>2, <4>3, <4>4
    <3>3. QED
      BY <3>1, <3>2
  <2>3. QED
    BY <2>1, <2>2 DEF RecoveryArmed
<1>6. Shape'
  BY <1>1, <1>2, <1>3, <1>4 DEF Shape
<1>7. OneEncoding'
  BY <1>3 DEF OneEncoding
<1>8. QED
  BY <1>5, <1>6, <1>7

\* Steps that leave encodings and timers alone.
LEMMA OtherRecovery ==
    ASSUME RecoveryInv, UNCHANGED dms,
           pc' \in {"circ_read", "decode", "hdlc"} => serving' \in Encoded
    PROVE  RecoveryInv'
BY DEF RecoveryInv, Shape, RecoveryArmed, OneEncoding, dms

\* Every step keeps the invariant.
LEMMA NextRecovery == RecoveryInv /\ [Next]_vars => RecoveryInv'
<1> SUFFICES ASSUME RecoveryInv, [Next]_vars PROVE RecoveryInv'
  OBVIOUS
<1>a. /\ pc \in {"circ_read", "decode", "hdlc"} => serving \in Encoded
      /\ Stream \subseteq Encoded /\ Usb \subseteq Encoded
  BY DEF RecoveryInv, Shape, Encoded
<1>1. CASE Select \/ DispatchDone
  BY <1>1, OtherRecovery DEF Select, DispatchDone
<1>2. CASE Timer
  BY <1>2, TimerRecovery
<1>3. ASSUME NEW d \in rfds, dm_recv_raw(d) PROVE RecoveryInv'
  <2>1. /\ encode_type' = Switched(encode_type, Response(Head(xfer[d]), Len(Head(xfer[d]))))
        /\ UNCHANGED <<encode_hdlc_reset, timers>>
        /\ pc = "dispatch" /\ pc' = pc
    BY <1>3 DEF dm_recv_raw, diag_client_handle_command, Serve
  <2>2. QED
    BY <2>1, HandledRecovery
<1>4. ASSUME NEW d \in rfds, diag_ffs_recv(d) \/ dm_recv_encoded(d) PROVE RecoveryInv'
  BY <1>4, <1>a, OtherRecovery DEF diag_ffs_recv, dm_recv_encoded
<1>5. CASE circ_read \/ circ_read_Done \/ circ_read_Error
  <2>1. UNCHANGED dms /\ pc = "circ_read" /\ serving' = serving
    BY <1>5 DEF circ_read, circ_read_Done, circ_read_Error
  <2>2. QED
    BY <2>1, <1>a, OtherRecovery
<1>6. CASE dm_recv_hdlc
  <2>1. UNCHANGED dms /\ pc = "decode" /\ serving' = serving
    BY <1>6 DEF dm_recv_hdlc
  <2>2. QED
    BY <2>1, <1>a, OtherRecovery
<1>7. CASE DecodeOne
  <2>1. PICK one : /\ UNCHANGED <<encode_hdlc_reset, timers, bad_cmd_counter>>
                   /\ pc = "hdlc" /\ serving' = serving
                   /\ \/ diag_client_handle_command(encode_type, serving, one.raw,
                                                    msglen(one.raw))
                      \/ UNCHANGED encode_type
    BY <1>7 DEF DecodeOne
  <2>2. CASE UNCHANGED encode_type
    BY <2>1, <2>2, <1>a, OtherRecovery DEF dms
  <2>3. CASE diag_client_handle_command(encode_type, serving, one.raw, msglen(one.raw))
    <3>1. encode_type' = Switched(encode_type, Response(one.raw, msglen(one.raw)))
      BY <2>3 DEF diag_client_handle_command
    <3>2. QED
      BY <3>1, <2>1, <1>a, HandledRecovery
  <2>4. QED
    BY <2>1, <2>2, <2>3
<1>8. CASE dm_recv_nhdlc
  <2>1. serving \in Encoded /\ pc' = "dispatch"
    BY <1>8, <1>a DEF dm_recv_nhdlc
  <2> DEFINE rsp == Response(PktData(recv_buf[serving].buf), PktLength(recv_buf[serving].buf))
  <2>2. \/ /\ encode_type' = Switched(encode_type, rsp)
           /\ UNCHANGED <<encode_hdlc_reset, timers>>
        \/ /\ diag_start_hdlc_recovery(serving)
           /\ encode_type' = Switched(Recovered(serving), rsp)
    BY <1>8 DEF dm_recv_nhdlc, diag_client_handle_command
  <2>3. QED
    BY <2>1, <2>2, HandledRecovery, BadPacketRecovery
<1>9. CASE Environment
  <2>1. UNCHANGED <<dms, loop>>
    BY <1>9 DEF Environment, HostSend, HostReceive, HostTimeout, HostClose, OthersChange
  <2>2. QED
    BY <2>1, <1>a, OtherRecovery DEF loop
<1>10. CASE UNCHANGED vars
  BY <1>10, <1>a, OtherRecovery DEF vars, loop, dms
<1>11. QED
  BY <1>1, <1>2, <1>3, <1>4, <1>5, <1>6, <1>7, <1>8, <1>9, <1>10
     DEF Next, RouterStep

\* encode_hdlc_reset of dm.c is exact: a DM has one recovery timer while it is set
\* and none otherwise.
THEOREM RecoveryTimersExact == Spec => []RecoveryArmed
<1>1. RecoveryInv => RecoveryArmed
  BY DEF RecoveryInv
<1>2. QED
  BY <1>1, InitRecovery, NextRecovery, PTL DEF Spec

\* set_encode_type and diag_start_hdlc_recovery leave encoded DMs with different
\* encodings only while the timer that ends it is running.
THEOREM EncodingsDifferOnlyInRecovery == Spec => []OneEncoding
<1>1. RecoveryInv => OneEncoding
  BY DEF RecoveryInv
<1>2. QED
  BY <1>1, InitRecovery, NextRecovery, PTL DEF Spec

-----------------------------------------------------------------------------
(* Frames that fit.                                                        *)

\* What hosts send has a length of 16 bits, and over USB fits a transfer: at
\* HDLC_BUF_SIZE bytes the head set by usb.c:286 would be no index of the buffer.
CommandsFit ==
    /\ \A d \in Encoded : \A m \in Cmd[d] : Len(m) < 65536
    /\ \A d \in Usb : \A m \in Cmd[d] : /\ Len(hdlc_encode(m)) < HDLC_BUF_SIZE
                                        /\ Len(nhdlc_frame(m)) < HDLC_BUF_SIZE

LEMMA LengthBytes ==
    ASSUME NEW n \in Nat, n < 65536
    PROVE  /\ n % 256 \in Byte /\ n \div 256 \in Byte
           /\ (n % 256) + 256 * (n \div 256) = n
<1>1. n % 256 \in 0..255 /\ n \div 256 \in Nat /\ n = 256 * (n \div 256) + (n % 256)
  OBVIOUS
<1>2. n \div 256 <= 255
  BY <1>1
<1> QED BY <1>1, <1>2 DEF Byte

\* A frame that is not HDLC, byte by byte.
LEMMA NhdlcFrame ==
    ASSUME NEW m \in Seq(Byte), Len(m) < 65536, NEW f, f = nhdlc_frame(m)
    PROVE  /\ f \in Seq(Byte) /\ Len(f) = Len(m) + 5
           /\ f[1] = NHDLC_CONTROL_CHAR
           /\ f[3] = Len(m) % 256 /\ f[4] = Len(m) \div 256
           /\ \A i \in 1..Len(m) : f[4 + i] = m[i]
           /\ f[Len(m) + 5] = NHDLC_CONTROL_CHAR
<1> DEFINE a == Len(m) % 256
           b == Len(m) \div 256
           h == <<NHDLC_CONTROL_CHAR, 1, a, b>>
           t == <<NHDLC_CONTROL_CHAR>>
<1>0. Len(m) \in Nat
  BY LenProperties
<1>1. a \in Byte /\ b \in Byte
  BY <1>0, LengthBytes
<1>2. 1 \in Byte /\ NHDLC_CONTROL_CHAR \in Byte
  BY DEF Byte, NHDLC_CONTROL_CHAR
<1> HIDE DEF a, b
<1>3. h \in Seq(Byte) /\ Len(h) = 4 /\ h[1] = NHDLC_CONTROL_CHAR /\ h[3] = a /\ h[4] = b
  BY <1>1, <1>2
<1>4. t \in Seq(Byte) /\ Len(t) = 1 /\ t[1] = NHDLC_CONTROL_CHAR
  BY <1>2
<1>5. f = (h \o m) \o t
  BY DEF nhdlc_frame, a, b
<1> HIDE DEF h, t
<1>6. h \in Seq(Byte)
  BY <1>3
<1>7. t \in Seq(Byte)
  BY <1>4
<1> DEFINE g == h \o m
           u == g \o t
<1>8. /\ g \in Seq(Byte) /\ Len(g) = Len(h) + Len(m)
      /\ \A i \in 1..(Len(h) + Len(m)) : g[i] = IF i <= Len(h) THEN h[i] ELSE m[i - Len(h)]
  BY <1>6, ConcatProperties
<1>9. f = u
  BY <1>5
<1> HIDE DEF g
<1>10. g \in Seq(Byte)
  BY <1>8
<1>11. /\ u \in Seq(Byte) /\ Len(u) = Len(g) + Len(t)
       /\ \A i \in 1..(Len(g) + Len(t)) : u[i] = IF i <= Len(g) THEN g[i] ELSE t[i - Len(g)]
  BY <1>7, <1>10, ConcatProperties
<1> HIDE DEF u
<1>12. Len(g) = Len(m) + 4 /\ Len(u) = Len(m) + 5
  BY <1>0, <1>3, <1>4, <1>8, <1>11
<1>13. \A i \in 1..4 : u[i] = h[i]
  <2> SUFFICES ASSUME NEW i \in 1..4 PROVE u[i] = h[i]
    OBVIOUS
  <2>1. /\ i \in 1..(Len(g) + Len(t)) /\ i <= Len(g) /\ i \in 1..(Len(h) + Len(m)) /\ i <= Len(h)
    BY <1>0, <1>3, <1>4, <1>12
  <2> QED BY <2>1, <1>8, <1>11
<1>14. \A i \in 1..Len(m) : u[4 + i] = m[i]
  <2> SUFFICES ASSUME NEW i \in 1..Len(m) PROVE u[4 + i] = m[i]
    OBVIOUS
  <2>1. /\ 4 + i \in 1..(Len(g) + Len(t)) /\ 4 + i <= Len(g) /\ 4 + i \in 1..(Len(h) + Len(m))
        /\ ~(4 + i <= Len(h)) /\ (4 + i) - Len(h) = i
    BY <1>0, <1>3, <1>4, <1>12
  <2> QED BY <2>1, <1>8, <1>11
<1>15. u[Len(m) + 5] = NHDLC_CONTROL_CHAR
  <2>1. /\ Len(m) + 5 \in 1..(Len(g) + Len(t)) /\ ~(Len(m) + 5 <= Len(g))
        /\ (Len(m) + 5) - Len(g) = 1
    BY <1>0, <1>4, <1>12
  <2> QED BY <2>1, <1>4, <1>11
<1>16. u[1] = h[1] /\ u[3] = h[3] /\ u[4] = h[4]
  BY <1>13
<1> QED BY <1>3, <1>9, <1>11, <1>12, <1>14, <1>15, <1>16 DEF a, b

LEMMA CommandBytes ==
    ASSUME NEW d \in Dm, NEW m \in Cmd[d]
    PROVE  m \in Seq(Byte)
BY EncodingAssumption

LEMMA FramedType ==
    ASSUME CommandsFit, NEW types \in Types, NEW d \in Dm, NEW m \in Cmd[d]
    PROVE  /\ Framed(types[d], m) \in Seq(Byte)
           /\ d \in Usb => Len(Framed(types[d], m)) < HDLC_BUF_SIZE
<1>0. m \in Seq(Byte)
  BY CommandBytes
<1>1. CASE d \in Encoded
  <2>1. types[d] = "HDLC" \/ types[d] = "NHDLC"
    BY <1>1 DEF Types, Encode
  <2>2. hdlc_encode(m) \in Seq(Byte)
    BY <1>0, FrameType
  <2>3. Len(m) < 65536
    BY <1>1 DEF CommandsFit
  <2>4. nhdlc_frame(m) \in Seq(Byte)
    BY <1>0, <2>3, NhdlcFrame
  <2>5. d \in Usb => Len(hdlc_encode(m)) < HDLC_BUF_SIZE /\ Len(nhdlc_frame(m)) < HDLC_BUF_SIZE
    BY DEF CommandsFit
  <2>6. Framed(types[d], m) = hdlc_encode(m) \/ Framed(types[d], m) = nhdlc_frame(m)
    BY <2>1 DEF Framed
  <2> QED BY <2>2, <2>4, <2>5, <2>6
<1>2. CASE d \in Raw
  <2>1. d \notin Usb
    BY <1>2, EncodingAssumption DEF Encoded
  <2>2. types[d] = "RAW"
    BY <1>2 DEF Types
  <2> QED BY <1>0, <2>1, <2>2 DEF Framed
<1> QED BY <1>1, <1>2 DEF Dm

\* A transfer that is shorter than the buffer starts one of its own.
LEMMA TransferFits ==
    ASSUME NEW f \in Seq(Byte), Len(f) < HDLC_BUF_SIZE
    PROVE  /\ Filled(FreshRing, f) \in Ring
           /\ Unread(Filled(FreshRing, f)) = f
<1>0. Len(f) \in Nat /\ HDLC_BUF_SIZE \in Nat /\ HDLC_BUF_SIZE >= 2
  BY LenProperties, HdlcAssumption
<1>1. CIRC_SPACE_TO_END(FreshRing) = HDLC_BUF_SIZE - 1
  BY <1>0 DEF CIRC_SPACE_TO_END, CIRC_SPACE, FreshRing, Wrap
<1>2. FreshRing \in Ring /\ Unread(FreshRing) = <<>>
  BY FreshRingIs
<1>3. Len(f) <= CIRC_SPACE_TO_END(FreshRing)
  BY <1>0, <1>1
<1>4. Filled(FreshRing, f) \in Ring /\ Unread(Filled(FreshRing, f)) = Unread(FreshRing) \o f
  BY <1>2, <1>3, RingAppends
<1>5. <<>> \o f = f
  BY ConcatEmptySeq
<1> QED BY <1>2, <1>4, <1>5

-----------------------------------------------------------------------------
(* Types.                                                                  *)

Answer == [enc : Encode, rsp : Responses]

\* What fits the buffer of a USB transfer.
Transfer == {f \in Seq(Byte) : Len(f) < HDLC_BUF_SIZE}

AnswerTypes ==
    /\ outq \in [Dm -> Seq(Answer)]
    /\ due \in [Dm -> Seq(Seq(Byte))] /\ garbled \subseteq Dm /\ surprised \subseteq Encoded

CountTypes ==
    /\ bad_cmd_counter \in 0..DIAG_MAX_BAD_CMD
    /\ timers \in Seq(Encoded)

InputTypes ==
    /\ recv_buf \in [Encoded -> Ring] /\ recv_decoder \in Decoder
    /\ linked \subseteq Stream

\* A USB or UNIX DM that is to be served has something to read.
LoopTypes ==
    /\ pc \in {"select", "dispatch", "circ_read", "decode", "hdlc", "crashed"}
    /\ serving \in Encoded \cup {NoDm} /\ rfds \subseteq Dm
    /\ pc = "circ_read" => serving \in Stream
    /\ \A d \in rfds \cap (Usb \cup Raw) : xfer[d] # <<>>

HostTypes ==
    /\ wire \in [Stream -> Seq(Byte)] /\ gone \in [Stream -> {"no", "eof", "reset"}]
    /\ xfer \in [Usb \cup Raw -> Seq(Seq(Byte))] /\ \A d \in Usb : xfer[d] \in Seq(Transfer)
    /\ host \in Types /\ sent \in 0..MaxCommands /\ waiting \subseteq Dm
    /\ others \in BOOLEAN
    /\ split \subseteq Stream /\ confused \subseteq Dm

TypeInv ==
    /\ RecoveryInv
    /\ AnswerTypes /\ CountTypes /\ InputTypes /\ LoopTypes /\ HostTypes

LEMMA TypeInvImplies == TypeInv => TypeOK
<1> SUFFICES ASSUME TypeInv PROVE TypeOK
  OBVIOUS
<1>1. encode_type \in [Dm -> Encode] /\ host \in [Dm -> Encode]
  BY DEF TypeInv, RecoveryInv, Shape, HostTypes, Types
<1>2. encode_hdlc_reset \in [Dm -> BOOLEAN]
  BY DEF TypeInv, RecoveryInv, Shape
<1>3. CountTypes /\ InputTypes /\ LoopTypes
  BY DEF TypeInv
<1>4. AnswerTypes
  BY DEF TypeInv
<1>5. HostTypes
  BY DEF TypeInv
<1>6. outq \in [Dm -> Seq([enc : Encode, rsp : Responses])]
  BY <1>4 DEF AnswerTypes, Answer
<1> QED BY <1>1, <1>2, <1>3, <1>4, <1>5, <1>6
        DEF TypeOK, CountTypes, InputTypes, LoopTypes, AnswerTypes, HostTypes

LEMMA Parts ==
    /\ Encoded \subseteq Dm /\ Raw \subseteq Dm /\ Usb \subseteq Encoded /\ Stream \subseteq Encoded
    /\ Usb \subseteq Dm /\ Stream \subseteq Dm
    /\ Encoded \cap Raw = {} /\ Stream \cap Usb = {}
BY EncodingAssumption DEF Dm, Encoded

LEMMA InitTypeInv == Init => TypeInv
<1> SUFFICES ASSUME Init PROVE TypeInv
  OBVIOUS
<1>1. RecoveryInv
  BY InitRecovery
<1>2. encode_type \in Types /\ host \in Types
  BY <1>1 DEF RecoveryInv, Shape, Init
<1>3. AnswerTypes
  BY DEF Init, AnswerTypes
<1>4. CountTypes
  BY EncodingAssumption DEF Init, CountTypes
<1>5. InputTypes
  BY FreshRingIs, FreshType, Parts DEF Init, InputTypes
<1>6. LoopTypes
  BY DEF Init, LoopTypes
<1>7. HostTypes
  <2>1. MaxCommands \in Nat
    BY EncodingAssumption
  <2>2. xfer \in [Usb \cup Raw -> Seq(Seq(Byte))] /\ \A d \in Usb : xfer[d] \in Seq(Transfer)
    BY DEF Init
  <2>3. others \in BOOLEAN
    BY DEF Init
  <2>4. host \in Types /\ sent \in 0..MaxCommands
    BY <1>2, <2>1 DEF Init
  <2>5. /\ wire \in [Stream -> Seq(Byte)] /\ gone \in [Stream -> {"no", "eof", "reset"}]
        /\ waiting \subseteq Dm /\ split \subseteq Stream /\ confused \subseteq Dm
    BY DEF Init
  <2> QED BY <2>2, <2>3, <2>4, <2>5 DEF HostTypes
<1> QED BY <1>1, <1>3, <1>4, <1>5, <1>6, <1>7 DEF TypeInv

LEMMA ResponseType ==
    ASSUME NEW ptr, NEW len
    PROVE  Response(ptr, len) \in Responses
BY DEF Response, Responses

\* What a command leaves.
LEMMA CommandTypes ==
    ASSUME AnswerTypes, NEW types \in Types, NEW d \in Dm, NEW ptr, NEW len,
           diag_client_handle_command(types, d, ptr, len)
    PROVE  AnswerTypes'
<1> DEFINE rsp == Response(ptr, len)
           m == SubSeq(ptr, 1, Least(len, Len(ptr)))
<1>1. rsp \in Responses
  BY ResponseType
<1>2. /\ outq' = Answered(types, d, rsp) /\ Note(d, m)
      /\ surprised' = surprised
             \cup {e \in Encoded \ ({d} \cap Usb) : Switched(types, rsp)[e] # types[e]}
  BY DEF diag_client_handle_command
<1> HIDE DEF rsp, m
<1>3. types[d] \in Encode
  BY DEF Types
<1>4. [enc |-> types[d], rsp |-> rsp] \in Answer
  BY <1>1, <1>3 DEF Answer
<1>5. outq' \in [Dm -> Seq(Answer)]
  <2> DEFINE a == [enc |-> types[d], rsp |-> rsp]
             q == Append(outq[d], a)
  <2>1. outq' = [outq EXCEPT ![d] = q] \/ outq' = outq
    BY <1>2 DEF Answered
  <2>2. q \in Seq(Answer)
    <3>1. outq[d] \in Seq(Answer)
      BY DEF AnswerTypes
    <3>2. a \in Answer
      BY <1>4
    <3> HIDE DEF a
    <3> QED BY <3>1, <3>2
  <2> HIDE DEF q
  <2> QED BY <2>1, <2>2 DEF AnswerTypes
<1>6. due' \in [Dm -> Seq(Seq(Byte))] /\ garbled' \subseteq Dm
  <2>1. CASE due' = [due EXCEPT ![d] = Tail(@)] /\ due[d] # <<>> /\ UNCHANGED garbled
    BY <2>1 DEF AnswerTypes
  <2>2. CASE due' = [due EXCEPT ![d] = <<>>] /\ garbled' = garbled \cup {d}
    BY <2>2 DEF AnswerTypes
  <2> QED BY <1>2, <2>1, <2>2 DEF Note
<1>7. surprised' \subseteq Encoded
  BY <1>2 DEF AnswerTypes
<1> QED BY <1>5, <1>6, <1>7 DEF AnswerTypes

\* Steps of the loop that handle no command and get nothing from outside.
LEMMA TurnTypes ==
    ASSUME TypeInv,
           Select \/ DispatchDone \/ (\E d \in rfds : dm_recv_encoded(d))
               \/ circ_read_Done \/ circ_read_Error \/ dm_recv_hdlc
    PROVE  AnswerTypes' /\ CountTypes' /\ InputTypes' /\ LoopTypes' /\ HostTypes'
<1>0. AnswerTypes /\ CountTypes /\ InputTypes /\ LoopTypes /\ HostTypes
  BY DEF TypeInv
<1>1. /\ UNCHANGED <<outq, commands, surprised, dms, recv_buf, wire, xfer, gone, hosts, split,
                     confused>>
      /\ linked' \subseteq linked /\ (recv_decoder' = recv_decoder \/ recv_decoder' = FreshDecoder)
  BY DEF Select, DispatchDone, dm_recv_encoded, circ_read_Done, circ_read_Error, dm_recv_hdlc,
         history, input
<1>2. AnswerTypes' /\ CountTypes' /\ HostTypes'
  BY <1>0, <1>1 DEF AnswerTypes, CountTypes, HostTypes, commands, dms, hosts
<1>3. InputTypes'
  BY <1>0, <1>1, FreshType DEF InputTypes
<1>4. LoopTypes'
  <2>1. CASE Select
    <3>1. rfds' = Readable /\ pc' = "dispatch" /\ serving' = serving
      BY <2>1 DEF Select
    <3>2. Readable \subseteq Dm /\ \A d \in Readable \cap (Usb \cup Raw) : xfer[d] # <<>>
      BY <1>0, Parts DEF Readable, InputTypes
    <3> QED BY <1>0, <1>1, <3>1, <3>2 DEF LoopTypes
  <2>2. CASE DispatchDone
    BY <1>0, <1>1, <2>2 DEF LoopTypes, DispatchDone
  <2>3. ASSUME NEW d \in rfds, dm_recv_encoded(d) PROVE LoopTypes'
    BY <1>0, <1>1, <2>3, Parts DEF LoopTypes, dm_recv_encoded, Serve
  <2>4. CASE circ_read_Done
    BY <1>0, <1>1, <2>4 DEF LoopTypes, circ_read_Done
  <2>5. CASE circ_read_Error
    BY <1>0, <1>1, <2>5 DEF LoopTypes, circ_read_Error
  <2>6. CASE dm_recv_hdlc
    BY <1>0, <1>1, <2>6 DEF LoopTypes, dm_recv_hdlc
  <2> QED BY <2>1, <2>2, <2>3, <2>4, <2>5, <2>6
<1> QED BY <1>2, <1>3, <1>4

\* A read that blocks or not gets something.
LEMMA ReadsSome ==
    ASSUME NEW d, NEW space \in Nat \ {0}, NEW n \in Int, n >= ReadsAtLeast(d, space)
    PROVE  n >= 1
BY EncodingAssumption DEF ReadsAtLeast, Least

\* A read takes what fits up to the end of the buffer.
LEMMA ReadTypes ==
    ASSUME TypeInv, circ_read
    PROVE  AnswerTypes' /\ CountTypes' /\ InputTypes' /\ LoopTypes' /\ HostTypes'
<1>0. AnswerTypes /\ CountTypes /\ InputTypes /\ LoopTypes /\ HostTypes
  BY DEF TypeInv
<1> DEFINE d == serving
           r == recv_buf[d]
           w == wire[d]
           space == CIRC_SPACE_TO_END(r)
<1>1. d \in Stream /\ d \in Encoded /\ r \in Ring /\ w \in Seq(Byte)
  BY <1>0, Parts DEF LoopTypes, InputTypes, HostTypes, circ_read
<1>2. PICK n \in ReadsAtLeast(d, space)..Least(space, Len(w)) :
         /\ recv_buf' = [recv_buf EXCEPT ![d] = Filled(r, SubSeq(w, 1, n))]
         /\ wire' = [wire EXCEPT ![d] = SubSeq(w, n + 1, Len(w))]
         /\ split' = IF w[n] = NHDLC_CONTROL_CHAR THEN split ELSE split \cup {d}
  BY <1>1 DEF circ_read, InputTypes, HostTypes
<1>3. n \in 1..Len(w) /\ n <= space
  <2>1. space \in Nat /\ space # 0
    BY <1>1, SpaceType DEF circ_read
  <2>2. Len(w) \in Nat
    BY <1>1, LenProperties
  <2> HIDE DEF space, w
  <2>3. VMIN \in Nat \ {0}
    BY EncodingAssumption
  <2>4. n >= ReadsAtLeast(d, space) /\ n <= space /\ n <= Len(w) /\ n \in Int
    BY <1>2, <2>1, <2>2, <2>3 DEF ReadsAtLeast, Least
  <2>5. n >= 1
    BY <2>1, <2>3, <2>4, ReadsSome
  <2> QED BY <2>2, <2>4, <2>5
<1>4. SubSeq(w, 1, n) \in Seq(Byte) /\ SubSeq(w, n + 1, Len(w)) \in Seq(Byte) /\ Len(SubSeq(w, 1, n)) = n
  BY <1>1, <1>3, CutOff
<1>5. Filled(r, SubSeq(w, 1, n)) \in Ring
  BY <1>1, <1>3, <1>4, RingAppends
<1>6. InputTypes'
  BY <1>0, <1>1, <1>2, <1>5 DEF InputTypes, circ_read
<1>7. HostTypes'
  <2>1. UNCHANGED <<xfer, gone, host, sent, waiting, others, confused>>
    BY DEF circ_read, hosts
  <2>2. wire' \in [Stream -> Seq(Byte)] /\ split' \subseteq Stream
    BY <1>0, <1>1, <1>2, <1>4 DEF HostTypes
  <2> QED BY <1>0, <2>1, <2>2 DEF HostTypes
<1>8. LoopTypes'
  <2>1. pc' \in {"circ_read", "decode"} /\ UNCHANGED <<serving, rfds, xfer>>
    BY DEF circ_read
  <2> QED BY <1>0, <1>1, <2>1 DEF LoopTypes
<1>9. AnswerTypes' /\ CountTypes'
  BY <1>0 DEF AnswerTypes, CountTypes, circ_read, commands, dms
<1> QED BY <1>6, <1>7, <1>8, <1>9

\* A transfer, and a packet.
LEMMA TransferTypes ==
    ASSUME TypeInv, NEW d \in rfds, diag_ffs_recv(d) \/ dm_recv_raw(d)
    PROVE  AnswerTypes' /\ CountTypes' /\ InputTypes' /\ LoopTypes' /\ HostTypes'
<1>0. AnswerTypes /\ CountTypes /\ InputTypes /\ LoopTypes /\ HostTypes
  BY DEF TypeInv
<1>1. /\ d \in Usb \cup Raw /\ d \in Dm
      /\ xfer' = [xfer EXCEPT ![d] = Tail(@)]
      /\ rfds' = rfds \ {d} /\ pc' \in {"dispatch", "decode"}
      /\ UNCHANGED <<bad_cmd_counter, timers, recv_decoder, linked, wire, gone, hosts, split, confused>>
  BY Parts DEF diag_ffs_recv, dm_recv_raw, Serve, dms, input, history
<1>2. xfer[d] # <<>> /\ xfer[d] \in Seq(Seq(Byte)) /\ (d \in Usb => xfer[d] \in Seq(Transfer))
  BY <1>0, <1>1 DEF LoopTypes, HostTypes
<1>3. CountTypes'
  BY <1>0, <1>1 DEF CountTypes
<1>4. HostTypes'
  <2>1. Tail(xfer[d]) \in Seq(Seq(Byte)) /\ (d \in Usb => Tail(xfer[d]) \in Seq(Transfer))
    BY <1>2
  <2>2. xfer' \in [Usb \cup Raw -> Seq(Seq(Byte))] /\ \A e \in Usb : xfer'[e] \in Seq(Transfer)
    BY <1>0, <1>1, <2>1 DEF HostTypes
  <2> QED BY <1>0, <1>1, <2>2 DEF HostTypes, hosts
<1>5. CASE diag_ffs_recv(d)
  <2> DEFINE f == Head(xfer[d])
  <2>1. d \in Usb /\ d \in Encoded /\ serving' = d /\ UNCHANGED <<outq, commands, surprised>>
        /\ recv_buf' = [recv_buf EXCEPT ![d] = Filled(FreshRing, f)]
    BY <1>5, Parts DEF diag_ffs_recv, history
  <2>2. f \in Transfer
    BY <1>2, <2>1
  <2>3. Filled(FreshRing, f) \in Ring
    <3> HIDE DEF f
    <3>1. f \in Seq(Byte) /\ Len(f) < HDLC_BUF_SIZE
      BY <2>2 DEF Transfer
    <3> QED BY <3>1, TransferFits
  <2> HIDE DEF f
  <2>4. InputTypes'
    BY <1>0, <1>1, <2>1, <2>3 DEF InputTypes
  <2>5. AnswerTypes'
    BY <1>0, <2>1 DEF AnswerTypes, commands
  <2>6. LoopTypes'
    BY <1>0, <1>1, <2>1 DEF LoopTypes, HostTypes
  <2> QED BY <1>3, <1>4, <2>4, <2>5, <2>6
<1>6. CASE dm_recv_raw(d)
  <2>1. diag_client_handle_command(encode_type, d, Head(xfer[d]), Len(Head(xfer[d])))
        /\ UNCHANGED <<recv_buf, serving, pc>> /\ pc = "dispatch"
    BY <1>6 DEF dm_recv_raw, input, Serve
  <2>2. encode_type \in Types
    BY DEF TypeInv, RecoveryInv, Shape
  <2>3. AnswerTypes'
    BY <1>0, <1>1, <2>1, <2>2, CommandTypes
  <2>4. InputTypes'
    BY <1>0, <1>1, <2>1 DEF InputTypes
  <2>5. LoopTypes'
    BY <1>0, <1>1, <2>1 DEF LoopTypes, HostTypes
  <2> QED BY <1>3, <1>4, <2>3, <2>4, <2>5
<1> QED BY <1>5, <1>6

\* dm_decode_data.
LEMMA DecodeTypes ==
    ASSUME TypeInv, DecodeOne \/ dm_recv_nhdlc
    PROVE  AnswerTypes' /\ CountTypes' /\ InputTypes' /\ LoopTypes' /\ HostTypes'
<1>0. AnswerTypes /\ CountTypes /\ InputTypes /\ LoopTypes /\ HostTypes
  BY DEF TypeInv
<1>1. UNCHANGED <<serving, rfds, wire, xfer, gone, hosts, split, confused>>
  BY DEF DecodeOne, dm_recv_nhdlc
<1>2. serving \in Encoded /\ serving \in Dm
  BY Parts DEF TypeInv, RecoveryInv, Shape, DecodeOne, dm_recv_nhdlc
<1>3. HostTypes'
  BY <1>0, <1>1 DEF HostTypes, hosts
<1>4. encode_type \in Types /\ Recovered(serving) \in Types
  <2>1. encode_type \in Types
    BY DEF TypeInv, RecoveryInv, Shape
  <2> QED BY <2>1, <1>2, RecoveredType
<1>5. CASE DecodeOne
  <2>1. PICK one :
           /\ one = hdlc_decode_one(recv_decoder, recv_buf[serving])
           /\ recv_buf' = [recv_buf EXCEPT ![serving] = one.ring]
           /\ recv_decoder' = one.dec
           /\ \/ /\ diag_client_handle_command(encode_type, serving, one.raw, msglen(one.raw))
                 /\ UNCHANGED pc
              \/ /\ pc' \in {"crashed", "dispatch"}
                 /\ UNCHANGED <<outq, commands, surprised>>
    BY <1>5 DEF DecodeOne
  <2>2. UNCHANGED <<bad_cmd_counter, timers, linked>> /\ pc = "hdlc"
    BY <1>5 DEF DecodeOne
  <2>3. recv_buf[serving] \in Ring /\ recv_decoder \in Decoder
    BY <1>0, <1>2 DEF InputTypes
  <2>4. one.ring \in Ring /\ one.dec \in Decoder
    BY <2>1, <2>3, DecodeOneTakes
  <2>5. InputTypes'
    BY <1>0, <2>1, <2>2, <2>4 DEF InputTypes
  <2>6. CountTypes'
    BY <1>0, <2>2 DEF CountTypes
  <2>7. AnswerTypes'
    <3>1. CASE UNCHANGED <<outq, commands, surprised>>
      BY <1>0, <3>1 DEF AnswerTypes, commands
    <3>2. CASE diag_client_handle_command(encode_type, serving, one.raw, msglen(one.raw))
      BY <1>0, <1>2, <1>4, <3>2, CommandTypes
    <3> QED BY <2>1, <3>1, <3>2
  <2>8. LoopTypes'
    BY <1>0, <1>1, <2>1, <2>2 DEF LoopTypes
  <2> QED BY <1>3, <2>5, <2>6, <2>7, <2>8
<1>6. CASE dm_recv_nhdlc
  <2>1. /\ UNCHANGED <<recv_buf, recv_decoder>> /\ linked' \subseteq linked /\ pc' = "dispatch"
    BY <1>6 DEF dm_recv_nhdlc, input
  <2> DEFINE ptr == PktData(recv_buf[serving].buf)
             len == PktLength(recv_buf[serving].buf)
  <2>2. \/ /\ diag_client_handle_command(encode_type, serving, ptr, len)
           /\ UNCHANGED <<timers, bad_cmd_counter>>
        \/ /\ diag_client_handle_command(Recovered(serving), serving, ptr, len)
           /\ diag_start_hdlc_recovery(serving)
    BY <1>6 DEF dm_recv_nhdlc
  <2>3. AnswerTypes'
    BY <1>0, <1>2, <1>4, <2>2, CommandTypes
  <2>4. CountTypes'
    <3>1. CASE UNCHANGED <<timers, bad_cmd_counter>>
      BY <1>0, <3>1 DEF CountTypes
    <3>2. CASE diag_start_hdlc_recovery(serving)
      <4>1. DIAG_MAX_BAD_CMD \in Nat
        BY EncodingAssumption
      <4>2. bad_cmd_counter' \in 0..DIAG_MAX_BAD_CMD
        BY <1>0, <3>2, <4>1 DEF CountTypes, diag_start_hdlc_recovery
      <4>3. timers' \in Seq(Encoded)
        BY <1>0, <1>2, <3>2 DEF CountTypes, diag_start_hdlc_recovery
      <4> QED BY <4>2, <4>3 DEF CountTypes
    <3> QED BY <2>2, <3>1, <3>2
  <2>5. InputTypes' /\ LoopTypes'
    BY <1>0, <1>1, <2>1 DEF InputTypes, LoopTypes
  <2> QED BY <1>3, <2>3, <2>4, <2>5
<1> QED BY <1>5, <1>6

\* The timer.
LEMMA TimerTypes ==
    ASSUME TypeInv, Timer
    PROVE  AnswerTypes' /\ CountTypes' /\ InputTypes' /\ LoopTypes' /\ HostTypes'
<1>0. AnswerTypes /\ CountTypes /\ InputTypes /\ LoopTypes /\ HostTypes
  BY DEF TypeInv
<1>1. /\ UNCHANGED <<bad_cmd_counter, input, linked, loop, outq, commands, wire, xfer, gone, hosts,
                     split, confused>>
      /\ timers # <<>> /\ timers' = Tail(timers)
      /\ surprised' = surprised \cup {e \in Encoded : encode_type[e] # "HDLC"}
  BY DEF Timer, diag_hdlc_reset
<1>2. AnswerTypes' /\ InputTypes' /\ LoopTypes' /\ HostTypes'
  BY <1>0, <1>1 DEF AnswerTypes, InputTypes, LoopTypes, HostTypes, input, loop, commands, hosts
<1>3. CountTypes'
  BY <1>0, <1>1 DEF CountTypes
<1> QED BY <1>2, <1>3

\* The hosts.
LEMMA EnvironmentTypes ==
    ASSUME CommandsFit, TypeInv, Environment
    PROVE  AnswerTypes' /\ CountTypes' /\ InputTypes' /\ LoopTypes' /\ HostTypes'
<1>0. AnswerTypes /\ CountTypes /\ InputTypes /\ LoopTypes /\ HostTypes
  BY DEF TypeInv
<1>1. UNCHANGED <<dms, input, linked, loop>>
  BY DEF Environment, HostSend, HostReceive, HostTimeout, HostClose, OthersChange
<1>2. CountTypes' /\ InputTypes'
  BY <1>0, <1>1 DEF CountTypes, InputTypes, dms, input
<1>3. ASSUME NEW d \in Dm, NEW m \in Cmd[d], HostSend(d, m)
      PROVE  AnswerTypes' /\ LoopTypes' /\ HostTypes'
  <2> DEFINE f == Framed(host[d], m)
  <2>1. m \in Seq(Byte)
    BY CommandBytes
  <2>2. f \in Seq(Byte) /\ (d \in Usb => f \in Transfer)
    <3>1. host \in Types
      BY <1>0 DEF HostTypes
    <3> QED BY <3>1, FramedType DEF Transfer
  <2>3. /\ due' = IF d \in garbled THEN due ELSE [due EXCEPT ![d] = Append(@, m)]
        /\ sent < MaxCommands /\ sent' = sent + 1 /\ waiting' = waiting \cup {d}
        /\ IF d \in Stream
           THEN wire' = [wire EXCEPT ![d] = @ \o f] /\ UNCHANGED xfer
           ELSE xfer' = [xfer EXCEPT ![d] = Append(@, f)] /\ UNCHANGED wire
        /\ UNCHANGED <<outq, gone, host, others, garbled, split, surprised, confused>>
    BY <1>3 DEF HostSend, history
  <2> HIDE DEF f
  <2>4. AnswerTypes'
    <3> DEFINE a == Append(due[d], m)
    <3>1. a \in Seq(Seq(Byte))
      BY <1>0, <2>1 DEF AnswerTypes
    <3>2. due' = due \/ due' = [due EXCEPT ![d] = a]
      BY <2>3
    <3> HIDE DEF a
    <3> QED BY <1>0, <2>3, <3>1, <3>2 DEF AnswerTypes
  <2>5. CASE d \in Stream
    <3> DEFINE w == wire[d] \o f
    <3>1. wire' = [wire EXCEPT ![d] = w] /\ xfer' = xfer
      BY <2>3, <2>5
    <3>2. w \in Seq(Byte)
      BY <1>0, <2>2, <2>5, ConcatProperties DEF HostTypes
    <3> HIDE DEF w
    <3>3. wire' \in [Stream -> Seq(Byte)]
      BY <1>0, <3>1, <3>2 DEF HostTypes
    <3>4. sent' \in 0..MaxCommands
      BY <1>0, <2>3, EncodingAssumption DEF HostTypes
    <3>5. HostTypes'
      BY <1>0, <2>3, <3>1, <3>3, <3>4 DEF HostTypes
    <3>6. LoopTypes'
      BY <1>0, <1>1, <3>1 DEF LoopTypes, loop
    <3> QED BY <2>4, <3>5, <3>6
  <2>6. CASE d \notin Stream
    <3>0. d \in Usb \cup Raw
      BY <2>6 DEF Dm, Encoded
    <3> DEFINE q == Append(xfer[d], f)
    <3>1. wire' = wire /\ xfer' = [xfer EXCEPT ![d] = q]
      BY <2>3, <2>6
    <3>2. q \in Seq(Seq(Byte)) /\ q # <<>> /\ (d \in Usb => q \in Seq(Transfer))
      <4>1. xfer[d] \in Seq(Seq(Byte)) /\ (d \in Usb => xfer[d] \in Seq(Transfer))
        BY <1>0, <3>0 DEF HostTypes
      <4>2. q \in Seq(Seq(Byte)) /\ q # <<>>
        BY <2>2, <4>1, AppendProperties
      <4>3. d \in Usb => q \in Seq(Transfer)
        BY <2>2, <4>1, AppendProperties
      <4> QED BY <4>2, <4>3
    <3> HIDE DEF q
    <3>3. xfer' \in [Usb \cup Raw -> Seq(Seq(Byte))] /\ \A e \in Usb : xfer'[e] \in Seq(Transfer)
      BY <1>0, <3>0, <3>1, <3>2 DEF HostTypes
    <3>4. sent' \in 0..MaxCommands
      BY <1>0, <2>3, EncodingAssumption DEF HostTypes
    <3>5. HostTypes'
      BY <1>0, <2>3, <3>1, <3>3, <3>4 DEF HostTypes
    <3>6. \A e \in rfds \cap (Usb \cup Raw) : xfer'[e] # <<>>
      BY <1>0, <3>0, <3>1, <3>2 DEF LoopTypes, HostTypes
    <3>7. LoopTypes'
      BY <1>0, <1>1, <3>6 DEF LoopTypes, loop
    <3> QED BY <2>4, <3>5, <3>7
  <2> QED BY <2>5, <2>6
<1>4. ASSUME NEW d \in Dm, HostReceive(d)
      PROVE  AnswerTypes' /\ LoopTypes' /\ HostTypes'
  <2>1. /\ host' = host \/ (host[d] = "HDLC" /\ host' = [host EXCEPT ![d] = "NHDLC"])
        /\ waiting' \subseteq waiting /\ confused' \subseteq confused \cup {d}
        /\ outq[d] # <<>> /\ outq' = [outq EXCEPT ![d] = Tail(@)]
        /\ UNCHANGED <<due, garbled, wire, xfer, gone, sent, others, split, surprised>>
    BY <1>0, <1>4 DEF HostReceive, commands, HostTypes, Types
  <2>2. host' \in Types
    <3>1. CASE host[d] = "HDLC" /\ host' = [host EXCEPT ![d] = "NHDLC"]
      <4> DEFINE h == [host EXCEPT ![d] = "NHDLC"]
      <4>1. host \in Types /\ "NHDLC" \in Encode
        BY <1>0 DEF HostTypes, Encode
      <4>2. h \in [Dm -> Encode]
        BY <4>1 DEF Types
      <4>3. \A e \in Encoded : h[e] # "RAW"
        BY <4>1, Parts DEF Types
      <4>4. d \notin Raw
        BY <3>1, <4>1 DEF Types
      <4>5. \A e \in Raw : h[e] = "RAW"
        BY <4>1, <4>4, Parts DEF Types
      <4> QED BY <3>1, <4>2, <4>3, <4>5 DEF Types
    <3>2. CASE host' = host
      BY <1>0, <3>2 DEF HostTypes
    <3> QED BY <2>1, <3>1, <3>2
  <2>3. AnswerTypes'
    BY <1>0, <2>1 DEF AnswerTypes
  <2>4. HostTypes' /\ LoopTypes'
    BY <1>0, <1>1, <2>1, <2>2 DEF HostTypes, LoopTypes, loop
  <2> QED BY <2>3, <2>4
<1>5. ASSUME NEW d, HostTimeout(d) PROVE AnswerTypes' /\ LoopTypes' /\ HostTypes'
  BY <1>0, <1>5 DEF HostTimeout, commands, history, loop, AnswerTypes, LoopTypes, HostTypes
<1>6. ASSUME NEW d \in Stream, HostClose(d) PROVE AnswerTypes' /\ LoopTypes' /\ HostTypes'
  <2>1. gone' \in [Stream -> {"no", "eof", "reset"}]
    BY <1>0, <1>6 DEF HostClose, HostTypes
  <2> QED BY <1>0, <1>6, <2>1
          DEF HostClose, commands, history, hosts, loop, AnswerTypes, LoopTypes, HostTypes
<1>7. ASSUME OthersChange PROVE AnswerTypes' /\ LoopTypes' /\ HostTypes'
  BY <1>0, <1>7 DEF OthersChange, commands, history, loop, AnswerTypes, LoopTypes, HostTypes
<1> QED BY <1>2, <1>3, <1>4, <1>5, <1>6, <1>7 DEF Environment

LEMMA NextTypeInv == CommandsFit /\ TypeInv /\ [Next]_vars => TypeInv'
<1> SUFFICES ASSUME CommandsFit, TypeInv, [Next]_vars PROVE TypeInv'
  OBVIOUS
<1>1. RecoveryInv'
  BY NextRecovery DEF TypeInv
<1>2. AnswerTypes' /\ CountTypes' /\ InputTypes' /\ LoopTypes' /\ HostTypes'
  <2>2. CASE Environment
    BY <2>2, EnvironmentTypes
  <2>3. CASE Timer
    BY <2>3, TimerTypes
  <2>4. CASE DecodeOne \/ dm_recv_nhdlc
    BY <2>4, DecodeTypes
  <2>5. CASE circ_read
    BY <2>5, ReadTypes
  <2>6. CASE \E d \in rfds : diag_ffs_recv(d) \/ dm_recv_raw(d)
    BY <2>6, TransferTypes
  <2>7. CASE Select \/ DispatchDone \/ (\E d \in rfds : dm_recv_encoded(d))
                 \/ circ_read_Done \/ circ_read_Error \/ dm_recv_hdlc
    BY <2>7, TurnTypes
  <2>8. CASE UNCHANGED vars
    <3>1. AnswerTypes /\ CountTypes /\ InputTypes /\ LoopTypes /\ HostTypes
      BY DEF TypeInv
    <3> QED BY <2>8, <3>1 DEF AnswerTypes, CountTypes, InputTypes, LoopTypes, HostTypes, vars, dms,
                              input, loop, commands, hosts, history
  <2> QED BY <2>2, <2>3, <2>4, <2>5, <2>6, <2>7, <2>8 DEF Next, RouterStep
<1> QED BY <1>1, <1>2 DEF TypeInv

\* Every variable keeps its type, for commands that fit: the indices of the circular
\* buffers (circ_buf.c) stay inside them, the timers run for DMs that are encoded,
\* and bad_cmd_counter stays within DIAG_MAX_BAD_CMD.
THEOREM EncodingTypes == CommandsFit => (Spec => []TypeOK)
<1> SUFFICES ASSUME CommandsFit PROVE Spec => []TypeOK
  OBVIOUS
<1>1. Init => TypeInv
  BY InitTypeInv
<1>2. TypeInv /\ [Next]_vars => TypeInv'
  BY NextTypeInv
<1>3. TypeInv => TypeOK
  BY TypeInvImplies
<1> QED BY <1>1, <1>2, <1>3, PTL DEF Spec

-----------------------------------------------------------------------------
(* Frames in the buffer of a stream and on its wire.                       *)

Frames(ms) == [i \in 1..Len(ms) |-> hdlc_encode(ms[i])]

EndsFrame(s) == s = <<>> \/ s[Len(s)] = NHDLC_CONTROL_CHAR

LEMMA FramesType ==
    ASSUME NEW ms \in Seq(Seq(Byte))
    PROVE  Frames(ms) \in Seq(Seq(Byte)) /\ Len(Frames(ms)) = Len(ms)
<1>0. Len(ms) \in Nat /\ \A i \in 1..Len(ms) : ms[i] \in Seq(Byte)
  BY LenProperties
<1>1. \A i \in 1..Len(ms) : hdlc_encode(ms[i]) \in Seq(Byte)
  BY <1>0, FrameType
<1> QED BY <1>0, <1>1 DEF Frames

LEMMA FramesAppend ==
    ASSUME NEW ms \in Seq(Seq(Byte)), NEW m \in Seq(Byte)
    PROVE  Frames(Append(ms, m)) = Append(Frames(ms), hdlc_encode(m))
<1> DEFINE t == Append(ms, m)
           x == Frames(t)
           y == Append(Frames(ms), hdlc_encode(m))
<1>0. Len(ms) \in Nat
  BY LenProperties
<1>1. t \in Seq(Seq(Byte)) /\ Len(t) = Len(ms) + 1 /\ t[Len(ms) + 1] = m
      /\ \A i \in 1..Len(ms) : t[i] = ms[i]
  BY AppendProperties
<1>2. x \in Seq(Seq(Byte)) /\ Len(x) = Len(ms) + 1
  <2> HIDE DEF t
  <2> QED BY <1>1, FramesType
<1>3. y \in Seq(Seq(Byte)) /\ Len(y) = Len(ms) + 1 /\ y[Len(ms) + 1] = hdlc_encode(m)
      /\ \A i \in 1..Len(ms) : y[i] = Frames(ms)[i]
  <2>1. Frames(ms) \in Seq(Seq(Byte)) /\ Len(Frames(ms)) = Len(ms)
    BY FramesType
  <2>2. hdlc_encode(m) \in Seq(Byte)
    BY FrameType
  <2> QED BY <2>1, <2>2, AppendProperties
<1> HIDE DEF t, y
<1>4. \A i \in 1..(Len(ms) + 1) : x[i] = y[i]
  <2> SUFFICES ASSUME NEW i \in 1..(Len(ms) + 1) PROVE x[i] = y[i]
    OBVIOUS
  <2>1. x[i] = hdlc_encode(t[i])
    BY <1>1 DEF Frames
  <2>2. CASE i = Len(ms) + 1
    BY <1>1, <1>3, <2>1, <2>2
  <2>3. CASE i # Len(ms) + 1
    <3>1. i \in 1..Len(ms)
      BY <1>0, <2>3
    <3>2. t[i] = ms[i] /\ y[i] = Frames(ms)[i] /\ Frames(ms)[i] = hdlc_encode(ms[i])
      BY <1>1, <1>3, <3>1 DEF Frames
    <3> QED BY <2>1, <3>2
  <2> QED BY <2>2, <2>3
<1> HIDE DEF x
<1>5. x = y
  BY <1>2, <1>3, <1>4, SeqEqual
<1> QED BY <1>5 DEF x, y, t

LEMMA FramesFirst ==
    ASSUME NEW ms \in Seq(Seq(Byte)), ms # <<>>
    PROVE  /\ Head(ms) \in Seq(Byte) /\ Tail(ms) \in Seq(Seq(Byte))
           /\ Joined(Frames(ms)) = hdlc_encode(Head(ms)) \o Joined(Frames(Tail(ms)))
<1> DEFINE m == Head(ms)
           t == Tail(ms)
           f == Frames(ms)
           g == Frames(t)
<1>0. Len(ms) \in Nat /\ Len(ms) # 0
  BY EmptySeq, LenProperties
<1>1. m \in Seq(Byte) /\ m = ms[1] /\ t \in Seq(Seq(Byte)) /\ Len(t) = Len(ms) - 1
      /\ \A i \in 1..Len(t) : t[i] = ms[i + 1]
  BY HeadTailProperties
<1>2. f \in Seq(Seq(Byte)) /\ Len(f) = Len(ms) /\ \A i \in 1..Len(ms) : f[i] = hdlc_encode(ms[i])
  BY FramesType DEF Frames
<1>3. g \in Seq(Seq(Byte)) /\ Len(g) = Len(t) /\ \A i \in 1..Len(t) : g[i] = hdlc_encode(t[i])
  <2> HIDE DEF t
  <2> QED BY <1>1, FramesType DEF Frames
<1> HIDE DEF m, t, f, g
<1>4. f # <<>>
  BY <1>0, <1>2
<1>5. /\ Head(f) = f[1] /\ Tail(f) \in Seq(Seq(Byte)) /\ Len(Tail(f)) = Len(f) - 1
      /\ \A i \in 1..Len(Tail(f)) : Tail(f)[i] = f[i + 1]
  BY <1>2, <1>4, HeadTailProperties
<1>6. Head(f) = hdlc_encode(m)
  BY <1>0, <1>1, <1>2, <1>5
<1>7. Tail(f) = g
  <2> DEFINE h == Tail(f)
  <2>1. h \in Seq(Seq(Byte)) /\ Len(h) = Len(g)
    BY <1>1, <1>2, <1>3, <1>5
  <2>2. \A i \in 1..Len(h) : h[i] = g[i]
    <3> SUFFICES ASSUME NEW i \in 1..Len(h) PROVE h[i] = g[i]
      OBVIOUS
    <3>1. i \in 1..Len(t) /\ i + 1 \in 1..Len(ms)
      BY <1>0, <1>1, <1>2, <1>5
    <3> QED BY <1>1, <1>2, <1>3, <1>5, <3>1
  <2> HIDE DEF h
  <2>3. h = g
    BY <1>3, <2>1, <2>2, SeqEqual
  <2> QED BY <2>3 DEF h
<1>8. Joined(f) = Head(f) \o Joined(Tail(f))
  BY <1>2, <1>4, JoinedFirst
<1>9. Joined(f) = hdlc_encode(m) \o Joined(g)
  BY <1>6, <1>7, <1>8
<1> QED BY <1>1, <1>9 DEF m, t, f, g

\* Behind what ends a frame, bytes that end one do too.
LEMMA EndsBehind ==
    ASSUME NEW u \in Seq(Byte), NEW p \in Seq(Byte), p # <<>>, p[Len(p)] = NHDLC_CONTROL_CHAR
    PROVE  EndsFrame(u \o p)
<1> DEFINE v == u \o p
<1>0. Len(u) \in Nat /\ Len(p) \in Nat /\ Len(p) # 0
  BY EmptySeq, LenProperties
<1>1. Len(v) = Len(u) + Len(p)
      /\ \A i \in 1..(Len(u) + Len(p)) : v[i] = IF i <= Len(u) THEN u[i] ELSE p[i - Len(u)]
  BY ConcatProperties
<1> HIDE DEF v
<1>2. /\ Len(u) + Len(p) \in 1..(Len(u) + Len(p)) /\ ~(Len(u) + Len(p) <= Len(u))
      /\ (Len(u) + Len(p)) - Len(u) = Len(p)
  BY <1>0
<1>3. v[Len(v)] = p[Len(p)]
  BY <1>1, <1>2
<1> QED BY <1>3 DEF EndsFrame, v

\* The bytes u hold the frame of m, and what is behind it with w is rest.
Holds(u, m, w, rest) ==
    \E u2 \in Seq(Byte) : u = hdlc_encode(m) \o u2 /\ u2 \o w = rest /\ EndsFrame(u2)

\* Bytes that end a frame, and are not empty, hold the first frame as a whole.
LEMMA HoldsFirst ==
    ASSUME NEW m \in Seq(Byte), NEW u \in Seq(Byte), NEW w \in Seq(Byte), NEW rest \in Seq(Byte),
           u \o w = hdlc_encode(m) \o rest, u # <<>>, EndsFrame(u)
    PROVE  Holds(u, m, w, rest)
<1> DEFINE f == hdlc_encode(m)
           e == Escaped(m \o Crc(m))
           z == <<NHDLC_CONTROL_CHAR>>
           x == u \o w
<1>1. e \in Seq(Byte) /\ Unmarked(e)
  BY FrameType, EscapedType, EscapedUnmarked
<1>2. z \in Seq(Byte) /\ Len(z) = 1
  BY ControlByte
<1>3. f \in Seq(Byte) /\ f = e \o z
  BY FrameType DEF hdlc_encode
<1> HIDE DEF e, z, f
<1>4. Len(f) = Len(e) + 1 /\ \A i \in 1..Len(e) : f[i] = e[i]
  <2> DEFINE g == e \o z
  <2>1. Len(g) = Len(e) + Len(z) /\ Len(e) \in Nat
        /\ \A i \in 1..(Len(e) + Len(z)) : g[i] = IF i <= Len(e) THEN e[i] ELSE z[i - Len(e)]
    BY <1>1, <1>2, ConcatProperties, LenProperties
  <2> HIDE DEF g
  <2>2. \A i \in 1..Len(e) : g[i] = e[i]
    <3> SUFFICES ASSUME NEW i \in 1..Len(e) PROVE g[i] = e[i]
      OBVIOUS
    <3>1. i \in 1..(Len(e) + Len(z)) /\ i <= Len(e)
      BY <1>2, <2>1
    <3> QED BY <2>1, <3>1
  <2> QED BY <1>2, <1>3, <2>1, <2>2 DEF g
<1>5. x \in Seq(Byte) /\ Len(x) = Len(u) + Len(w)
      /\ \A i \in 1..(Len(u) + Len(w)) : x[i] = IF i <= Len(u) THEN u[i] ELSE w[i - Len(u)]
  BY ConcatProperties
<1>6. x = f \o rest
  BY DEF f
<1> HIDE DEF x
<1>7. Len(x) = Len(f) + Len(rest)
      /\ \A i \in 1..(Len(f) + Len(rest)) : x[i] = IF i <= Len(f) THEN f[i] ELSE rest[i - Len(f)]
  <2> DEFINE y == f \o rest
  <2>1. Len(y) = Len(f) + Len(rest)
        /\ \A i \in 1..(Len(f) + Len(rest)) : y[i] = IF i <= Len(f) THEN f[i] ELSE rest[i - Len(f)]
    BY <1>3, ConcatProperties
  <2> QED BY <1>6, <2>1
<1>8. /\ Len(u) \in Nat /\ Len(u) # 0 /\ Len(w) \in Nat /\ Len(e) \in Nat /\ Len(rest) \in Nat
      /\ Len(f) \in Nat
  BY <1>1, <1>3, EmptySeq, LenProperties
<1>9. \A i \in 1..Len(u) : x[i] = u[i]
  <2> SUFFICES ASSUME NEW i \in 1..Len(u) PROVE x[i] = u[i]
    OBVIOUS
  <2>1. i \in 1..(Len(u) + Len(w)) /\ i <= Len(u)
    BY <1>8
  <2> QED BY <1>5, <2>1
<1>10. \A i \in 1..Len(f) : x[i] = f[i]
  <2> SUFFICES ASSUME NEW i \in 1..Len(f) PROVE x[i] = f[i]
    OBVIOUS
  <2>1. i \in 1..(Len(f) + Len(rest)) /\ i <= Len(f)
    BY <1>8
  <2> QED BY <1>7, <2>1
<1>11. Len(f) <= Len(u)
  <2> SUFFICES ASSUME ~(Len(f) <= Len(u)) PROVE FALSE
    OBVIOUS
  <2> DEFINE k == Len(u)
  <2>1. k \in 1..Len(e) /\ k \in 1..Len(f) /\ k \in 1..Len(u)
    BY <1>4, <1>8
  <2>2. u[k] = NHDLC_CONTROL_CHAR
    BY DEF EndsFrame
  <2> HIDE DEF k
  <2>3. u[k] = x[k] /\ x[k] = f[k] /\ f[k] = e[k]
    BY <1>4, <1>9, <1>10, <2>1
  <2>4. e[k] # NHDLC_CONTROL_CHAR
    BY <1>1, <2>1 DEF Unmarked
  <2> QED BY <2>2, <2>3, <2>4
<1> DEFINE n == Len(f)
           u1 == SubSeq(u, 1, n)
           u2 == SubSeq(u, n + 1, Len(u))
<1>12. n \in 1..Len(u)
  BY <1>4, <1>8, <1>11
<1>13. u1 \in Seq(Byte) /\ u2 \in Seq(Byte) /\ u1 \o u2 = u
  <2> HIDE DEF n
  <2> QED BY <1>12, CutOff
<1>14. u1 = f
  <2>1. Len(u1) = n /\ \A i \in 1..n : u1[i] = u[i]
    <3>0. 1 \in Int /\ n \in Int /\ 1 <= n /\ (n - 1) + 1 = n
      BY <1>8, <1>12
    <3>1. \A i \in 1..n : u[i] \in Byte
      BY <1>12, LenProperties
    <3> HIDE DEF n
    <3> QED BY <1>12, <3>0, <3>1, SubSeqProperties
  <2>2. \A i \in 1..n : u1[i] = f[i]
    <3> SUFFICES ASSUME NEW i \in 1..n PROVE u1[i] = f[i]
      OBVIOUS
    <3>1. i \in 1..Len(u) /\ i \in 1..Len(f)
      BY <1>8, <1>11
    <3> QED BY <1>9, <1>10, <2>1, <3>1
  <2> HIDE DEF u1
  <2> QED BY <1>3, <1>13, <2>1, <2>2, SeqEqual
<1> HIDE DEF u1, u2
<1>15. u = f \o u2
  BY <1>13, <1>14
<1>16. u2 \o w = rest
  <2> DEFINE y == u2 \o w
  <2>1. y \in Seq(Byte)
    BY <1>13, ConcatProperties
  <2>2. f \o y = (f \o u2) \o w
    <3>1. f \in Seq(Byte)
      BY <1>3
    <3>2. u2 \in Seq(Byte)
      BY <1>13
    <3>3. w \in Seq(Byte)
      OBVIOUS
    <3>4. f \o (u2 \o w) = (f \o u2) \o w
      BY ZenonT(30), <3>1, <3>2, <3>3, Regroup
    <3> QED BY <3>4
  <2>3. f \o y = f \o rest
    BY <1>6, <1>15, <2>2 DEF x
  <2> HIDE DEF y
  <2>4. y = rest
    BY <1>3, <2>1, <2>3, ConcatSimplifications
  <2> QED BY <2>4 DEF y
<1>17. EndsFrame(u2)
  <2>1. CASE u2 = <<>>
    BY <2>1 DEF EndsFrame
  <2>2. CASE u2 # <<>>
    <3> DEFINE v == f \o u2
    <3>0. Len(u2) \in Nat /\ Len(u2) # 0
      BY <1>13, <2>2, EmptySeq, LenProperties
    <3>1. Len(v) = Len(f) + Len(u2)
          /\ \A i \in 1..(Len(f) + Len(u2)) : v[i] = IF i <= Len(f) THEN f[i] ELSE u2[i - Len(f)]
      BY <1>3, <1>13, ConcatProperties
    <3>2. v = u
      BY <1>15
    <3> HIDE DEF v
    <3>3. /\ Len(f) + Len(u2) \in 1..(Len(f) + Len(u2)) /\ ~(Len(f) + Len(u2) <= Len(f))
          /\ (Len(f) + Len(u2)) - Len(f) = Len(u2)
      BY <1>8, <3>0
    <3>4. v[Len(v)] = u2[Len(u2)]
      BY <3>1, <3>3
    <3> QED BY <3>2, <3>4 DEF EndsFrame
  <2> QED BY <2>1, <2>2
<1> QED BY <1>13, <1>15, <1>16, <1>17 DEF f, Holds

-----------------------------------------------------------------------------
(* Commands and answers.                                                   *)

\* A stream in HDLC: what its host has sent and the router has not handled is in
\* its buffer and on its wire, as whole frames up to where the buffer ends.
StreamIntact(d) ==
    /\ d \notin garbled \cup confused
    /\ encode_type[d] = "HDLC" /\ host[d] = "HDLC"
    /\ \A i \in 1..Len(outq[d]) : outq[d][i].enc = "HDLC" /\ outq[d][i].rsp # "hdlc_disabled"
    /\ Unread(recv_buf[d]) \o wire[d] = Joined(Frames(due[d]))
    /\ EndsFrame(Unread(recv_buf[d]))

\* Where the one command of a USB host can be: nowhere, in a transfer, in the
\* buffer, or it is answered and the answer has not arrived.
Busy(d) == pc \in {"decode", "hdlc"} /\ serving = d

Idle(d) ==
    /\ xfer[d] = <<>> /\ due[d] = <<>> /\ outq[d] = <<>>
    /\ host[d] = encode_type[d] /\ ~Busy(d)

Sent(d) ==
    /\ d \in waiting /\ outq[d] = <<>> /\ host[d] = encode_type[d] /\ ~Busy(d)
    /\ \E m \in Cmd[d] : due[d] = <<m>> /\ xfer[d] = <<Framed(host[d], m)>>

Read(d) ==
    /\ d \in waiting /\ outq[d] = <<>> /\ host[d] = encode_type[d] /\ xfer[d] = <<>>
    /\ serving = d
    /\ \E m \in Cmd[d] :
          /\ due[d] = <<m>>
          /\ \/ pc = "decode" /\ recv_buf[d] = Filled(FreshRing, Framed(host[d], m))
             \/ pc = "hdlc" /\ host[d] = "HDLC" /\ Unread(recv_buf[d]) = hdlc_encode(m)

Replied(d) ==
    /\ d \in waiting /\ xfer[d] = <<>> /\ due[d] = <<>>
    /\ \E rsp \in Responses :
          /\ outq[d] = <<[enc |-> host[d], rsp |-> rsp]>>
          /\ encode_type[d] = IF rsp = "hdlc_disabled" THEN "NHDLC" ELSE host[d]
    /\ Busy(d) => pc = "hdlc" /\ Unread(recv_buf[d]) = <<>>

UsbIntact(d) ==
    /\ d \notin garbled \cup confused
    /\ Idle(d) \/ Sent(d) \/ Read(d) \/ Replied(d)

\* hdlc_decode_one leaves a fresh decoder behind the frames it finds.
DecoderFresh == pc = "hdlc" => recv_decoder = FreshDecoder

Intact ==
    /\ DecoderFresh
    /\ \A d \in Usb \ surprised : UsbIntact(d)
    /\ \A d \in Stream \ (surprised \cup split) : StreamIntact(d)

\* A step that has nothing to do with a DM.
Untouched(d) ==
    /\ encode_type'[d] = encode_type[d] /\ host'[d] = host[d]
    /\ outq'[d] = outq[d] /\ due'[d] = due[d] /\ recv_buf'[d] = recv_buf[d]
    /\ d \in garbled' <=> d \in garbled
    /\ d \in confused' <=> d \in confused
    /\ d \in waiting' <=> d \in waiting
    /\ d \in Stream => wire'[d] = wire[d]
    /\ d \in Usb => xfer'[d] = xfer[d]

LEMMA StreamUntouched ==
    ASSUME NEW d \in Stream, StreamIntact(d), Untouched(d)
    PROVE  StreamIntact(d)'
BY DEF StreamIntact, Untouched

LEMMA UsbUntouched ==
    ASSUME NEW d \in Usb, UsbIntact(d), Untouched(d), ~Busy(d), ~Busy(d)'
    PROVE  UsbIntact(d)'
<1>1. d \notin garbled' \cup confused'
  BY DEF UsbIntact, Untouched
<1>2. CASE Idle(d)
  <2>1. Idle(d)'
    BY <1>2 DEF Idle, Untouched
  <2> QED BY <1>1, <2>1 DEF UsbIntact
<1>3. CASE Sent(d)
  <2>1. Sent(d)'
    BY <1>3 DEF Sent, Untouched
  <2> QED BY <1>1, <2>1 DEF UsbIntact
<1>4. CASE Read(d)
  BY <1>4 DEF Read, Busy
<1>5. CASE Replied(d)
  <2>1. Replied(d)'
    BY <1>5 DEF Replied, Untouched
  <2> QED BY <1>1, <2>1 DEF UsbIntact
<1> QED BY <1>2, <1>3, <1>4, <1>5 DEF UsbIntact

\* A command of one DM, for another that is not surprised by it.
LEMMA CommandElsewhere ==
    ASSUME AnswerTypes, NEW types \in Types, NEW e \in Dm, NEW ptr, NEW len,
           diag_client_handle_command(types, e, ptr, len),
           NEW d \in Encoded, d # e, d \notin surprised'
    PROVE  /\ encode_type'[d] = types[d] /\ outq'[d] = outq[d] /\ due'[d] = due[d]
           /\ d \in garbled' <=> d \in garbled
           /\ d \notin surprised
<1> DEFINE rsp == Response(ptr, len)
           m == SubSeq(ptr, 1, Least(len, Len(ptr)))
<1>1. /\ outq' = Answered(types, e, rsp) /\ Note(e, m) /\ encode_type' = Switched(types, rsp)
      /\ surprised' = surprised
             \cup {f \in Encoded \ ({e} \cap Usb) : Switched(types, rsp)[f] # types[f]}
  BY DEF diag_client_handle_command
<1> HIDE DEF rsp, m
<1>2. outq'[d] = outq[d]
  BY <1>1 DEF Answered, AnswerTypes
<1>3. due'[d] = due[d] /\ (d \in garbled' <=> d \in garbled)
  <2>1. \/ due' = [due EXCEPT ![e] = Tail(@)] /\ garbled' = garbled
        \/ due' = [due EXCEPT ![e] = <<>>] /\ garbled' = garbled \cup {e}
    BY <1>1 DEF Note
  <2>2. due'[d] = due[d]
    <3>1. due \in [Dm -> Seq(Seq(Byte))] /\ d \in Dm
      BY Parts DEF AnswerTypes
    <3> QED BY <2>1, <3>1
  <2>3. d \in garbled' <=> d \in garbled
    BY <2>1
  <2> QED BY <2>2, <2>3
<1>4. d \notin surprised /\ encode_type'[d] = types[d]
  BY <1>1
<1> QED BY <1>2, <1>3, <1>4

\* A command of a DM, if it is the next one its host has sent.
LEMMA CommandHere ==
    ASSUME AnswerTypes, NEW types \in Types, NEW d \in Dm, NEW ptr, NEW len,
           diag_client_handle_command(types, d, ptr, len),
           d \notin garbled, due[d] # <<>>,
           Head(due[d]) = SubSeq(ptr, 1, Least(len, Len(ptr)))
    PROVE  /\ due'[d] = Tail(due[d]) /\ garbled' = garbled
           /\ \E rsp \in Responses :
                 /\ encode_type' = Switched(types, rsp)
                 /\ outq'[d] = IF Len(outq[d]) < MaxAnswers
                               THEN Append(outq[d], [enc |-> types[d], rsp |-> rsp]) ELSE outq[d]
                 /\ surprised' = surprised
                        \cup {e \in Encoded \ ({d} \cap Usb) : Switched(types, rsp)[e] # types[e]}
<1> DEFINE rsp == Response(ptr, len)
           m == SubSeq(ptr, 1, Least(len, Len(ptr)))
<1>1. /\ outq' = Answered(types, d, rsp) /\ Note(d, m) /\ encode_type' = Switched(types, rsp)
      /\ surprised' = surprised
             \cup {e \in Encoded \ ({d} \cap Usb) : Switched(types, rsp)[e] # types[e]}
  BY DEF diag_client_handle_command
<1>2. rsp \in Responses /\ Head(due[d]) = m
  BY ResponseType
<1> HIDE DEF rsp, m
<1>3. due'[d] = Tail(due[d]) /\ garbled' = garbled
  <2>1. due' = [due EXCEPT ![d] = Tail(@)] /\ UNCHANGED garbled
    BY <1>1, <1>2 DEF Note
  <2> QED BY <2>1 DEF AnswerTypes
<1>4. outq'[d] = IF Len(outq[d]) < MaxAnswers
                 THEN Append(outq[d], [enc |-> types[d], rsp |-> rsp]) ELSE outq[d]
  <2> DEFINE q == Append(outq[d], [enc |-> types[d], rsp |-> rsp])
  <2>1. outq' = IF Len(outq[d]) < MaxAnswers THEN [outq EXCEPT ![d] = q] ELSE outq
    BY <1>1 DEF Answered
  <2> HIDE DEF q
  <2>2. outq'[d] = IF Len(outq[d]) < MaxAnswers THEN q ELSE outq[d]
    BY <2>1 DEF AnswerTypes
  <2> QED BY <2>2 DEF q
<1> QED BY <1>1, <1>2, <1>3, <1>4

\* Histories only grow.
LEMMA HistoriesGrow ==
    ASSUME [Next]_vars
    PROVE  surprised \subseteq surprised' /\ split \subseteq split'
<1>1. CASE Select \/ DispatchDone \/ circ_read_Done \/ circ_read_Error \/ dm_recv_hdlc
           \/ (\E d \in rfds : diag_ffs_recv(d) \/ dm_recv_encoded(d)) \/ UNCHANGED vars
  BY <1>1 DEF Select, DispatchDone, circ_read_Done, circ_read_Error, dm_recv_hdlc, diag_ffs_recv,
              dm_recv_encoded, vars, history
<1>2. CASE Timer
  BY <1>2 DEF Timer, diag_hdlc_reset
<1>3. CASE circ_read
  BY <1>3 DEF circ_read
<1>4. CASE \E d \in rfds : dm_recv_raw(d)
  BY <1>4 DEF dm_recv_raw, diag_client_handle_command
<1>5. CASE DecodeOne
  BY <1>5 DEF DecodeOne, diag_client_handle_command
<1>6. CASE dm_recv_nhdlc
  BY <1>6 DEF dm_recv_nhdlc, diag_client_handle_command
<1>7. CASE Environment
  BY <1>7 DEF Environment, HostSend, HostReceive, HostTimeout, HostClose, OthersChange,
              history
<1> QED BY <1>1, <1>2, <1>3, <1>4, <1>5, <1>6, <1>7 DEF Next, RouterStep

LEMMA QuietLoop ==
    ASSUME NEW d \in Encoded,
           Select \/ DispatchDone \/ (\E e \in rfds : dm_recv_encoded(e))
               \/ circ_read_Done \/ circ_read_Error \/ dm_recv_hdlc \/ UNCHANGED vars
    PROVE  Untouched(d)
<1>1. UNCHANGED <<encode_type, recv_buf, outq, due, garbled, wire, xfer, host, waiting, confused>>
  BY DEF Select, DispatchDone, circ_read_Done, circ_read_Error, dm_recv_hdlc, dm_recv_encoded,
         vars, dms, input, commands, hosts, history
<1> QED BY <1>1 DEF Untouched

LEMMA QuietTimer ==
    ASSUME TypeInv, NEW d \in Encoded, d \notin surprised', Timer
    PROVE  Untouched(d)
<1>1. UNCHANGED <<recv_buf, outq, due, garbled, wire, xfer, host, waiting, confused>>
  BY DEF Timer, input, commands, hosts
<1>2. encode_type' = set_encode_type(encode_type, "HDLC")
      /\ surprised' = surprised \cup {e \in Encoded : encode_type[e] # "HDLC"}
  BY DEF Timer, diag_hdlc_reset
<1>3. encode_type \in Types
  BY DEF TypeInv, RecoveryInv, Shape
<1>4. encode_type'[d] = encode_type[d]
  BY <1>2, <1>3, SetEncodeType
<1> QED BY <1>1, <1>4 DEF Untouched

LEMMA QuietCommand ==
    ASSUME TypeInv, NEW d \in Encoded, d \notin surprised',
           \/ \E e \in rfds : dm_recv_raw(e)
           \/ serving # d /\ (DecodeOne \/ dm_recv_nhdlc)
    PROVE  Untouched(d)
<1>0. AnswerTypes /\ encode_type \in Types /\ d \in Dm
  BY Parts DEF TypeInv, RecoveryInv, Shape
<1>1. CASE \E e \in rfds : dm_recv_raw(e)
  <2>1. PICK e \in rfds : dm_recv_raw(e)
    BY <1>1
  <2>2. e \in Raw /\ e \in Dm /\ e # d /\ d \notin Raw
    BY <2>1, Parts DEF dm_recv_raw
  <2>3. /\ diag_client_handle_command(encode_type, e, Head(xfer[e]), Len(Head(xfer[e])))
        /\ xfer' = [xfer EXCEPT ![e] = Tail(@)]
        /\ UNCHANGED <<recv_buf, wire, host, waiting, confused>>
    BY <2>1 DEF dm_recv_raw, input, hosts
  <2>4. /\ encode_type'[d] = encode_type[d] /\ outq'[d] = outq[d] /\ due'[d] = due[d]
        /\ d \in garbled' <=> d \in garbled
    BY <1>0, <2>2, <2>3, CommandElsewhere
  <2>5. d \in Usb => xfer'[d] = xfer[d]
    BY <2>2, <2>3 DEF TypeInv, HostTypes
  <2> QED BY <2>3, <2>4, <2>5 DEF Untouched
<1>2. CASE serving # d /\ DecodeOne
  <2>1. PICK one :
           /\ recv_buf' = [recv_buf EXCEPT ![serving] = one.ring]
           /\ \/ diag_client_handle_command(encode_type, serving, one.raw, msglen(one.raw))
              \/ UNCHANGED <<outq, encode_type, commands, surprised>>
    BY <1>2 DEF DecodeOne
  <2>2. UNCHANGED <<wire, xfer, host, waiting, confused>> /\ pc = "hdlc"
    BY <1>2 DEF DecodeOne, hosts
  <2>3. serving \in Dm
    BY <2>2, Parts DEF TypeInv, RecoveryInv, Shape
  <2>4. /\ encode_type'[d] = encode_type[d] /\ outq'[d] = outq[d] /\ due'[d] = due[d]
        /\ d \in garbled' <=> d \in garbled
    <3>1. CASE diag_client_handle_command(encode_type, serving, one.raw, msglen(one.raw))
      BY <1>0, <1>2, <2>3, <3>1, CommandElsewhere
    <3>2. CASE UNCHANGED <<outq, encode_type, commands, surprised>>
      BY <3>2 DEF commands
    <3> QED BY <2>1, <3>1, <3>2
  <2>5. recv_buf'[d] = recv_buf[d]
    BY <1>2, <2>1 DEF TypeInv, InputTypes
  <2> QED BY <2>2, <2>4, <2>5 DEF Untouched
<1>3. CASE serving # d /\ dm_recv_nhdlc
  <2> DEFINE ptr == PktData(recv_buf[serving].buf)
             len == PktLength(recv_buf[serving].buf)
  <2>1. \/ diag_client_handle_command(encode_type, serving, ptr, len)
        \/ diag_client_handle_command(Recovered(serving), serving, ptr, len)
    BY <1>3 DEF dm_recv_nhdlc
  <2>2. UNCHANGED <<recv_buf, wire, xfer, host, waiting, confused>> /\ pc = "decode"
    BY <1>3 DEF dm_recv_nhdlc, input, hosts
  <2>3. serving \in Dm /\ serving \in Encoded
    BY <2>2, Parts DEF TypeInv, RecoveryInv, Shape
  <2>4. Recovered(serving) \in Types /\ Recovered(serving)[d] = encode_type[d]
    <3>1. encode_type \in [Dm -> Encode]
      BY <1>0 DEF Types
    <3> QED BY <1>0, <1>3, <2>3, <3>1, RecoveredType DEF Recovered
  <2> HIDE DEF ptr, len
  <2>5. /\ encode_type'[d] = encode_type[d] /\ outq'[d] = outq[d] /\ due'[d] = due[d]
        /\ d \in garbled' <=> d \in garbled
    BY <1>0, <1>3, <2>1, <2>3, <2>4, CommandElsewhere
  <2> QED BY <2>2, <2>5 DEF Untouched
<1> QED BY <1>1, <1>2, <1>3

LEMMA QuietRead ==
    ASSUME TypeInv, NEW d \in Encoded,
           \/ serving # d /\ circ_read
           \/ \E e \in rfds : e # d /\ diag_ffs_recv(e)
    PROVE  Untouched(d)
<1>1. CASE serving # d /\ circ_read
  <2>1. UNCHANGED <<encode_type, outq, due, garbled, xfer, host, waiting, confused>>
    BY <1>1 DEF circ_read, dms, commands, hosts
  <2>2. \E r, w : recv_buf' = [recv_buf EXCEPT ![serving] = r]
                  /\ wire' = [wire EXCEPT ![serving] = w]
    BY <1>1 DEF circ_read
  <2>3. recv_buf'[d] = recv_buf[d] /\ (d \in Stream => wire'[d] = wire[d])
    BY <1>1, <2>2 DEF TypeInv, InputTypes, HostTypes
  <2> QED BY <2>1, <2>3 DEF Untouched
<1>2. ASSUME NEW e \in rfds, e # d, diag_ffs_recv(e) PROVE Untouched(d)
  <2>1. /\ UNCHANGED <<encode_type, outq, due, garbled, wire, host, waiting, confused>>
        /\ xfer' = [xfer EXCEPT ![e] = Tail(@)]
        /\ recv_buf' = [recv_buf EXCEPT ![e] = Filled(FreshRing, Head(xfer[e]))]
    BY <1>2 DEF diag_ffs_recv, dms, commands, hosts, history
  <2>2. recv_buf'[d] = recv_buf[d] /\ (d \in Usb => xfer'[d] = xfer[d])
    BY <1>2, <2>1 DEF TypeInv, InputTypes, HostTypes
  <2> QED BY <2>1, <2>2 DEF Untouched
<1> QED BY <1>1, <1>2

LEMMA QuietHost ==
    ASSUME TypeInv, NEW d \in Encoded, NEW e \in Dm,
           \/ e # d /\ (HostReceive(e) \/ HostTimeout(e) \/ \E m \in Cmd[e] : HostSend(e, m))
           \/ HostClose(e) \/ OthersChange
    PROVE  Untouched(d)
<1>0. d \in Dm /\ AnswerTypes /\ HostTypes
  BY Parts DEF TypeInv
<1>1. UNCHANGED <<encode_type, recv_buf>>
  BY DEF HostReceive, HostTimeout, HostSend, HostClose, OthersChange, dms, input
<1>2. CASE e # d /\ HostReceive(e)
  <2>1. /\ UNCHANGED <<due, garbled, wire, xfer>>
        /\ outq' = [outq EXCEPT ![e] = Tail(@)] /\ waiting' = waiting \ {e}
        /\ (confused' = confused \/ confused' = confused \cup {e})
    BY <1>2 DEF HostReceive, commands
  <2>2. \E h : host' = [host EXCEPT ![e] = h]
    BY <1>2 DEF HostReceive
  <2>3. host \in [Dm -> Encode] /\ outq \in [Dm -> Seq(Answer)]
    BY <1>0 DEF HostTypes, Types, AnswerTypes
  <2>4. host'[d] = host[d] /\ outq'[d] = outq[d]
    BY <1>0, <1>2, <2>1, <2>2, <2>3
  <2>5. (d \in waiting' <=> d \in waiting) /\ (d \in confused' <=> d \in confused)
    BY <1>2, <2>1
  <2> QED BY <1>1, <2>1, <2>4, <2>5 DEF Untouched
<1>3. CASE e # d /\ HostTimeout(e)
  <2>1. /\ UNCHANGED <<due, garbled, wire, xfer, outq, host, confused>> /\ waiting' = waiting \ {e}
    BY <1>3 DEF HostTimeout, commands, history
  <2>2. d \in waiting' <=> d \in waiting
    BY <1>3, <2>1
  <2> QED BY <1>1, <2>1, <2>2 DEF Untouched
<1>4. ASSUME NEW m \in Cmd[e], e # d, HostSend(e, m) PROVE Untouched(d)
  <2> DEFINE f == Framed(host[e], m)
  <2>1. /\ UNCHANGED <<outq, host, garbled, confused>> /\ waiting' = waiting \cup {e}
        /\ (due' = due \/ due' = [due EXCEPT ![e] = Append(@, m)])
        /\ IF e \in Stream
           THEN wire' = [wire EXCEPT ![e] = @ \o f] /\ xfer' = xfer
           ELSE xfer' = [xfer EXCEPT ![e] = Append(@, f)] /\ wire' = wire
    BY <1>4 DEF HostSend, history
  <2> HIDE DEF f
  <2>2. due'[d] = due[d]
    BY <1>0, <1>4, <2>1 DEF AnswerTypes
  <2>3. (d \in Stream => wire'[d] = wire[d]) /\ (d \in Usb => xfer'[d] = xfer[d])
    BY <1>0, <1>4, <2>1 DEF HostTypes
  <2>4. d \in waiting' <=> d \in waiting
    BY <1>4, <2>1
  <2> QED BY <1>1, <2>1, <2>2, <2>3, <2>4 DEF Untouched
<1>5. CASE HostClose(e)
  BY <1>1, <1>5 DEF HostClose, commands, hosts, history, Untouched
<1>6. CASE OthersChange
  BY <1>1, <1>6 DEF OthersChange, commands, history, Untouched
<1> QED BY <1>2, <1>3, <1>4, <1>5, <1>6

\* The read of a stream that ends where a frame does moves whole frames, and the
\* rest of those that were read in part.
LEMMA StreamRead ==
    ASSUME TypeInv, circ_read, serving \in Stream, StreamIntact(serving),
           serving \notin split'
    PROVE  StreamIntact(serving)'
<1> DEFINE d == serving
           r == recv_buf[d]
           w == wire[d]
           space == CIRC_SPACE_TO_END(r)
<1>0. AnswerTypes /\ InputTypes /\ LoopTypes /\ HostTypes
  BY DEF TypeInv
<1>1. d \in Encoded /\ d \in Dm /\ r \in Ring /\ w \in Seq(Byte)
  BY <1>0, Parts DEF InputTypes, HostTypes
<1>2. PICK n \in ReadsAtLeast(d, space)..Least(space, Len(w)) :
         /\ recv_buf' = [recv_buf EXCEPT ![d] = Filled(r, SubSeq(w, 1, n))]
         /\ wire' = [wire EXCEPT ![d] = SubSeq(w, n + 1, Len(w))]
         /\ split' = IF w[n] = NHDLC_CONTROL_CHAR THEN split ELSE split \cup {d}
  BY <1>0, <1>1 DEF circ_read, InputTypes, HostTypes
<1>3. n \in 1..Len(w) /\ n <= space
  <2>1. space \in Nat /\ space # 0
    BY <1>1, SpaceType DEF circ_read
  <2>2. Len(w) \in Nat
    BY <1>1, LenProperties
  <2> HIDE DEF space, w
  <2>3. VMIN \in Nat \ {0}
    BY EncodingAssumption
  <2>4. n >= ReadsAtLeast(d, space) /\ n <= space /\ n <= Len(w) /\ n \in Int
    BY <1>2, <2>1, <2>2, <2>3 DEF ReadsAtLeast, Least
  <2>5. n >= 1
    BY <2>1, <2>3, <2>4, ReadsSome
  <2> QED BY <2>2, <2>4, <2>5
<1> DEFINE p == SubSeq(w, 1, n)
           q == SubSeq(w, n + 1, Len(w))
           u == Unread(r)
           r2 == Filled(r, p)
           rest == Joined(Frames(due[d]))
<1>4. p \in Seq(Byte) /\ q \in Seq(Byte) /\ p \o q = w /\ Len(p) = n /\ p[n] = w[n]
  <2>1. p \in Seq(Byte) /\ q \in Seq(Byte) /\ p \o q = w
    BY <1>1, <1>3, CutOff
  <2>2. Len(p) = n /\ p[n] = w[n]
    BY <1>1, <1>3
  <2> QED BY <2>1, <2>2
<1>5. Unread(r2) = u \o p /\ u \in Seq(Byte)
  BY <1>1, <1>3, <1>4, RingAppends, UnreadType
<1>6. u \o w = rest
  BY DEF StreamIntact
<1>7. w[n] = NHDLC_CONTROL_CHAR
  BY <1>2
<1>8. recv_buf'[d] = r2 /\ wire'[d] = q
  BY <1>0, <1>1, <1>2 DEF InputTypes, HostTypes
<1>9. UNCHANGED <<serving, encode_type, outq, due, garbled, host, confused>>
  BY DEF circ_read, dms, commands, hosts
<1> HIDE DEF p, q, u, r2, w
<1>10. EndsFrame(u \o p)
  <2>1. p # <<>> /\ p[Len(p)] = NHDLC_CONTROL_CHAR
    BY <1>3, <1>4, <1>7, EmptySeq
  <2> QED BY <1>4, <1>5, <2>1, EndsBehind
<1>11. (u \o p) \o q = rest
  <2>1. p \in Seq(Byte)
    BY <1>4
  <2>2. q \in Seq(Byte)
    BY <1>4
  <2>3. u \in Seq(Byte)
    BY <1>5
  <2>4. u \o (p \o q) = (u \o p) \o q
    BY ZenonT(30), <2>1, <2>2, <2>3, Regroup
  <2> HIDE DEF rest
  <2> QED BY <1>4, <1>6, <2>4
<1>12. Unread(recv_buf'[d]) \o wire'[d] = rest /\ EndsFrame(Unread(recv_buf'[d]))
  BY <1>5, <1>8, <1>10, <1>11
<1> HIDE DEF rest
<1>13. StreamIntact(d) /\ rest' = rest /\ d' = d
  BY <1>9 DEF rest
<1> QED BY <1>9, <1>12, <1>13 DEF StreamIntact, rest

\* The message of a frame is the command, and the CRC behind it is not counted.
LEMMA RawMessage ==
    ASSUME NEW m \in Seq(Byte)
    PROVE  /\ msglen(RawOf(m)) >= 0
           /\ SubSeq(RawOf(m), 1, Least(msglen(RawOf(m)), Len(RawOf(m)))) = m
<1>1. Message(RawOf(m)) = m
  BY DecodesFrame
<1>2. RawOf(m) \in Seq(Byte) /\ Len(RawOf(m)) = Len(m) + 2 /\ Len(m) \in Nat
  BY FrameType, LenProperties DEF RawOf
<1>3. msglen(RawOf(m)) = Len(m) /\ Least(msglen(RawOf(m)), Len(RawOf(m))) = msglen(RawOf(m))
  BY <1>2 DEF msglen, Least
<1> QED BY <1>1, <1>2, <1>3 DEF Message

\* The next frame of a stream is the next command of its host.
LEMMA StreamDecodes ==
    ASSUME TypeInv, DecodeOne, DecoderFresh, serving \in Stream, StreamIntact(serving),
           serving \notin surprised'
    PROVE  StreamIntact(serving)'
<1> DEFINE d == serving
           r == recv_buf[d]
           w == wire[d]
           u == Unread(r)
           ms == due[d]
<1>0. AnswerTypes /\ InputTypes /\ HostTypes /\ encode_type \in Types
  BY DEF TypeInv, RecoveryInv, Shape
<1>1. /\ d \in Encoded /\ d \in Dm /\ r \in Ring /\ w \in Seq(Byte) /\ ms \in Seq(Seq(Byte))
      /\ d \notin Usb
  BY <1>0, Parts DEF InputTypes, HostTypes, AnswerTypes
<1>2. pc = "hdlc" /\ recv_decoder = FreshDecoder
  BY DEF DecodeOne, DecoderFresh
<1>3. PICK one :
         /\ one = hdlc_decode_one(FreshDecoder, r)
         /\ recv_buf' = [recv_buf EXCEPT ![d] = one.ring]
         /\ IF one.found /\ msglen(one.raw) >= 0
            THEN diag_client_handle_command(encode_type, d, one.raw, msglen(one.raw))
            ELSE UNCHANGED <<outq, encode_type, commands, surprised>>
  BY <1>2 DEF DecodeOne
<1>4. UNCHANGED <<serving, wire, host, confused>>
  BY DEF DecodeOne, hosts
<1>5. recv_buf'[d] = one.ring
  BY <1>0, <1>1, <1>3 DEF InputTypes
<1>6. u \in Seq(Byte) /\ u \o w = Joined(Frames(ms)) /\ EndsFrame(u)
  BY <1>1, UnreadType DEF StreamIntact
<1> HIDE DEF r, u, w, ms
<1>7. CASE u = <<>>
  <2>1. ~one.found /\ Unread(one.ring) = <<>>
    BY <1>1, <1>3, <1>7, FreshType, DecodesNothing DEF u
  <2>2. UNCHANGED <<outq, encode_type, due, garbled>>
    BY <1>3, <2>1 DEF commands
  <2>3. Unread(recv_buf'[d]) = u
    BY <1>5, <1>7, <2>1
  <2> QED BY <1>4, <2>2, <2>3 DEF StreamIntact, u, r
<1>8. CASE u # <<>>
  <2>1. ms # <<>>
    <3> SUFFICES ASSUME ms = <<>> PROVE FALSE
      OBVIOUS
    <3>1. Frames(ms) = <<>>
      <4>1. Frames(ms) \in Seq(Seq(Byte)) /\ Len(Frames(ms)) = 0
        BY <1>1, FramesType, EmptySeq
      <4> QED BY <4>1, EmptySeq
    <3>2. u \o w = <<>>
      BY <1>6, <3>1, JoinedNone
    <3>3. u = <<>>
      BY <1>1, <1>6, <3>2, ConcatSimplifications
    <3> QED BY <1>8, <3>3
  <2> DEFINE m == Head(ms)
             rest == Joined(Frames(Tail(ms)))
  <2>2. m \in Seq(Byte) /\ Tail(ms) \in Seq(Seq(Byte))
        /\ Joined(Frames(ms)) = hdlc_encode(m) \o rest
    BY <1>1, <2>1, FramesFirst
  <2>3. rest \in Seq(Byte)
    BY <2>2, FramesType, JoinedType
  <2> HIDE DEF m, rest
  <2>4. PICK u2 \in Seq(Byte) : u = hdlc_encode(m) \o u2 /\ u2 \o w = rest /\ EndsFrame(u2)
    <3>1. u \o w = hdlc_encode(m) \o rest
      BY <1>6, <2>2
    <3>2. m \in Seq(Byte)
      BY <2>2
    <3>3. u \in Seq(Byte) /\ EndsFrame(u)
      BY <1>6
    <3>4. w \in Seq(Byte)
      BY <1>1
    <3>5. Holds(u, m, w, rest)
      BY <1>8, <2>3, <3>1, <3>2, <3>3, <3>4, HoldsFirst
    <3> QED BY <3>5 DEF Holds
  <2>5. one.found /\ one.raw = RawOf(m) /\ Unread(one.ring) = u2
    <3>1. m \in Seq(Byte) /\ r \in Ring
      BY <1>1, <2>2
    <3>2. Unread(r) = hdlc_encode(m) \o u2
      BY <2>4 DEF u
    <3>3. one = hdlc_decode_one(FreshDecoder, r)
      BY <1>3
    <3> QED BY <3>1, <3>2, <3>3, DecodesFirst
  <2>6. diag_client_handle_command(encode_type, d, RawOf(m), msglen(RawOf(m)))
    BY <1>3, <2>2, <2>5, RawMessage
  <2>7. Head(ms) = SubSeq(RawOf(m), 1, Least(msglen(RawOf(m)), Len(RawOf(m))))
    BY <2>2, RawMessage DEF m
  <2>8. d \notin garbled \cup confused /\ encode_type[d] = "HDLC" /\ host[d] = "HDLC"
        /\ \A i \in 1..Len(outq[d]) : outq[d][i].enc = "HDLC" /\ outq[d][i].rsp # "hdlc_disabled"
    BY DEF StreamIntact
  <2>9. /\ due'[d] = Tail(ms) /\ garbled' = garbled
        /\ \E rsp \in Responses :
              /\ encode_type' = Switched(encode_type, rsp)
              /\ outq'[d] = IF Len(outq[d]) < MaxAnswers
                            THEN Append(outq[d], [enc |-> encode_type[d], rsp |-> rsp])
                            ELSE outq[d]
              /\ surprised' = surprised \cup
                     {e \in Encoded \ ({d} \cap Usb) : Switched(encode_type, rsp)[e] # encode_type[e]}
    BY <1>0, <1>1, <2>1, <2>6, <2>7, <2>8, CommandHere DEF ms
  <2>10. PICK rsp \in Responses :
              /\ encode_type' = Switched(encode_type, rsp)
              /\ outq'[d] = IF Len(outq[d]) < MaxAnswers
                            THEN Append(outq[d], [enc |-> encode_type[d], rsp |-> rsp])
                            ELSE outq[d]
              /\ surprised' = surprised \cup
                     {e \in Encoded \ ({d} \cap Usb) : Switched(encode_type, rsp)[e] # encode_type[e]}
    BY <2>9
  <2>11. encode_type'[d] = "HDLC" /\ rsp # "hdlc_disabled"
    <3>1. encode_type'[d] = encode_type[d]
      BY <1>1, <2>10
    <3>2. CASE rsp = "hdlc_disabled"
      <4>1. encode_type'[d] = "NHDLC"
        BY <1>0, <1>1, <2>10, <3>2, SetEncodeType DEF Switched
      <4> QED BY <2>8, <3>1, <4>1
    <3> QED BY <2>8, <3>1, <3>2
  <2>12. \A i \in 1..Len(outq'[d]) :
            outq'[d][i].enc = "HDLC" /\ outq'[d][i].rsp # "hdlc_disabled"
    <3> DEFINE q == outq[d]
               a == [enc |-> encode_type[d], rsp |-> rsp]
    <3>1. q \in Seq(Answer)
      BY <1>0, <1>1 DEF AnswerTypes
    <3>2. a.enc = "HDLC" /\ a.rsp # "hdlc_disabled" /\ a \in Answer
      BY <2>8, <2>11 DEF Answer, Encode
    <3>3. outq'[d] = Append(q, a) \/ outq'[d] = q
      BY <2>10
    <3>4. \A i \in 1..Len(q) : q[i].enc = "HDLC" /\ q[i].rsp # "hdlc_disabled"
      BY <2>8
    <3> HIDE DEF q, a
    <3>5. CASE outq'[d] = Append(q, a)
      <4> DEFINE t == Append(q, a)
      <4>1. Len(t) = Len(q) + 1 /\ Len(q) \in Nat /\ t[Len(q) + 1] = a
            /\ \A i \in 1..Len(q) : t[i] = q[i]
        BY <3>1, <3>2, AppendProperties, LenProperties
      <4> HIDE DEF t
      <4>2. \A i \in 1..Len(t) : t[i].enc = "HDLC" /\ t[i].rsp # "hdlc_disabled"
        <5> SUFFICES ASSUME NEW i \in 1..Len(t)
                     PROVE  t[i].enc = "HDLC" /\ t[i].rsp # "hdlc_disabled"
          OBVIOUS
        <5>1. i \in 1..Len(q) \/ i = Len(q) + 1
          BY <4>1
        <5> QED BY <3>2, <3>4, <4>1, <5>1
      <4> QED BY <3>5, <4>2 DEF t
    <3> QED BY <3>3, <3>4, <3>5
  <2>13. Unread(recv_buf'[d]) \o wire'[d] = Joined(Frames(due'[d]))
         /\ EndsFrame(Unread(recv_buf'[d]))
    BY <1>4, <1>5, <2>4, <2>5, <2>9 DEF w, rest
  <2>14. d \notin garbled' \cup confused' /\ host'[d] = "HDLC" /\ d' = d
    BY <1>4, <2>8, <2>9
  <2> QED BY <2>11, <2>12, <2>13, <2>14 DEF StreamIntact
<1> QED BY <1>7, <1>8

\* The host of a stream.
LEMMA StreamHost ==
    ASSUME TypeInv, NEW d \in Stream, StreamIntact(d),
           HostReceive(d) \/ HostTimeout(d) \/ \E m \in Cmd[d] : HostSend(d, m)
    PROVE  StreamIntact(d)'
<1>0. AnswerTypes /\ InputTypes /\ HostTypes
  BY DEF TypeInv
<1>1. d \in Encoded /\ d \in Dm
  BY Parts
<1>2. UNCHANGED <<encode_type, recv_buf, garbled>>
  BY DEF HostReceive, HostTimeout, HostSend, dms, input, commands
<1>3. CASE HostTimeout(d)
  BY <1>2, <1>3 DEF HostTimeout, commands, history, StreamIntact
<1>4. CASE HostReceive(d)
  <2> DEFINE q == outq[d]
             frame == Head(q)
             t == Tail(q)
  <2>1. q \in Seq(Answer) /\ q # <<>>
    BY <1>0, <1>1, <1>4 DEF AnswerTypes, HostReceive
  <2>2. \A i \in 1..Len(q) : q[i].enc = "HDLC" /\ q[i].rsp # "hdlc_disabled"
    BY DEF StreamIntact
  <2>3. host[d] = "HDLC"
    BY DEF StreamIntact
  <2>4. /\ outq' = [outq EXCEPT ![d] = t] /\ UNCHANGED <<due, wire>>
        /\ confused' = IF frame.enc = host[d] THEN confused ELSE confused \cup {d}
        /\ host' = [host EXCEPT ![d] =
               IF frame.enc = host[d] /\ @ = "HDLC" /\ frame.rsp = "hdlc_disabled"
               THEN "NHDLC" ELSE @]
    BY <1>4 DEF HostReceive, commands
  <2>5. /\ frame = q[1] /\ 1 \in 1..Len(q) /\ Len(q) \in Nat
        /\ Len(t) = Len(q) - 1 /\ \A i \in 1..Len(t) : t[i] = q[i + 1]
    <3>1. Len(q) \in Nat /\ Len(q) # 0
      BY <2>1, EmptySeq, LenProperties
    <3> HIDE DEF q
    <3> QED BY <2>1, <3>1, HeadTailProperties
  <2>6. frame.enc = "HDLC" /\ frame.rsp # "hdlc_disabled"
    BY <2>2, <2>5
  <2> HIDE DEF frame, t, q
  <2>7. confused' = confused
    BY <2>3, <2>4, <2>6
  <2>8. host'[d] = "HDLC"
    <3>1. host \in [Dm -> Encode]
      BY <1>0 DEF HostTypes, Types
    <3> QED BY <1>1, <2>3, <2>4, <2>6, <3>1
  <2>9. outq'[d] = t
    BY <1>0, <1>1, <2>4 DEF AnswerTypes
  <2>10. \A i \in 1..Len(t) : t[i].enc = "HDLC" /\ t[i].rsp # "hdlc_disabled"
    <3> SUFFICES ASSUME NEW i \in 1..Len(t)
                 PROVE  t[i].enc = "HDLC" /\ t[i].rsp # "hdlc_disabled"
      OBVIOUS
    <3>1. i + 1 \in 1..Len(q)
      BY <2>5
    <3> QED BY <2>2, <2>5, <3>1
  <2> QED BY <1>2, <2>4, <2>7, <2>8, <2>9, <2>10 DEF StreamIntact
<1>5. ASSUME NEW m \in Cmd[d], HostSend(d, m) PROVE StreamIntact(d)'
  <2> DEFINE f == hdlc_encode(m)
             ms == due[d]
             w == wire[d]
             u == Unread(recv_buf[d])
  <2>1. m \in Seq(Byte)
    BY <1>1, CommandBytes
  <2>2. d \notin garbled /\ host[d] = "HDLC" /\ u \o w = Joined(Frames(ms))
    BY DEF StreamIntact
  <2>3. /\ due' = [due EXCEPT ![d] = Append(@, m)] /\ wire' = [wire EXCEPT ![d] = @ \o f]
        /\ UNCHANGED <<outq, host, confused>>
    BY <1>5, <2>2 DEF HostSend, Framed, history
  <2>4. due'[d] = Append(ms, m) /\ wire'[d] = w \o f
    BY <1>0, <1>1, <2>3 DEF AnswerTypes, HostTypes
  <2>5. /\ f \in Seq(Byte) /\ ms \in Seq(Seq(Byte)) /\ w \in Seq(Byte) /\ u \in Seq(Byte)
    <3>1. recv_buf[d] \in Ring
      BY <1>0, <1>1 DEF InputTypes
    <3>2. ms \in Seq(Seq(Byte)) /\ w \in Seq(Byte)
      BY <1>0, <1>1 DEF AnswerTypes, HostTypes
    <3> QED BY <2>1, <3>1, <3>2, FrameType, UnreadType
  <2> HIDE DEF f, ms, w, u
  <2>6. Joined(Frames(Append(ms, m))) = Joined(Frames(ms)) \o f
    <3>1. Frames(Append(ms, m)) = Append(Frames(ms), f)
      BY <2>1, <2>5, FramesAppend DEF f
    <3>2. Frames(ms) \in Seq(Seq(Byte))
      BY <2>5, FramesType
    <3> QED BY <2>5, <3>1, <3>2, JoinedAppend
  <2>7. u \o (w \o f) = (u \o w) \o f
    <3>1. u \in Seq(Byte)
      BY <2>5
    <3>2. w \in Seq(Byte)
      BY <2>5
    <3>3. f \in Seq(Byte)
      BY <2>5
    <3> QED BY ZenonT(30), <3>1, <3>2, <3>3, Regroup
  <2>8. u \o wire'[d] = Joined(Frames(due'[d]))
    BY <2>2, <2>4, <2>6, <2>7
  <2> QED BY <1>2, <2>3, <2>8 DEF StreamIntact, u
<1> QED BY <1>3, <1>4, <1>5

\* A transfer is the command its host has sent.
LEMMA UsbTransfer ==
    ASSUME TypeInv, NEW d \in Usb, d \in rfds, UsbIntact(d), diag_ffs_recv(d)
    PROVE  UsbIntact(d)'
<1>0. AnswerTypes /\ InputTypes /\ LoopTypes /\ HostTypes /\ d \in Encoded /\ d \in Dm
  BY Parts DEF TypeInv
<1>1. /\ pc = "dispatch" /\ pc' = "decode" /\ serving' = d
      /\ recv_buf' = [recv_buf EXCEPT ![d] = Filled(FreshRing, Head(xfer[d]))]
      /\ xfer' = [xfer EXCEPT ![d] = Tail(@)]
      /\ UNCHANGED <<encode_type, outq, due, garbled, host, waiting, confused>>
  BY DEF diag_ffs_recv, Serve, dms, commands, hosts, history
<1>2. xfer[d] # <<>>
  BY <1>0 DEF LoopTypes
<1>3. Sent(d)
  BY <1>1, <1>2 DEF UsbIntact, Idle, Read, Replied
<1>4. PICK m \in Cmd[d] : due[d] = <<m>> /\ xfer[d] = <<Framed(host[d], m)>>
  BY <1>3 DEF Sent
<1> DEFINE f == Framed(host[d], m)
<1>5. Head(xfer[d]) = f /\ Tail(xfer[d]) = <<>>
  <2> HIDE DEF f
  <2>1. xfer[d] = <<f>>
    BY <1>4 DEF f
  <2> QED BY <2>1
<1>6. recv_buf'[d] = Filled(FreshRing, f) /\ xfer'[d] = <<>>
  <2> HIDE DEF f
  <2> QED BY <1>0, <1>1, <1>5 DEF InputTypes, HostTypes
<1>7. Read(d)'
  BY <1>1, <1>3, <1>4, <1>6 DEF Sent, Read
<1> QED BY <1>1, <1>7 DEF UsbIntact

\* dm_recv_hdlc looks at the frame of a host that uses HDLC.
LEMMA UsbStartsHdlc ==
    ASSUME CommandsFit, TypeInv, serving \in Usb, UsbIntact(serving), dm_recv_hdlc
    PROVE  UsbIntact(serving)'
<1> DEFINE d == serving
<1>0. AnswerTypes /\ InputTypes /\ LoopTypes /\ HostTypes /\ d \in Encoded /\ d \in Dm
  BY Parts DEF TypeInv
<1>1. /\ pc = "decode" /\ pc' = "hdlc" /\ encode_type[d] = "HDLC"
      /\ UNCHANGED <<serving, encode_type, recv_buf, xfer, outq, due, garbled, host, waiting,
                     confused>>
  BY DEF dm_recv_hdlc, dms, commands, hosts, history
<1>2. Busy(d)
  BY <1>1 DEF Busy
<1>3. Read(d)
  BY <1>1, <1>2 DEF UsbIntact, Idle, Sent, Replied
<1>4. PICK m \in Cmd[d] :
         due[d] = <<m>> /\ recv_buf[d] = Filled(FreshRing, Framed(host[d], m))
  BY <1>1, <1>3 DEF Read
<1>5. host[d] = "HDLC"
  BY <1>1, <1>3 DEF Read
<1>6. Framed(host[d], m) = hdlc_encode(m)
  BY <1>5 DEF Framed
<1>7. hdlc_encode(m) \in Seq(Byte) /\ Len(hdlc_encode(m)) < HDLC_BUF_SIZE
  BY <1>0, <1>5, <1>6, FramedType DEF HostTypes
<1>8. Unread(recv_buf[d]) = hdlc_encode(m)
  BY <1>4, <1>6, <1>7, TransferFits
<1>9. Read(d)'
  BY <1>1, <1>3, <1>4, <1>5, <1>8 DEF Read
<1> QED BY <1>1, <1>9 DEF UsbIntact

LEMMA OneElement ==
    ASSUME NEW x
    PROVE  <<x>> # <<>> /\ Head(<<x>>) = x /\ Tail(<<x>>) = <<>>
<1>1. <<x>> # <<>>
  OBVIOUS
<1>2. Head(<<x>>) = x
  OBVIOUS
<1>3. Tail(<<x>>) = <<>>
  OBVIOUS
<1> QED BY <1>1, <1>2, <1>3

\* The answer to the one command of a USB host.
LEMMA UsbAnswers ==
    ASSUME TypeInv, MaxAnswers >= 1, NEW d \in Usb, Read(d), d \notin garbled \cup confused,
           NEW m \in Cmd[d], due[d] = <<m>>, NEW ptr, NEW len,
           m = SubSeq(ptr, 1, Least(len, Len(ptr))),
           diag_client_handle_command(encode_type, d, ptr, len),
           UNCHANGED <<serving, xfer, host, waiting, confused>>,
           pc' = "dispatch" \/ (pc' = "hdlc" /\ Unread(recv_buf'[d]) = <<>>)
    PROVE  UsbIntact(d)'
<1>0. AnswerTypes /\ HostTypes /\ d \in Encoded /\ d \in Dm /\ encode_type \in Types
  BY Parts DEF TypeInv, RecoveryInv, Shape
<1>1. due[d] # <<>> /\ Head(due[d]) = m /\ Tail(due[d]) = <<>>
  BY OneElement
<1>2. due'[d] = <<>> /\ garbled' = garbled
  BY <1>0, <1>1, CommandHere
<1>3. PICK rsp \in Responses :
         /\ encode_type' = Switched(encode_type, rsp)
         /\ outq'[d] = IF Len(outq[d]) < MaxAnswers
                       THEN Append(outq[d], [enc |-> encode_type[d], rsp |-> rsp]) ELSE outq[d]
  BY <1>0, <1>1, CommandHere
<1>4. outq[d] = <<>> /\ host[d] = encode_type[d] /\ xfer[d] = <<>> /\ d \in waiting
  BY DEF Read
<1>5. outq'[d] = <<[enc |-> host[d], rsp |-> rsp]>>
  <2> DEFINE a == [enc |-> host[d], rsp |-> rsp]
             q == outq[d]
  <2>1. q = <<>>
    BY <1>4
  <2>2. Len(q) < MaxAnswers
    BY <2>1, EncodingAssumption
  <2>3. outq'[d] = Append(q, a)
    BY <1>3, <1>4, <2>2
  <2> HIDE DEF a, q
  <2>4. Append(q, a) = <<a>>
    BY <2>1
  <2> QED BY <2>3, <2>4 DEF a
<1>6. encode_type'[d] = IF rsp = "hdlc_disabled" THEN "NHDLC" ELSE host[d]
  BY <1>0, <1>3, <1>4, SetEncodeType DEF Switched
<1>7. Busy(d)' => pc' = "hdlc" /\ Unread(recv_buf'[d]) = <<>>
  BY DEF Busy
<1>8. Replied(d)'
  BY <1>2, <1>4, <1>5, <1>6, <1>7 DEF Replied
<1> QED BY <1>2, <1>8 DEF UsbIntact

Decoded(one, m, t) == one.found /\ one.raw = RawOf(m) /\ Unread(one.ring) = t

LEMMA DecodesCommand ==
    ASSUME NEW r \in Ring, NEW m \in Seq(Byte), NEW t \in Seq(Byte),
           Unread(r) = hdlc_encode(m) \o t,
           NEW one, one = hdlc_decode_one(FreshDecoder, r)
    PROVE  Decoded(one, m, t)
BY SMTT(30), DecodesFirst DEF Decoded

\* A frame alone.
LEMMA DecodesOnly ==
    ASSUME NEW r \in Ring, NEW m \in Seq(Byte), Unread(r) = hdlc_encode(m),
           NEW one, one = hdlc_decode_one(FreshDecoder, r)
    PROVE  Decoded(one, m, <<>>)
<1> DEFINE z == <<>>
<1>1. z \in Seq(Byte)
  BY EmptySeq
<1>2. hdlc_encode(m) \in Seq(Byte)
  BY FrameType
<1>3. Unread(r) = hdlc_encode(m) \o z
  BY <1>2, ConcatEmptySeq
<1> HIDE DEF z
<1>4. Decoded(one, m, z)
  BY <1>1, <1>3, DecodesCommand
<1> QED BY <1>4 DEF z

\* The frame is decoded and the command answered, or nothing is left to decode.
LEMMA UsbDecodes ==
    ASSUME TypeInv, MaxAnswers >= 1, DecoderFresh, serving \in Usb, UsbIntact(serving), DecodeOne
    PROVE  UsbIntact(serving)'
<1> DEFINE d == serving
           r == recv_buf[d]
<1>0. InputTypes /\ d \in Encoded /\ d \in Dm
  BY Parts DEF TypeInv
<1>1. pc = "hdlc" /\ recv_decoder = FreshDecoder /\ r \in Ring
  BY <1>0 DEF DecodeOne, DecoderFresh, InputTypes
<1>2. PICK one :
         /\ one = hdlc_decode_one(FreshDecoder, r)
         /\ recv_buf' = [recv_buf EXCEPT ![d] = one.ring]
         /\ IF one.found /\ msglen(one.raw) >= 0
            THEN /\ diag_client_handle_command(encode_type, d, one.raw, msglen(one.raw))
                 /\ UNCHANGED pc
            ELSE /\ pc' = IF one.found THEN "crashed" ELSE "dispatch"
                 /\ UNCHANGED <<outq, encode_type, commands, surprised>>
  BY <1>1 DEF DecodeOne
<1>3. UNCHANGED <<serving, xfer, host, waiting, confused>>
  BY DEF DecodeOne, hosts
<1>4. recv_buf'[d] = one.ring
  BY <1>0, <1>2 DEF InputTypes
<1>5. Busy(d)
  BY <1>1 DEF Busy
<1>6. CASE Read(d)
  <2>1. PICK m \in Cmd[d] : due[d] = <<m>> /\ Unread(r) = hdlc_encode(m)
    BY <1>1, <1>6 DEF Read
  <2>2. m \in Seq(Byte)
    BY <1>0, CommandBytes
  <2>3. one.found /\ one.raw = RawOf(m) /\ Unread(one.ring) = <<>>
    <3>1. one = hdlc_decode_one(FreshDecoder, r)
      BY <1>2
    <3>2. r \in Ring
      BY <1>1
    <3> HIDE DEF r
    <3>3. Decoded(one, m, <<>>)
      BY <2>1, <2>2, <3>1, <3>2, DecodesOnly
    <3> QED BY <3>3 DEF Decoded
  <2>4. /\ diag_client_handle_command(encode_type, d, RawOf(m), msglen(RawOf(m)))
        /\ pc' = "hdlc" /\ Unread(recv_buf'[d]) = <<>>
    BY <1>1, <1>2, <1>4, <2>2, <2>3, RawMessage
  <2>5. m = SubSeq(RawOf(m), 1, Least(msglen(RawOf(m)), Len(RawOf(m))))
    BY <2>2, RawMessage
  <2>6. d \notin garbled \cup confused
    BY DEF UsbIntact
  <2>7. UsbIntact(d)'
    BY <1>3, <1>6, <2>1, <2>4, <2>5, <2>6, UsbAnswers
  <2> QED BY <2>7
<1>7. CASE Replied(d)
  <2>1. Unread(r) = <<>>
    BY <1>5, <1>7 DEF Replied
  <2>2. ~one.found
    <3>1. one = hdlc_decode_one(FreshDecoder, r) /\ r \in Ring
      BY <1>1, <1>2
    <3> HIDE DEF r
    <3> QED BY <2>1, <3>1, FreshType, DecodesNothing
  <2>3. pc' = "dispatch" /\ UNCHANGED <<outq, encode_type, due, garbled>>
    BY <1>2, <2>2 DEF commands
  <2>4. Replied(d)'
    BY <1>3, <1>7, <2>3 DEF Replied, Busy
  <2> QED BY <1>3, <2>3, <2>4 DEF UsbIntact
<1> QED BY <1>1, <1>5, <1>6, <1>7 DEF UsbIntact, Idle, Sent

GoodPacket(buf, m) ==
    /\ dm_check_nhdlc_pkt(buf) = {TRUE}
    /\ SubSeq(PktData(buf), 1, Least(PktLength(buf), Len(PktData(buf)))) = m

\* A frame that fits a transfer passes dm_check_nhdlc_pkt, and its data is the
\* message.
LEMMA NhdlcPacket ==
    ASSUME NEW m \in Seq(Byte), Len(m) < 65536, Len(nhdlc_frame(m)) < HDLC_BUF_SIZE,
           NEW buf, buf = Filled(FreshRing, nhdlc_frame(m)).buf
    PROVE  GoodPacket(buf, m)
<1> DEFINE f == nhdlc_frame(m)
           n == Len(m)
<1>0. n \in Nat /\ HDLC_BUF_SIZE \in Nat
  BY LenProperties, HdlcAssumption
<1>1. /\ f \in Seq(Byte) /\ Len(f) = n + 5 /\ f[1] = NHDLC_CONTROL_CHAR
      /\ f[3] = n % 256 /\ f[4] = n \div 256
      /\ \A i \in 1..n : f[4 + i] = m[i]
      /\ f[n + 5] = NHDLC_CONTROL_CHAR
  BY NhdlcFrame
<1>2. Len(f) < HDLC_BUF_SIZE /\ n < 65536
  OBVIOUS
<1> HIDE DEF f
<1>3. buf = [i \in Index |-> IF i >= 0 /\ i < 0 + Len(f) THEN f[i - 0 + 1] ELSE 0]
  <2>1. buf = Filled(FreshRing, f).buf
    BY DEF f
  <2> QED BY <2>1 DEF Filled, FreshRing
<1> HIDE DEF n
<1>4. \A i \in 0..(n + 4) : buf[i] = f[i + 1]
  <2> SUFFICES ASSUME NEW i \in 0..(n + 4) PROVE buf[i] = f[i + 1]
    OBVIOUS
  <2>1. i \in Index /\ i >= 0 /\ i < 0 + Len(f) /\ i - 0 + 1 = i + 1
    BY <1>0, <1>1, <1>2 DEF Index
  <2> QED BY <1>3, <2>1
<1>5. buf[0] = NHDLC_CONTROL_CHAR /\ buf[2] = n % 256 /\ buf[3] = n \div 256
      /\ buf[4 + n] = NHDLC_CONTROL_CHAR
  <2>1. 0 \in 0..(n + 4) /\ 2 \in 0..(n + 4) /\ 3 \in 0..(n + 4) /\ 4 + n \in 0..(n + 4)
        /\ (4 + n) + 1 = n + 5
    BY <1>0
  <2> QED BY <1>1, <1>4, <2>1
<1>6. PktLength(buf) = n
  <2>1. (n % 256) + 256 * (n \div 256) = n
    BY <1>0, <1>2, LengthBytes
  <2> QED BY <1>5, <2>1 DEF PktLength
<1>7. dm_check_nhdlc_pkt(buf) = {TRUE}
  <2>1. ~(4 + n >= HDLC_BUF_SIZE)
    BY <1>0, <1>1, <1>2
  <2> DEFINE b == buf[4 + PktLength(buf)] = NHDLC_CONTROL_CHAR
  <2>2. b = TRUE
    BY <1>5, <1>6
  <2>3. dm_check_nhdlc_pkt(buf) = {b}
    BY <1>5, <1>6, <2>1 DEF dm_check_nhdlc_pkt
  <2> HIDE DEF b
  <2> QED BY <2>2, <2>3
<1> DEFINE p == PktData(buf)
           k == HDLC_BUF_SIZE - 4
<1>8. Len(p) = k /\ \A i \in 1..k : p[i] = buf[3 + i]
  <2>1. k \in Nat
    BY <1>0, <1>1, <1>2
  <2> QED BY <2>1 DEF PktData
<1>9. n <= k /\ k \in Nat /\ Least(n, k) = n
  BY <1>0, <1>1, <1>2 DEF Least
<1> HIDE DEF p, k
<1>10. \A i \in 1..n : p[i] = m[i]
  <2> SUFFICES ASSUME NEW i \in 1..n PROVE p[i] = m[i]
    OBVIOUS
  <2>1. i \in 1..k /\ 3 + i \in 0..(n + 4) /\ (3 + i) + 1 = 4 + i
    BY <1>0, <1>9
  <2> QED BY SMTT(30), <1>1, <1>4, <1>8, <2>1
<1>11. SubSeq(p, 1, n) = m
  <2> DEFINE s == SubSeq(p, 1, n)
  <2>1. \A i \in 1..n : p[i] \in Byte
    BY <1>10, ElementOfSeq DEF n
  <2>2. s \in Seq(Byte) /\ Len(s) = n /\ \A i \in 1..n : s[i] = p[i]
    <3>0. 1 \in Int /\ n \in Int /\ (n - 1) + 1 = n /\ (1 <= n \/ n = 0)
      BY <1>0
    <3>1. /\ s \in Seq(Byte) /\ Len(s) = IF 1 <= n THEN n - 1 + 1 ELSE 0
          /\ \A i \in 1..(n - 1 + 1) : s[i] = p[1 + i - 1]
      BY <2>1, <3>0, SubSeqProperties
    <3> HIDE DEF s
    <3>2. Len(s) = n
      BY <3>0, <3>1
    <3>3. ASSUME NEW i \in 1..n PROVE s[i] = p[i]
      <4>1. i \in 1..(n - 1 + 1) /\ 1 + i - 1 = i
        BY <1>0
      <4> QED BY <3>1, <4>1
    <3> QED BY <3>1, <3>2, <3>3
  <2> HIDE DEF s
  <2>3. Len(s) = Len(m) /\ \A i \in 1..Len(s) : s[i] = m[i]
    BY <1>10, <2>2 DEF n
  <2>4. s = m
    BY <2>2, <2>3, SeqEqual
  <2> QED BY <2>4 DEF s
<1> QED BY <1>6, <1>7, <1>8, <1>9, <1>11 DEF p, GoodPacket

\* A packet that is not HDLC is good, and is the command.
LEMMA UsbPacket ==
    ASSUME CommandsFit, TypeInv, MaxAnswers >= 1, serving \in Usb, UsbIntact(serving),
           dm_recv_nhdlc
    PROVE  UsbIntact(serving)'
<1> DEFINE d == serving
           buf == recv_buf[d].buf
<1>0. d \in Encoded /\ d \in Dm
  BY Parts
<1>1. pc = "decode" /\ encode_type[d] = "NHDLC" /\ pc' = "dispatch"
      /\ UNCHANGED <<serving, xfer, host, waiting, confused>>
  BY DEF dm_recv_nhdlc, hosts
<1>2. Busy(d)
  BY <1>1 DEF Busy
<1>3. Read(d) /\ d \notin garbled \cup confused
  BY <1>1, <1>2 DEF UsbIntact, Idle, Sent, Replied
<1>4. PICK m \in Cmd[d] :
         due[d] = <<m>> /\ recv_buf[d] = Filled(FreshRing, Framed(host[d], m))
  BY <1>1, <1>3 DEF Read
<1>5. Framed(host[d], m) = nhdlc_frame(m)
  BY <1>1, <1>3 DEF Framed, Read
<1>6. m \in Seq(Byte) /\ Len(m) < 65536 /\ Len(nhdlc_frame(m)) < HDLC_BUF_SIZE
  BY <1>0, CommandBytes DEF CommandsFit
<1>7. buf = Filled(FreshRing, nhdlc_frame(m)).buf
  BY <1>4, <1>5
<1> HIDE DEF buf
<1>8. dm_check_nhdlc_pkt(buf) = {TRUE}
      /\ SubSeq(PktData(buf), 1, Least(PktLength(buf), Len(PktData(buf)))) = m
  <2>1. m \in Seq(Byte)
    BY <1>6
  <2>2. Len(m) < 65536
    BY <1>6
  <2>3. Len(nhdlc_frame(m)) < HDLC_BUF_SIZE
    BY <1>6
  <2>4. GoodPacket(buf, m)
    BY <1>7, <2>1, <2>2, <2>3, NhdlcPacket
  <2> QED BY <2>4 DEF GoodPacket
<1>9. diag_client_handle_command(encode_type, d, PktData(buf), PktLength(buf))
  <2>1. PICK good \in dm_check_nhdlc_pkt(buf) :
           good => diag_client_handle_command(encode_type, d, PktData(buf), PktLength(buf))
    BY DEF dm_recv_nhdlc, buf
  <2>2. good = TRUE
    BY <1>8, <2>1
  <2> QED BY <2>1, <2>2
<1>10. UsbIntact(d)'
  BY <1>1, <1>3, <1>4, <1>8, <1>9, UsbAnswers
<1> QED BY <1>10

\* The host of a USB DM.
LEMMA UsbHost ==
    ASSUME TypeInv, NEW d \in Usb, UsbIntact(d), Looking,
           HostReceive(d) \/ HostTimeout(d) \/ \E m \in Cmd[d] : HostSend(d, m)
    PROVE  UsbIntact(d)'
<1>0. AnswerTypes /\ HostTypes /\ d \in Dm /\ d \notin Stream
  BY Parts DEF TypeInv
<1>1. UNCHANGED <<encode_type, recv_buf, garbled, pc, serving>> /\ ~Busy(d)
  BY DEF HostReceive, HostTimeout, HostSend, dms, input, commands, loop, Busy, Looking
<1>2. Busy(d)' = Busy(d)
  BY <1>1 DEF Busy
<1>3. CASE HostTimeout(d)
  <2>1. Readable = {} /\ outq[d] = <<>> /\ pc = "select"
        /\ UNCHANGED <<outq, due, xfer, host, confused>>
    BY <1>3 DEF HostTimeout, commands, history
  <2>2. xfer[d] = <<>>
    BY <2>1 DEF Readable
  <2>3. Idle(d)
    BY <2>1, <2>2 DEF UsbIntact, Sent, Read, Replied
  <2>4. Idle(d)'
    BY <1>1, <1>2, <2>1, <2>3 DEF Idle
  <2> QED BY <1>1, <2>1, <2>4 DEF UsbIntact
<1>4. CASE HostReceive(d)
  <2>1. /\ outq[d] # <<>> /\ pc = "select" /\ UNCHANGED <<due, xfer>>
        /\ outq' = [outq EXCEPT ![d] = Tail(@)]
        /\ confused' = IF Head(outq[d]).enc = host[d] THEN confused ELSE confused \cup {d}
        /\ host' = [host EXCEPT ![d] =
               IF Head(outq[d]).enc = host[d] /\ @ = "HDLC" /\ Head(outq[d]).rsp = "hdlc_disabled"
               THEN "NHDLC" ELSE @]
    BY <1>4 DEF HostReceive, commands
  <2>2. Replied(d)
    BY <2>1 DEF UsbIntact, Idle, Sent, Read
  <2>3. PICK rsp \in Responses :
           /\ outq[d] = <<[enc |-> host[d], rsp |-> rsp]>>
           /\ encode_type[d] = IF rsp = "hdlc_disabled" THEN "NHDLC" ELSE host[d]
    BY <2>2 DEF Replied
  <2> DEFINE a == [enc |-> host[d], rsp |-> rsp]
  <2>4. Head(outq[d]) = a /\ Tail(outq[d]) = <<>>
    <3>1. outq[d] = <<a>>
      BY <2>3
    <3> HIDE DEF a
    <3> QED BY <3>1
  <2>5. a.enc = host[d] /\ a.rsp = rsp
    OBVIOUS
  <2> HIDE DEF a
  <2>6. confused' = confused
    BY <2>1, <2>4, <2>5
  <2>7. outq'[d] = <<>>
    BY <1>0, <2>1, <2>4 DEF AnswerTypes
  <2>8. host'[d] = encode_type[d]
    <3>1. host \in [Dm -> Encode] /\ host[d] \in {"HDLC", "NHDLC"}
      BY <1>0, Parts DEF HostTypes, Types, Encode
    <3>2. host'[d] = IF host[d] = "HDLC" /\ rsp = "hdlc_disabled" THEN "NHDLC" ELSE host[d]
      BY <1>0, <2>1, <2>4, <2>5, <3>1
    <3> QED BY <2>3, <3>1, <3>2
  <2>9. Idle(d)'
    BY <1>1, <1>2, <2>1, <2>2, <2>7, <2>8 DEF Idle, Replied
  <2> QED BY <1>1, <2>6, <2>9 DEF UsbIntact
<1>5. ASSUME NEW m \in Cmd[d], HostSend(d, m) PROVE UsbIntact(d)'
  <2> DEFINE f == Framed(host[d], m)
  <2>1. d \notin waiting /\ d \notin garbled
    BY <1>5 DEF HostSend, UsbIntact
  <2>2. Idle(d)
    BY <2>1 DEF UsbIntact, Sent, Read, Replied
  <2>3. /\ due' = [due EXCEPT ![d] = Append(@, m)] /\ xfer' = [xfer EXCEPT ![d] = Append(@, f)]
        /\ waiting' = waiting \cup {d} /\ UNCHANGED <<outq, host, confused>>
    BY <1>0, <1>5, <2>1 DEF HostSend, history
  <2>4. due'[d] = <<m>> /\ xfer'[d] = <<f>>
    <3> HIDE DEF f
    <3>1. due[d] = <<>> /\ xfer[d] = <<>>
      BY <2>2 DEF Idle
    <3>2. due'[d] = Append(due[d], m) /\ xfer'[d] = Append(xfer[d], f)
      BY <1>0, <2>3 DEF AnswerTypes, HostTypes
    <3> QED BY <3>1, <3>2
  <2>5. Sent(d)'
    BY <1>1, <1>2, <2>2, <2>3, <2>4 DEF Sent, Idle
  <2> QED BY <1>1, <2>3, <2>5 DEF UsbIntact
<1> QED BY <1>3, <1>4, <1>5

LEMMA InitIntact == Init => Intact
<1> SUFFICES ASSUME Init PROVE Intact
  OBVIOUS
<1>1. DecoderFresh
  BY DEF Init, DecoderFresh
<1>2. ASSUME NEW d \in Usb PROVE UsbIntact(d)
  <2>1. d \in Dm
    BY Parts
  <2>2. Idle(d)
    BY <2>1 DEF Init, Idle, Busy
  <2> QED BY <2>2 DEF Init, UsbIntact
<1>3. ASSUME NEW d \in Stream PROVE StreamIntact(d)
  <2>1. d \in Dm /\ d \in Encoded
    BY Parts
  <2>2. due[d] = <<>> /\ wire[d] = <<>> /\ outq[d] = <<>> /\ recv_buf[d] = FreshRing
        /\ encode_type[d] = "HDLC" /\ host[d] = "HDLC"
    BY <2>1 DEF Init
  <2>3. Unread(recv_buf[d]) = <<>>
    BY <2>2, FreshRingIs
  <2>4. Joined(Frames(<<>>)) = <<>>
    <3> DEFINE z == <<>>
    <3>1. z \in Seq(Seq(Byte)) /\ Len(z) = 0
      BY EmptySeq
    <3> HIDE DEF z
    <3>2. Frames(z) \in Seq(Seq(Byte)) /\ Len(Frames(z)) = 0
      BY <3>1, FramesType
    <3>3. Frames(z) = <<>>
      BY <3>2, EmptySeq
    <3> QED BY <3>3, JoinedNone DEF z
  <2>5. <<>> \o <<>> = <<>>
    OBVIOUS
  <2>6. Unread(recv_buf[d]) \o wire[d] = Joined(Frames(due[d]))
    BY <2>2, <2>3, <2>4, <2>5
  <2>7. \A i \in 1..Len(outq[d]) : outq[d][i].enc = "HDLC" /\ outq[d][i].rsp # "hdlc_disabled"
    BY <2>2
  <2>8. d \notin garbled \cup confused
    BY DEF Init
  <2> QED BY <2>2, <2>3, <2>6, <2>7, <2>8 DEF StreamIntact, EndsFrame
<1> QED BY <1>1, <1>2, <1>3 DEF Intact

LEMMA NextDecoderFresh ==
    ASSUME TypeInv, DecoderFresh, [Next]_vars
    PROVE  DecoderFresh'
<1>1. CASE Select \/ DispatchDone \/ circ_read_Done \/ circ_read_Error \/ circ_read
           \/ (\E d \in rfds : diag_ffs_recv(d) \/ dm_recv_encoded(d)) \/ dm_recv_nhdlc
  <2>1. pc' # "hdlc"
    BY <1>1 DEF Select, DispatchDone, circ_read_Done, circ_read_Error, circ_read, diag_ffs_recv,
                dm_recv_encoded, dm_recv_nhdlc
  <2> QED BY <2>1 DEF DecoderFresh
<1>2. CASE dm_recv_hdlc
  BY <1>2 DEF dm_recv_hdlc, DecoderFresh
<1>3. CASE DecodeOne
  <2>1. PICK one :
           /\ one = hdlc_decode_one(recv_decoder, recv_buf[serving])
           /\ recv_decoder' = one.dec
           /\ one.found \/ pc' # "hdlc"
    BY <1>3 DEF DecodeOne
  <2>2. recv_decoder \in Decoder /\ recv_buf[serving] \in Ring
    BY <1>3 DEF TypeInv, RecoveryInv, Shape, InputTypes, DecodeOne
  <2>3. one.found => one.dec = FreshDecoder
    BY <2>1, <2>2, DecodeOneTakes
  <2> QED BY <2>1, <2>3 DEF DecoderFresh
<1>4. CASE Timer \/ Environment \/ (\E d \in rfds : dm_recv_raw(d)) \/ UNCHANGED vars
  <2>1. UNCHANGED <<pc, recv_decoder>>
    BY <1>4 DEF Timer, Environment, HostSend, HostReceive, HostTimeout, HostClose, OthersChange,
                dm_recv_raw, vars, input, loop
  <2> QED BY <2>1 DEF DecoderFresh
<1> QED BY <1>1, <1>2, <1>3, <1>4 DEF Next, RouterStep

LEMMA NextUsb ==
    ASSUME CommandsFit, MaxAnswers >= 1, TypeInv, DecoderFresh, [Next]_vars,
           NEW d \in Usb, d \notin surprised', UsbIntact(d)
    PROVE  UsbIntact(d)'
<1>0. d \in Encoded /\ d \in Dm /\ d \notin Stream
  BY Parts
<1>1. CASE Select \/ DispatchDone \/ (\E e \in rfds : dm_recv_encoded(e))
           \/ circ_read_Done \/ circ_read_Error
  <2>1. Untouched(d)
    BY <1>0, <1>1, QuietLoop
  <2>2. pc = "circ_read" => serving \in Stream
    BY DEF TypeInv, LoopTypes
  <2>3. ~Busy(d) /\ ~Busy(d)'
    BY <1>0, <1>1, <2>2 DEF Busy, Select, DispatchDone, dm_recv_encoded, circ_read_Done,
                            circ_read_Error, Serve
  <2> QED BY <2>1, <2>3, UsbUntouched
<1>2. CASE Timer
  <2>1. Untouched(d)
    BY <1>0, <1>2, QuietTimer
  <2>2. ~Busy(d) /\ ~Busy(d)'
    BY <1>2 DEF Busy, Timer, loop
  <2> QED BY <2>1, <2>2, UsbUntouched
<1>3. CASE \E e \in rfds : dm_recv_raw(e)
  <2>1. Untouched(d)
    BY <1>0, <1>3, QuietCommand
  <2>2. ~Busy(d) /\ ~Busy(d)'
    BY <1>3 DEF Busy, dm_recv_raw, Serve
  <2> QED BY <2>1, <2>2, UsbUntouched
<1>4. ASSUME NEW e \in rfds, diag_ffs_recv(e) PROVE UsbIntact(d)'
  <2>1. CASE e = d
    BY <1>4, <2>1, UsbTransfer
  <2>2. CASE e # d
    <3>1. Untouched(d)
      BY <1>0, <1>4, <2>2, QuietRead
    <3>2. ~Busy(d) /\ ~Busy(d)'
      BY <1>4, <2>2 DEF Busy, diag_ffs_recv, Serve
    <3> QED BY <3>1, <3>2, UsbUntouched
  <2> QED BY <2>1, <2>2
<1>5. CASE circ_read
  <2>1. serving # d
    BY <1>0, <1>5 DEF TypeInv, LoopTypes, circ_read
  <2>2. Untouched(d)
    BY <1>0, <1>5, <2>1, QuietRead
  <2>3. ~Busy(d) /\ ~Busy(d)'
    BY <1>5, <2>1 DEF Busy, circ_read
  <2> QED BY <2>2, <2>3, UsbUntouched
<1>6. CASE dm_recv_hdlc
  <2>1. CASE serving = d
    <3>1. serving \in Usb /\ UsbIntact(serving) /\ serving' = serving
      BY <1>6, <2>1 DEF dm_recv_hdlc
    <3>2. UsbIntact(serving)'
      BY <1>6, <3>1, UsbStartsHdlc
    <3> QED BY <2>1, <3>1, <3>2
  <2>2. CASE serving # d
    <3>1. Untouched(d)
      BY <1>0, <1>6, QuietLoop
    <3>2. ~Busy(d) /\ ~Busy(d)'
      BY <1>6, <2>2 DEF Busy, dm_recv_hdlc
    <3> QED BY <3>1, <3>2, UsbUntouched
  <2> QED BY <2>1, <2>2
<1>7. CASE DecodeOne \/ dm_recv_nhdlc
  <2>0. serving' = serving
    BY <1>7 DEF DecodeOne, dm_recv_nhdlc
  <2>1. CASE serving = d
    <3>1. serving \in Usb /\ UsbIntact(serving)
      BY <2>1
    <3>2. UsbIntact(serving)'
      BY <1>7, <3>1, UsbDecodes, UsbPacket
    <3> QED BY <2>0, <2>1, <3>2
  <2>2. CASE serving # d
    <3>1. Untouched(d)
      BY <1>0, <1>7, <2>2, QuietCommand
    <3>2. ~Busy(d) /\ ~Busy(d)'
      BY <2>0, <2>2 DEF Busy
    <3> QED BY <3>1, <3>2, UsbUntouched
  <2> QED BY <2>1, <2>2
<1>8. CASE Environment
  <2>1. ~Busy(d) /\ ~Busy(d)' /\ Looking
    BY <1>8 DEF Environment, Looking, Busy, HostSend, HostReceive, HostTimeout, HostClose,
                OthersChange, loop
  <2>2. \/ HostReceive(d) \/ HostTimeout(d) \/ \E m \in Cmd[d] : HostSend(d, m)
        \/ \E e \in Dm : \/ e # d /\ (HostReceive(e) \/ HostTimeout(e)
                                       \/ \E m \in Cmd[e] : HostSend(e, m))
                         \/ HostClose(e) \/ OthersChange
    BY <1>8, Parts DEF Environment
  <2>3. CASE HostReceive(d) \/ HostTimeout(d) \/ \E m \in Cmd[d] : HostSend(d, m)
    BY <2>1, <2>3, UsbHost
  <2>4. ASSUME NEW e \in Dm,
               \/ e # d /\ (HostReceive(e) \/ HostTimeout(e) \/ \E m \in Cmd[e] : HostSend(e, m))
               \/ HostClose(e) \/ OthersChange
        PROVE  UsbIntact(d)'
    <3>1. Untouched(d)
      BY <1>0, <2>4, QuietHost
    <3> QED BY <2>1, <3>1, UsbUntouched
  <2> QED BY <2>2, <2>3, <2>4
<1>9. CASE UNCHANGED vars
  BY <1>9 DEF vars, dms, input, loop, commands, hosts, history, UsbIntact, Idle, Sent, Read,
              Replied, Busy
<1> QED BY <1>1, <1>2, <1>3, <1>4, <1>5, <1>6, <1>7, <1>8, <1>9 DEF Next, RouterStep

LEMMA NextStream ==
    ASSUME TypeInv, DecoderFresh, [Next]_vars,
           NEW d \in Stream, d \notin surprised', d \notin split', StreamIntact(d)
    PROVE  StreamIntact(d)'
<1>0. d \in Encoded /\ d \in Dm /\ d \notin Usb
  BY Parts
<1>1. CASE Untouched(d)
  BY <1>1, StreamUntouched
<1>2. CASE Select \/ DispatchDone \/ (\E e \in rfds : dm_recv_encoded(e))
           \/ circ_read_Done \/ circ_read_Error \/ dm_recv_hdlc \/ UNCHANGED vars
  BY <1>0, <1>1, <1>2, QuietLoop
<1>3. CASE Timer
  BY <1>0, <1>1, <1>3, QuietTimer
<1>4. CASE \E e \in rfds : dm_recv_raw(e)
  BY <1>0, <1>1, <1>4, QuietCommand
<1>5. ASSUME NEW e \in rfds, diag_ffs_recv(e) PROVE StreamIntact(d)'
  <2>1. e # d
    BY <1>0, <1>5 DEF diag_ffs_recv
  <2> QED BY <1>0, <1>1, <1>5, <2>1, QuietRead
<1>6. CASE circ_read
  <2>0. serving' = serving
    BY <1>6 DEF circ_read
  <2>1. CASE serving = d
    <3>1. serving \in Stream /\ StreamIntact(serving) /\ serving \notin split'
      BY <2>1
    <3>2. StreamIntact(serving)'
      BY <1>6, <3>1, StreamRead
    <3> QED BY <2>0, <2>1, <3>2
  <2>2. CASE serving # d
    BY <1>0, <1>1, <1>6, <2>2, QuietRead
  <2> QED BY <2>1, <2>2
<1>7. CASE DecodeOne \/ dm_recv_nhdlc
  <2>0. serving' = serving
    BY <1>7 DEF DecodeOne, dm_recv_nhdlc
  <2>1. CASE serving = d
    <3>1. serving \in Stream /\ StreamIntact(serving) /\ serving \notin surprised'
      BY <2>1
    <3>2. DecodeOne
      BY <1>7, <3>1 DEF dm_recv_nhdlc, StreamIntact
    <3>3. StreamIntact(serving)'
      BY <3>1, <3>2, StreamDecodes
    <3> QED BY <2>0, <2>1, <3>3
  <2>2. CASE serving # d
    BY <1>0, <1>1, <1>7, <2>2, QuietCommand
  <2> QED BY <2>1, <2>2
<1>8. CASE Environment
  <2>1. \/ HostReceive(d) \/ HostTimeout(d) \/ \E m \in Cmd[d] : HostSend(d, m)
        \/ \E e \in Dm : \/ e # d /\ (HostReceive(e) \/ HostTimeout(e)
                                       \/ \E m \in Cmd[e] : HostSend(e, m))
                         \/ HostClose(e) \/ OthersChange
    BY <1>8, Parts DEF Environment
  <2>2. CASE HostReceive(d) \/ HostTimeout(d) \/ \E m \in Cmd[d] : HostSend(d, m)
    BY <2>2, StreamHost
  <2>3. ASSUME NEW e \in Dm,
               \/ e # d /\ (HostReceive(e) \/ HostTimeout(e) \/ \E m \in Cmd[e] : HostSend(e, m))
               \/ HostClose(e) \/ OthersChange
        PROVE  StreamIntact(d)'
    BY <1>0, <1>1, <2>3, QuietHost
  <2> QED BY <2>1, <2>2, <2>3
<1> QED BY <1>2, <1>3, <1>4, <1>5, <1>6, <1>7, <1>8 DEF Next, RouterStep

LEMMA NextIntact ==
    ASSUME CommandsFit, MaxAnswers >= 1, TypeInv, Intact, [Next]_vars
    PROVE  Intact'
<1>1. surprised \subseteq surprised' /\ split \subseteq split'
  BY HistoriesGrow
<1>2. DecoderFresh /\ DecoderFresh'
  BY NextDecoderFresh DEF Intact
<1>3. ASSUME NEW d \in Usb, d \notin surprised' PROVE UsbIntact(d)'
  <2>1. UsbIntact(d)
    BY <1>1, <1>3 DEF Intact
  <2> QED BY <1>2, <1>3, <2>1, NextUsb
<1>4. ASSUME NEW d \in Stream, d \notin surprised', d \notin split' PROVE StreamIntact(d)'
  <2>1. StreamIntact(d)
    BY <1>1, <1>4 DEF Intact
  <2> QED BY <1>2, <1>4, <2>1, NextStream
<1> QED BY <1>2, <1>3, <1>4 DEF Intact

LEMMA IntactImplies == TypeInv /\ Intact => CommandsIntact
<1> SUFFICES ASSUME TypeInv, Intact, NEW d \in Encoded \ surprised, d \notin split
             PROVE  d \notin garbled \cup confused
  BY DEF CommandsIntact
<1>1. CASE d \in Usb
  BY <1>1 DEF Intact, UsbIntact
<1>2. CASE d \in Stream
  BY <1>2 DEF Intact, StreamIntact
<1> QED BY <1>1, <1>2 DEF Encoded

\* The commands of a host that is not surprised, over USB or a stream of which no
\* read ends within a frame, are handled as they were sent, each once and in
\* order, and it understands every answer, across HDLC_DISABLE too.  An answer
\* needs a place to be kept: without one the host is not told of the switch.
THEOREM CommandsArrive == CommandsFit /\ MaxAnswers >= 1 => (Spec => []CommandsIntact)
<1> SUFFICES ASSUME CommandsFit, MaxAnswers >= 1 PROVE Spec => []CommandsIntact
  OBVIOUS
<1>1. Init => TypeInv /\ Intact
  BY InitTypeInv, InitIntact
<1>2. (TypeInv /\ Intact) /\ [Next]_vars => (TypeInv /\ Intact)'
  BY NextTypeInv, NextIntact
<1>3. TypeInv /\ Intact => CommandsIntact
  BY IntactImplies
<1> QED BY <1>1, <1>2, <1>3, PTL DEF Spec
=============================================================================
