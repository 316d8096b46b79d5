----------------------------- MODULE MasksProofs -----------------------------
(***************************************************************************)
(* Proofs about Masks.tla, for every table of ranges, every               *)
(* MAX_SSID_PER_RANGE, every set of peripherals and every sequence of      *)
(* requests: the message masks stay in their buffers, the state is well    *)
(* typed, and what a peripheral was told, or is about to be told, of       *)
(* message, log and event masks is what the tables say.                    *)
(***************************************************************************)
EXTENDS Masks, TLAPS, SequenceTheorems, WellFoundedInduction

-----------------------------------------------------------------------------
(* The constants.                                                          *)

\* The table of ranges, and what is assumed of it.
LEMMA TableType ==
    /\ Len(ssid_first_arr) \in Nat
    /\ \A i \in Table : ssid_first_arr[i] \in Nat /\ ssid_last_arr[i] \in Nat
    /\ \A i \in Table : ssid_first_arr[i] <= ssid_last_arr[i]
    /\ \A i \in Table : ssid_last_arr[i] - ssid_first_arr[i] < MAX_SSID_PER_RANGE
    /\ \A i \in Table : i + 1 \in Table => ssid_last_arr[i] < ssid_first_arr[i + 1]
    /\ MAX_SSID_PER_RANGE \in Nat
<1>1. Len(ssid_first_arr) \in Nat
  BY MasksAssumption, LenProperties
<1>2. \A i \in Table : ssid_first_arr[i] \in Nat
  BY MasksAssumption, ElementOfSeq DEF Table
<1>3. \A i \in Table : ssid_last_arr[i] \in Nat
  BY MasksAssumption, ElementOfSeq DEF Table
<1> QED
  BY <1>1, <1>2, <1>3, MasksAssumption

-----------------------------------------------------------------------------
(* The bounds of the entries.                                              *)

\* ToldMasksKept for one entry of the table.
Kept(i, entry) ==
    /\ entry.ssid_last_tools >= ssid_last_arr[i]
    /\ ssid_last_arr[i] - ssid_first_arr[i] < entry.range_tools
    /\ ssid_last_arr[i] - ssid_first_arr[i] < entry.allocated

\* The inductive invariant: the bounds are numbers, and every entry is kept.
BoundsInv == msg \in [Table -> MsgEntry] /\ \A i \in Table : Kept(i, msg[i])

\* Extending an entry for a request that starts at or behind it leaves an entry
\* that still covers its own range: truncation at MAX_SSID_PER_RANGE, a request
\* for exactly that many and any other are the three ways through
\* diag_cmd_set_msg_mask.
LEMMA ExtendedKept ==
    ASSUME NEW i \in Table, NEW first \in Nat, NEW last \in Nat,
           msg[i] \in MsgEntry, Kept(i, msg[i]),
           first <= last + 1, ssid_first_arr[i] <= first
    PROVE  Extended(i, first, last) \in MsgEntry /\ Kept(i, Extended(i, first, last))
<1> DEFINE start == ssid_first_arr[i]
           num == Smaller(last + 1 - first, MAX_SSID_PER_RANGE)
           cut == last + 1 - first > MAX_SSID_PER_RANGE
           entry == IF cut
                    THEN [msg[i] EXCEPT !.range_tools = MAX_SSID_PER_RANGE,
                                        !.ssid_last_tools = start + MAX_SSID_PER_RANGE]
                    ELSE msg[i]
           end == IF num # MAX_SSID_PER_RANGE THEN last ELSE entry.ssid_last_tools
<1>1. /\ start \in Nat /\ ssid_last_arr[i] \in Nat /\ start <= ssid_last_arr[i]
      /\ MAX_SSID_PER_RANGE \in Nat
      /\ ssid_last_arr[i] - start < MAX_SSID_PER_RANGE
  BY TableType
<1>2. entry \in MsgEntry /\ Kept(i, entry)
  <2>1. CASE cut
    <3>1. entry = [ssid_last_tools |-> start + MAX_SSID_PER_RANGE,
                   range_tools |-> MAX_SSID_PER_RANGE,
                   allocated |-> msg[i].allocated]
      BY <2>1 DEF MsgEntry
    <3>2. /\ start + MAX_SSID_PER_RANGE \in Nat
          /\ start + MAX_SSID_PER_RANGE >= ssid_last_arr[i]
      BY <1>1
    <3> HIDE DEF entry, start
    <3> QED
      BY <1>1, <3>1, <3>2 DEF MsgEntry, Kept, start
  <2>2. CASE ~cut
    BY <2>2
  <2> QED
    BY <2>1, <2>2
<1>3. Extended(i, first, last) =
        IF last > entry.ssid_last_tools
        THEN [entry EXCEPT !.ssid_last_tools = end,
                           !.range_tools = end + 1 - start,
                           !.allocated = end + 1 - start]
        ELSE entry
  BY DEF Extended
<1>4. CASE last > entry.ssid_last_tools
  <2> HIDE DEF entry, num
  <2>1. end \in Nat /\ end >= entry.ssid_last_tools
    BY <1>2, <1>4 DEF MsgEntry
  <2>2. /\ end + 1 - start \in Nat
        /\ ssid_last_arr[i] - start < end + 1 - start
    BY <1>1, <1>2, <2>1 DEF MsgEntry, Kept
  <2>3. end >= ssid_last_arr[i]
    BY <1>1, <1>2, <2>1 DEF MsgEntry, Kept
  <2>4. Extended(i, first, last) = [ssid_last_tools |-> end, range_tools |-> end + 1 - start,
                                    allocated |-> end + 1 - start]
    <3> HIDE DEF end
    <3> QED
      BY <1>2, <1>3, <1>4 DEF MsgEntry
  <2> HIDE DEF end
  <2> QED
    BY <1>1, <2>1, <2>2, <2>3, <2>4 DEF MsgEntry, Kept
<1>5. CASE ~(last > entry.ssid_last_tools)
  BY <1>2, <1>3, <1>5
<1> QED
  BY <1>4, <1>5

\* A SET_MSG_MASK request keeps the bounds, granted or refused.
LEMMA SetMsgMaskKept ==
    ASSUME BoundsInv, NEW first \in Nat, NEW last \in Nat, NEW masks,
           first <= last + 1, SetMsgMask(first, last, masks)
    PROVE  BoundsInv'
<1>1. CASE Sets(first) = {}
  BY <1>1 DEF SetMsgMask, BoundsInv
<1>2. CASE Sets(first) # {}
  <2> DEFINE i == CHOOSE x \in Sets(first) : TRUE
  <2>1. i \in Sets(first)
    BY <1>2
  <2>2. i \in Table /\ ssid_first_arr[i] <= first
    BY <2>1 DEF Sets
  <2>3. msg' = [msg EXCEPT ![i] = Extended(i, first, last)]
    BY <1>2 DEF SetMsgMask
  <2> HIDE DEF i
  <2>4. Extended(i, first, last) \in MsgEntry /\ Kept(i, Extended(i, first, last))
    BY <2>2, ExtendedKept DEF BoundsInv
  <2> QED
    BY <2>2, <2>3, <2>4 DEF BoundsInv
<1> QED
  BY <1>1, <1>2

LEMMA BoundsInit == Init => BoundsInv
<1> SUFFICES ASSUME Init PROVE BoundsInv
  OBVIOUS
<1>1. \A i \in Table :
        /\ ssid_last_arr[i] \in Nat /\ MAX_SSID_PER_RANGE \in Nat
        /\ ssid_last_arr[i] - ssid_first_arr[i] < MAX_SSID_PER_RANGE
  BY TableType
<1> QED
  BY <1>1 DEF Init, BoundsInv, MsgEntry, Kept

LEMMA BoundsStep == BoundsInv /\ [Next]_vars => BoundsInv'
<1> SUFFICES ASSUME BoundsInv, [Next]_vars PROVE BoundsInv'
  OBVIOUS
<1>1. ASSUME UNCHANGED msg PROVE BoundsInv'
  BY <1>1 DEF BoundsInv
<1>2. CASE \E first \in MsgSsid, last \in MsgSsid, v \in 0..1 :
              /\ first <= last + 1
              /\ SetMsgMask(first, last, Alternate(v, last + 1 - first))
  BY <1>2, SetMsgMaskKept, MasksAssumption
<1>3. CASE \E word \in 0..(BYTE * BYTE - 1) : SetAllMsgMask(word)
  BY <1>1, <1>3 DEF SetAllMsgMask
<1>4. CASE \/ DisableLog
           \/ \E e \in LogEquip, n \in LogItems, on \in BOOLEAN : SetLogMask(e, n, on)
           \/ \E e \in LogEquip : GetLogMask(e)
  BY <1>1, <1>4 DEF DisableLog, SetLogMask, GetLogMask, tables
<1>5. CASE \/ \E n \in EventBits, v \in 0..1 :
                 SetEventMask(n, Alternate(v, BITS_TO_BYTES(n)))
           \/ \E enabled \in BOOLEAN : ToggleEvents(enabled)
  BY <1>1, <1>5 DEF SetEventMask, ToggleEvents
<1>6. CASE \E p \in Perif : \/ Open(p) \/ AnswerFeatures(p) \/ Close(p) \/ Restart(p)
                            \/ CntlWrite(p)
  BY <1>1, <1>6 DEF Open, AnswerFeatures, Close, Restart, CntlWrite, tables
<1>7. CASE UNCHANGED vars
  BY <1>1, <1>7 DEF vars, tables
<1>8. CASE \E first \in MsgSsid : GetMsgMask(first)
  BY <1>1, <1>8 DEF GetMsgMask, tables
<1> QED
  BY <1>2, <1>3, <1>4, <1>5, <1>6, <1>7, <1>8 DEF Next

\* ToldMasksKept holds in every behaviour, for every table of ranges.
THEOREM MasksStayInBounds == Spec => []ToldMasksKept
<1>1. BoundsInv => ToldMasksKept
  BY DEF BoundsInv, ToldMasksKept, Kept
<1> QED
  BY <1>1, BoundsInit, BoundsStep, PTL DEF Spec

-----------------------------------------------------------------------------
(* Queues of mask packets.                                                 *)

MaskPacket ==
    [kind : Kind, status : Status, masks : UNION {[D -> Nat] : D \in SUBSET Nat}, all : Nat]

\* A packet that tells a subsystem the mask of s, and the mask it tells.
Covers(pkt, kind, s) ==
    /\ pkt.kind = kind
    /\ \/ pkt.status \in {"ALL_DISABLED", "ALL_ENABLED"}
       \/ pkt.status = "VALID" /\ s \in DOMAIN pkt.masks

Says(pkt, s) ==
    IF pkt.status = "ALL_DISABLED" THEN 0
    ELSE IF pkt.status = "ALL_ENABLED" THEN pkt.all ELSE pkt.masks[s]

\* A subsystem that knows v as the mask of s, or nothing, has the current one when
\* the queue is empty: the last packet that speaks of s tells it, and v is current
\* when no packet does.
Current(q, kind, s, v, cur) ==
    /\ \A i \in 1..Len(q) :
          Covers(q[i], kind, s) /\ (\A j \in 1..Len(q) : j > i => ~Covers(q[j], kind, s))
             => Says(q[i], s) = cur
    /\ (\A i \in 1..Len(q) : ~Covers(q[i], kind, s)) => v \in {Unset, cur}

LEMMA CurrentEmpty ==
    ASSUME NEW kind, NEW s, NEW v, NEW cur
    PROVE  Current(<<>>, kind, s, v, cur) <=> v \in {Unset, cur}
<1>1. Len(<<>>) = 0
  OBVIOUS
<1> QED
  BY <1>1 DEF Current

\* A subsystem that restarts knows nothing.
LEMMA CurrentBlank ==
    ASSUME NEW q, NEW kind, NEW s, NEW v, NEW cur, Current(q, kind, s, v, cur)
    PROVE  Current(q, kind, s, Unset, cur)
BY DEF Current

\* A packet is queued: it tells the new mask, or it is about something else and the
\* mask is the old one.
LEMMA CurrentAppend ==
    ASSUME NEW S, NEW q \in Seq(S), NEW pkt \in S, NEW kind, NEW s, NEW v, NEW cur,
           Covers(pkt, kind, s) => Says(pkt, s) = cur,
           ~Covers(pkt, kind, s) => Current(q, kind, s, v, cur)
    PROVE  Current(Append(q, pkt), kind, s, v, cur)
<1> DEFINE r == Append(q, pkt)
<1>1. /\ Len(q) \in Nat /\ Len(r) = Len(q) + 1
      /\ \A i \in 1..Len(q) : r[i] = q[i]
      /\ r[Len(q) + 1] = pkt
  BY AppendProperties, LenProperties
<1> HIDE DEF r
<1>2. CASE Covers(pkt, kind, s)
  <2>1. Says(pkt, s) = cur
    BY <1>2
  <2>2. ASSUME NEW i \in 1..Len(r), \A j \in 1..Len(r) : j > i => ~Covers(r[j], kind, s)
        PROVE  Says(r[i], s) = cur
    <3>1. i = Len(q) + 1
      BY <1>1, <1>2, <2>2
    <3> QED
      BY <1>1, <2>1, <3>1
  <2>3. Len(q) + 1 \in 1..Len(r) /\ Covers(r[Len(q) + 1], kind, s)
    BY <1>1, <1>2
  <2> QED
    BY <2>2, <2>3 DEF Current, r
<1>3. CASE ~Covers(pkt, kind, s)
  <2>1. Current(q, kind, s, v, cur)
    BY <1>3
  <2>2. ASSUME NEW i \in 1..Len(r), Covers(r[i], kind, s),
               \A j \in 1..Len(r) : j > i => ~Covers(r[j], kind, s)
        PROVE  Says(r[i], s) = cur
    <3>1. i \in 1..Len(q) /\ r[i] = q[i]
      BY <1>1, <1>3, <2>2
    <3>2. \A j \in 1..Len(q) : j > i => ~Covers(q[j], kind, s)
      BY <1>1, <2>2
    <3> QED
      BY <2>1, <2>2, <3>1, <3>2 DEF Current
  <2>3. ASSUME \A i \in 1..Len(r) : ~Covers(r[i], kind, s)
        PROVE  v \in {Unset, cur}
    <3>1. \A i \in 1..Len(q) : ~Covers(q[i], kind, s)
      BY <1>1, <2>3
    <3> QED
      BY <2>1, <3>1 DEF Current
  <2> QED
    BY <2>2, <2>3 DEF Current, r
<1> QED
  BY <1>2, <1>3

\* Packets are queued that tell the current mask if they speak of it.
LEMMA CurrentConcat ==
    ASSUME NEW S, NEW q \in Seq(S), NEW r \in Seq(S), NEW kind, NEW s, NEW v, NEW cur,
           \A i \in 1..Len(r) : Covers(r[i], kind, s) => Says(r[i], s) = cur,
           Current(q, kind, s, v, cur)
    PROVE  Current(q \o r, kind, s, v, cur)
<1> DEFINE t == q \o r
<1>1. /\ Len(q) \in Nat /\ Len(r) \in Nat /\ Len(t) = Len(q) + Len(r)
      /\ \A i \in 1..Len(t) : t[i] = IF i <= Len(q) THEN q[i] ELSE r[i - Len(q)]
  BY ConcatProperties, LenProperties
<1> HIDE DEF t
<1>2. ASSUME NEW i \in 1..Len(t), Covers(t[i], kind, s),
             \A j \in 1..Len(t) : j > i => ~Covers(t[j], kind, s)
      PROVE  Says(t[i], s) = cur
  <2>1. CASE i <= Len(q)
    <3>1. i \in 1..Len(q) /\ t[i] = q[i]
      BY <1>1, <2>1
    <3>2. \A j \in 1..Len(q) : j \in 1..Len(t) /\ t[j] = q[j]
      BY <1>1
    <3> QED
      BY <1>2, <3>1, <3>2 DEF Current
  <2>2. CASE i > Len(q)
    <3>1. i - Len(q) \in 1..Len(r) /\ t[i] = r[i - Len(q)]
      BY <1>1, <2>2
    <3> QED
      BY <1>2, <3>1
  <2> QED
    BY <1>1, <2>1, <2>2
<1>3. ASSUME \A i \in 1..Len(t) : ~Covers(t[i], kind, s)
      PROVE  v \in {Unset, cur}
  <2>1. \A i \in 1..Len(q) : i \in 1..Len(t) /\ t[i] = q[i]
    BY <1>1
  <2> QED
    BY <1>3, <2>1 DEF Current
<1> QED
  BY <1>2, <1>3 DEF Current, t

\* The first packet is delivered.
LEMMA CurrentTail ==
    ASSUME NEW S, NEW q \in Seq(S), q # <<>>, NEW kind, NEW s, NEW v, NEW cur,
           Current(q, kind, s, v, cur)
    PROVE  Current(Tail(q), kind, s,
                   IF Covers(Head(q), kind, s) THEN Says(Head(q), s) ELSE v, cur)
<1> DEFINE t == Tail(q)
           w == IF Covers(Head(q), kind, s) THEN Says(Head(q), s) ELSE v
<1>1. /\ Len(q) \in Nat \ {0} /\ Len(t) = Len(q) - 1
      /\ \A i \in 1..Len(t) : t[i] = q[i + 1]
      /\ Head(q) = q[1]
  BY HeadTailProperties, EmptySeq
<1> HIDE DEF t, w
<1>2. ASSUME NEW i \in 1..Len(t), Covers(t[i], kind, s),
             \A j \in 1..Len(t) : j > i => ~Covers(t[j], kind, s)
      PROVE  Says(t[i], s) = cur
  <2>1. i + 1 \in 1..Len(q) /\ t[i] = q[i + 1]
    BY <1>1
  <2>2. ASSUME NEW j \in 1..Len(q), j > i + 1 PROVE ~Covers(q[j], kind, s)
    <3>1. j - 1 \in 1..Len(t) /\ j - 1 > i /\ t[j - 1] = q[j]
      BY <1>1, <2>2
    <3> QED
      BY <1>2, <3>1
  <2> QED
    BY <1>2, <2>1, <2>2 DEF Current
<1>3. ASSUME \A i \in 1..Len(t) : ~Covers(t[i], kind, s)
      PROVE  w \in {Unset, cur}
  <2>1. ASSUME NEW j \in 1..Len(q), j > 1 PROVE ~Covers(q[j], kind, s)
    <3>1. j - 1 \in 1..Len(t) /\ t[j - 1] = q[j]
      BY <1>1, <2>1
    <3> QED
      BY <1>3, <3>1
  <2>2. 1 \in 1..Len(q)
    BY <1>1
  <2>3. CASE Covers(q[1], kind, s)
    BY <1>1, <2>1, <2>2, <2>3 DEF Current, w
  <2>4. CASE ~Covers(q[1], kind, s)
    <3>1. \A j \in 1..Len(q) : ~Covers(q[j], kind, s)
      BY <2>1, <2>4
    <3> QED
      BY <1>1, <2>4, <3>1 DEF Current, w
  <2> QED
    BY <2>3, <2>4
<1> QED
  BY <1>2, <1>3 DEF Current, t, w

-----------------------------------------------------------------------------
(* Type correctness.                                                       *)

MaskView == [msg   : [AllSsids -> Nat \cup {Unset}],
             log   : [Equip -> Nat \cup {Unset}],
             event : [EventBytes -> Nat \cup {Unset}]]

LogEntry == [num_items_tools : 0..MAX_ITEMS_ALLOWED, mask : Nat]

\* The bounds are those of BoundsInv.  The size of the event mask is one that was
\* asked for, so that the subsystems know of every byte.
TypeInv ==
    /\ mask \in [AllSsids -> Nat]
    /\ log \in [Equip -> LogEntry]
    /\ event_max_num_bits \in EventBits \cup {APPS_EVENT_LAST_ID}
    /\ event \in [1..BITS_TO_BYTES(event_max_num_bits) -> 0..1]
    /\ status \in [Kind -> Status]
    /\ peripherals \in Seq(Perif)
    /\ cntlq \in [Perif -> Seq(MaskPacket)]
    /\ crashed \in BOOLEAN
    /\ commands \in Nat
    /\ view \in [Perif -> MaskView]
    /\ reached \in BOOLEAN
    /\ astray \subseteq Equip

\* A set of numbers that is not empty has a least member.
LEMMA LeastExists ==
    ASSUME NEW T \in SUBSET Nat, T # {}
    PROVE  \E x \in T : \A y \in T : x <= y
<1> DEFINE R == {ss \in Nat \X Nat : ss[1] < ss[2]}
<1>1. IsWellFoundedOn(R, Nat)
  BY NatLessThanWellFounded, Zenon DEF OpToRel
<1> HIDE DEF R
<1>2. PICK x \in T : \A y \in T : ~(<<y, x>> \in R)
  BY <1>1, WFMin, Zenon
<1>3. \A y \in T : ~(y < x)
  BY <1>2 DEF R
<1> QED BY <1>3

LEMMA LeastMember ==
    ASSUME NEW T \in SUBSET Nat, T # {}
    PROVE  Least(T) \in T /\ \A y \in T : Least(T) <= y
<1>1. \E x \in T : \A y \in T : x <= y
  BY LeastExists
<1> QED
  BY <1>1 DEF Least

LEMMA Bits ==
    /\ APPS_EVENT_LAST_ID \in Nat
    /\ EventBits \subseteq Nat
    /\ \A n \in Nat : BITS_TO_BYTES(n) \in Nat
    /\ \A m, n \in Nat : m <= n => BITS_TO_BYTES(m) <= BITS_TO_BYTES(n)
<1>1. APPS_EVENT_LAST_ID \in Nat /\ EventBits \subseteq Nat
  BY MasksAssumption
<1>2. ASSUME NEW n \in Nat PROVE BITS_TO_BYTES(n) \in Nat
  BY DEF BITS_TO_BYTES
<1>3. ASSUME NEW m \in Nat, NEW n \in Nat, m <= n
      PROVE  BITS_TO_BYTES(m) <= BITS_TO_BYTES(n)
  BY <1>3 DEF BITS_TO_BYTES
<1> QED
  BY <1>1, <1>2, <1>3

\* EventBytes are the bytes of the largest event mask there can be.
LEMMA EventBytesAll ==
    ASSUME NEW n \in EventBits \cup {APPS_EVENT_LAST_ID}
    PROVE  1..BITS_TO_BYTES(n) \subseteq EventBytes
<1> DEFINE S == EventBits \cup {APPS_EVENT_LAST_ID}
           U == {u \in Nat : \A m \in S : m <= u}
           top == CHOOSE x \in S : \A m \in S : m <= x
<1>1. S \subseteq Nat /\ n \in S
  BY Bits
<1>2. PICK b \in Nat : EventBits \subseteq 0..b
  BY MasksAssumption
<1>3. U # {}
  <2>1. CASE b <= APPS_EVENT_LAST_ID
    <3>1. APPS_EVENT_LAST_ID \in U
      BY <1>2, <2>1, Bits
    <3> QED BY <3>1
  <2>2. CASE APPS_EVENT_LAST_ID < b
    <3>1. b \in U
      BY <1>2, <2>2, Bits
    <3> QED BY <3>1
  <2> QED BY <1>2, <2>1, <2>2, Bits
<1> HIDE DEF S
<1>4. PICK u \in U : \A y \in U : u <= y
  BY <1>3, LeastExists
<1>5. u \in S
  <2> SUFFICES ASSUME u \notin S PROVE FALSE
    OBVIOUS
  <2>1. \A m \in S : m < u
    BY <1>1, <1>4
  <2>2. u - 1 \in U
    BY <1>1, <1>4, <2>1
  <2> QED BY <1>4, <2>2
<1>6. top \in S /\ \A m \in S : m <= top
  BY <1>4, <1>5
<1> HIDE DEF top
<1>7. n <= top /\ n \in Nat /\ top \in Nat
  BY <1>1, <1>6
<1>8. BITS_TO_BYTES(n) <= BITS_TO_BYTES(top) /\ BITS_TO_BYTES(n) \in Nat
      /\ BITS_TO_BYTES(top) \in Nat
  BY <1>7, Bits
<1>9. EventBytes = 1..BITS_TO_BYTES(top)
  BY DEF EventBytes, top, S
<1> QED BY <1>8, <1>9

LEMMA PacketType ==
    ASSUME NEW k \in Kind, NEW st \in Status, NEW D \in SUBSET Nat, NEW f \in [D -> Nat],
           NEW all \in Nat
    PROVE  Packet(k, st, f, all) \in MaskPacket
<1>1. f \in UNION {[E -> Nat] : E \in SUBSET Nat}
  OBVIOUS
<1>2. <<>> \in UNION {[E -> Nat] : E \in SUBSET Nat}
  <2>1. <<>> \in [{} -> Nat] /\ {} \in SUBSET Nat
    OBVIOUS
  <2> QED BY <2>1
<1> QED
  BY <1>1, <1>2 DEF Packet, MaskPacket

LEMMA SsidsIn ==
    /\ AllSsids \subseteq Nat
    /\ \A i \in Table : Ssids(i) \subseteq AllSsids
    /\ \A i \in Table : ssid_first_arr[i] \in Ssids(i)
BY TableType DEF Ssids, AllSsids

LEMMA MsgPacketType ==
    ASSUME NEW t, NEW m \in [AllSsids -> Nat], NEW st \in Status, NEW s
    PROVE  MsgPacket(t, m, st, s) \in MaskPacket
<1>1. CASE Gets(t, s) = {}
  <2>1. <<>> \in [{} -> Nat] /\ {} \in SUBSET Nat /\ 0 \in Nat /\ "msg" \in Kind
    BY DEF Kind
  <2>2. Packet("msg", st, <<>>, 0) \in MaskPacket
    BY <2>1, PacketType
  <2> QED
    BY <1>1, <2>2 DEF MsgPacket
<1>2. CASE Gets(t, s) # {}
  <2>1. Gets(t, s) \in SUBSET Nat /\ Gets(t, s) \subseteq Table
    BY DEF Gets, Table
  <2>2. PICK i \in Table : i = Least(Gets(t, s))
    BY <1>2, <2>1, LeastMember
  <2>3. Ssids(i) \in SUBSET Nat /\ [x \in Ssids(i) |-> m[x]] \in [Ssids(i) -> Nat]
        /\ m[ssid_first_arr[i]] \in Nat
    BY SsidsIn
  <2>4. Packet("msg", st, [x \in Ssids(i) |-> m[x]], m[ssid_first_arr[i]]) \in MaskPacket
    BY <2>3, PacketType DEF Kind
  <2> QED
    BY <1>2, <2>2, <2>4 DEF MsgPacket
<1> QED
  BY <1>1, <1>2

LEMMA EquipType ==
    /\ EQUIP_MODULUS \in Nat \ {0}
    /\ Equip \subseteq Nat
    /\ \A e \in Equip : e < EQUIP_MODULUS /\ e % EQUIP_MODULUS = e
<1>1. EQUIP_MODULUS \in Nat \ {0} /\ Equip \subseteq 0..(EQUIP_MODULUS - 1)
  BY MasksAssumption
<1> QED
  BY <1>1

LEMMA LogPacketType ==
    ASSUME NEW t \in [Equip -> LogEntry], NEW st \in Status, NEW e \in Nat
    PROVE  LogPacket(t, st, e) \in MaskPacket
<1> DEFINE f == [x \in {e % EQUIP_MODULUS} |-> IF e \in Equip THEN t[e].mask ELSE 0]
<1>1. e % EQUIP_MODULUS \in Nat
  BY EquipType
<1>2. (IF e \in Equip THEN t[e].mask ELSE 0) \in Nat
  BY DEF LogEntry
<1>3. f \in [{e % EQUIP_MODULUS} -> Nat] /\ {e % EQUIP_MODULUS} \in SUBSET Nat
  BY <1>1, <1>2
<1> HIDE DEF f
<1>4. Packet("log", st, f, 0) \in MaskPacket
  BY <1>3, PacketType DEF Kind
<1> QED
  BY <1>4 DEF LogPacket, f

LEMMA EventPacketType ==
    ASSUME NEW n \in Nat, NEW t \in [1..n -> 0..1], NEW st \in Status
    PROVE  EventPacket(t, st) \in MaskPacket
<1>1. t \in [1..n -> Nat] /\ 1..n \in SUBSET Nat
  OBVIOUS
<1> QED
  BY <1>1, PacketType DEF EventPacket, Kind

Listed(p) == \E k \in 1..Len(peripherals) : peripherals[k] = p

LEMMA Broadcasted ==
    ASSUME cntlq \in [Perif -> Seq(MaskPacket)], NEW pkt \in MaskPacket, Broadcast(pkt)
    PROVE  /\ cntlq' \in [Perif -> Seq(MaskPacket)]
           /\ \A p \in Perif : cntlq'[p] = IF Listed(p) THEN Append(cntlq[p], pkt)
                                                        ELSE cntlq[p]
<1>1. \A p \in Perif : cntlq[p] \in Seq(MaskPacket)
  OBVIOUS
<1>2. \A p \in Perif : Append(cntlq[p], pkt) \in Seq(MaskPacket)
  BY <1>1, AppendProperties
<1> QED
  BY <1>1, <1>2 DEF Broadcast, Listed

\* The ranges the peripherals share: what the lookup makes of the first.
LEMMA BroadcastedMsg ==
    ASSUME cntlq \in [Perif -> Seq(MaskPacket)], NEW t, NEW m \in [AllSsids -> Nat], NEW s,
           BroadcastMsg(t, m, s)
    PROVE  /\ cntlq' \in [Perif -> Seq(MaskPacket)]
           /\ \A p \in Perif : \E pkt \in MaskPacket :
                 /\ pkt.kind = "msg"
                 /\ cntlq'[p] = IF Listed(p) THEN Append(cntlq[p], pkt) ELSE cntlq[p]
<1> DEFINE F(f, k) == IF k = 1 THEN s ELSE Moved(t, f[k - 1])
           from == CHOOSE f : f = [k \in 1..Len(peripherals) |-> F(f, k)]
           spot(p) == CHOOSE x \in 1..Len(peripherals) : peripherals[x] = p
           pkt(p) == MsgPacket(t, m, "VALID", from[spot(p)])
<1>1. cntlq' = [p \in Perif |-> IF Listed(p) THEN Append(cntlq[p], pkt(p)) ELSE cntlq[p]]
  BY DEF BroadcastMsg, Shared, Listed
<1>2. \A p \in Perif : pkt(p) \in MaskPacket /\ pkt(p).kind = "msg"
  <2>1. \A p \in Perif : pkt(p) \in MaskPacket
    BY MsgPacketType DEF Status
  <2>2. \A p \in Perif : pkt(p).kind = "msg"
    BY DEF MsgPacket, Packet
  <2> QED BY <2>1, <2>2
<1> HIDE DEF pkt
<1>3. \A p \in Perif : cntlq[p] \in Seq(MaskPacket)
  OBVIOUS
<1>4. \A p \in Perif : Append(cntlq[p], pkt(p)) \in Seq(MaskPacket)
  BY <1>2, <1>3, AppendProperties
<1> QED
  BY <1>1, <1>2, <1>3, <1>4

LEMMA SentMasks ==
    ASSUME mask \in [AllSsids -> Nat], status \in [Kind -> Status], NEW q \in Seq(MaskPacket),
           NEW r, r = [i \in Table |-> MsgPacket(msg, mask, status["msg"], ssid_first_arr[i])]
    PROVE  r \in Seq(MaskPacket) /\ Len(r) = Len(ssid_first_arr)
           /\ SendMasks(q) = q \o r /\ SendMasks(q) \in Seq(MaskPacket)
<1>1. status["msg"] \in Status
  BY DEF Kind
<1>2. \A i \in Table : MsgPacket(msg, mask, status["msg"], ssid_first_arr[i]) \in MaskPacket
  BY <1>1, MsgPacketType
<1>3. r \in [1..Len(ssid_first_arr) -> MaskPacket] /\ Len(ssid_first_arr) \in Nat
  BY <1>2, TableType DEF Table
<1>4. r \in Seq(MaskPacket) /\ Len(r) = Len(ssid_first_arr)
  BY SMTT(30), <1>3, SeqDef
<1>5. SendMasks(q) = q \o r
  BY DEF SendMasks
<1> QED
  BY ZenonT(30), <1>4, <1>5, ConcatProperties

\* A peripheral that is taken off the list leaves the others on it.
LEMMA Taken ==
    ASSUME peripherals \in Seq(Perif), NEW p \in Perif, Listed(p)
    PROVE  /\ Without(peripherals, p) \in Seq(Perif)
           /\ \A o \in Perif \ {p} : Listed(o) =>
                \E k \in 1..Len(Without(peripherals, p)) : Without(peripherals, p)[k] = o
<1> DEFINE s == peripherals
           k == CHOOSE x \in 1..Len(s) : s[x] = p
           front == SubSeq(s, 1, k - 1)
           back == SubSeq(s, k + 1, Len(s))
<1>1. Len(s) \in Nat /\ \A i \in 1..Len(s) : s[i] \in Perif
  BY LenProperties, ElementOfSeq
<1>2. k \in 1..Len(s) /\ s[k] = p
  BY DEF Listed
<1> HIDE DEF k
<1>3. /\ front \in Seq(Perif) /\ Len(front) = k - 1
      /\ \A i \in 1..(k - 1) : front[i] = s[i]
  <2>1. 1 \in Int /\ k - 1 \in Int /\ \A i \in 1..(k - 1) : s[i] \in Perif
    BY <1>1, <1>2
  <2>2. /\ front \in Seq(Perif)
        /\ Len(front) = IF 1 <= k - 1 THEN k - 1 - 1 + 1 ELSE 0
        /\ \A i \in 1..(k - 1 - 1 + 1) : front[i] = s[1 + i - 1]
    BY <2>1, SubSeqProperties
  <2> HIDE DEF front
  <2> QED BY <1>1, <1>2, <2>2
<1>4. /\ back \in Seq(Perif) /\ Len(back) = Len(s) - k
      /\ \A i \in 1..(Len(s) - k) : back[i] = s[k + i]
  <2>1. k + 1 \in Int /\ Len(s) \in Int /\ \A i \in (k + 1)..Len(s) : s[i] \in Perif
    BY <1>1, <1>2
  <2>2. /\ back \in Seq(Perif)
        /\ Len(back) = IF k + 1 <= Len(s) THEN Len(s) - (k + 1) + 1 ELSE 0
        /\ \A i \in 1..(Len(s) - (k + 1) + 1) : back[i] = s[k + 1 + i - 1]
    BY <2>1, SubSeqProperties
  <2> HIDE DEF back
  <2> QED BY <1>1, <1>2, <2>2
<1>5. Without(s, p) = front \o back
  BY DEF Without, k
<1> HIDE DEF front, back
<1>6. /\ front \o back \in Seq(Perif) /\ Len(front \o back) = Len(s) - 1
      /\ \A i \in 1..(Len(s) - 1) :
            (front \o back)[i] = IF i <= k - 1 THEN front[i] ELSE back[i - (k - 1)]
  <2>1. front \in Seq(Perif) /\ back \in Seq(Perif)
    BY <1>3, <1>4
  <2>2. /\ front \o back \in Seq(Perif)
        /\ Len(front \o back) = Len(front) + Len(back)
        /\ \A i \in 1..(Len(front) + Len(back)) :
              (front \o back)[i] = IF i <= Len(front) THEN front[i] ELSE back[i - Len(front)]
    BY <2>1, ConcatProperties
  <2>3. Len(front) = k - 1 /\ Len(back) = Len(s) - k
    BY <1>3, <1>4
  <2>4. k - 1 + (Len(s) - k) = Len(s) - 1
    BY <1>1, <1>2
  <2> QED BY <2>2, <2>3, <2>4
<1>7. ASSUME NEW o \in Perif \ {p}, Listed(o)
      PROVE  \E x \in 1..(Len(s) - 1) : (front \o back)[x] = o
  <2>1. PICK y \in 1..Len(s) : s[y] = o
    BY <1>7 DEF Listed
  <2>2. y # k
    BY <1>2, <2>1
  <2>3. CASE y < k
    <3>1. y \in 1..(Len(s) - 1) /\ y <= k - 1 /\ y \in 1..(k - 1)
      BY <1>1, <1>2, <2>3
    <3>2. (front \o back)[y] = o
      BY <1>3, <1>6, <2>1, <3>1
    <3> QED BY <3>1, <3>2
  <2>4. CASE y > k
    <3>1. y - 1 \in 1..(Len(s) - 1) /\ ~(y - 1 <= k - 1) /\ y - 1 - (k - 1) = y - k
          /\ y - k \in 1..(Len(s) - k) /\ k + (y - k) = y
      BY <1>1, <1>2, <2>4
    <3>2. (front \o back)[y - 1] = back[y - k]
      BY <1>6, <3>1
    <3>3. back[y - k] = s[y]
      BY <1>4, <3>1
    <3> QED BY <2>1, <3>1, <3>2, <3>3
  <2>5. y < k \/ y > k
    BY <1>1, <1>2, <2>2
  <2> QED BY <2>3, <2>4, <2>5
<1> QED
  BY <1>5, <1>6, <1>7

LEMMA SeqAlternate ==
    ASSUME NEW v \in 0..1, NEW n \in Nat
    PROVE  /\ Alternate(v, n) \in Seq(0..1) /\ Len(Alternate(v, n)) = n
           /\ Alternate(v, n) \in [1..n -> 0..1]
<1>1. \A j \in 1..n : (v + j) % 2 \in 0..1
  OBVIOUS
<1>2. Alternate(v, n) \in [1..n -> 0..1]
  BY <1>1 DEF Alternate
<1> QED
  BY <1>2, SeqDef

LEMMA WrittenType ==
    ASSUME mask \in [AllSsids -> Nat], NEW i \in Table, NEW first \in Nat, NEW masks \in Seq(0..1)
    PROVE  Written(i, first, masks) \in [AllSsids -> Nat]
<1>1. Len(masks) \in Nat /\ \A j \in 1..Len(masks) : masks[j] \in Nat
  BY LenProperties, ElementOfSeq
<1>2. ASSUME NEW s \in AllSsids, s \in Ssids(i), s >= first,
             s + 1 - first <= Smaller(Len(masks), MAX_SSID_PER_RANGE)
      PROVE  masks[s + 1 - first] \in Nat
  <2>1. s \in Nat /\ MAX_SSID_PER_RANGE \in Nat
    BY SsidsIn, TableType
  <2>2. s + 1 - first \in 1..Len(masks)
    BY <1>1, <1>2, <2>1 DEF Smaller
  <2> QED BY <1>1, <2>2
<1> QED
  BY <1>2 DEF Written

LEMMA SetMsgMaskTypes ==
    ASSUME TypeInv, NEW first \in Nat, NEW last \in Nat, NEW masks \in Seq(0..1),
           SetMsgMask(first, last, masks)
    PROVE  TypeInv'
<1>1. /\ UNCHANGED <<log, event, event_max_num_bits, astray, peripherals, view>>
      /\ commands' \in Nat
  BY DEF SetMsgMask, Command, TypeInv
<1>2. CASE Sets(first) = {}
  <2>1. UNCHANGED <<mask, status, cntlq, crashed, reached>>
    BY <1>2 DEF SetMsgMask
  <2> QED BY <1>1, <2>1 DEF TypeInv
<1>3. CASE Sets(first) # {}
  <2> DEFINE i == CHOOSE x \in Sets(first) : TRUE
             entry == Extended(i, first, last)
             fits == End(i, first, last) <= entry.range_tools
  <2>1. i \in Table
    BY <1>3 DEF Sets
  <2>2. /\ reached' = (reached \/ Touches(i, entry))
        /\ \/ /\ mask' = Written(i, first, masks)
              /\ status' = [status EXCEPT !["msg"] = "VALID"]
              /\ BroadcastMsg(msg', mask', first)
              /\ crashed' \in BOOLEAN
           \/ UNCHANGED <<mask, status, cntlq, crashed>>
    BY <1>3 DEF SetMsgMask, Survives
  <2>3. reached' \in BOOLEAN
    BY <2>2 DEF TypeInv
  <2> HIDE DEF i, entry, fits
  <2>4. CASE UNCHANGED <<mask, status, cntlq, crashed>>
    BY <1>1, <2>3, <2>4 DEF TypeInv
  <2>5. CASE /\ mask' = Written(i, first, masks)
             /\ status' = [status EXCEPT !["msg"] = "VALID"]
             /\ BroadcastMsg(msg', mask', first)
             /\ crashed' \in BOOLEAN
    <3>1. mask' \in [AllSsids -> Nat]
      BY <2>1, <2>5, WrittenType DEF TypeInv
    <3>2. cntlq' \in [Perif -> Seq(MaskPacket)]
      <4>1. PICK t : t = msg'
        OBVIOUS
      <4>2. PICK m \in [AllSsids -> Nat] : m = mask'
        BY <3>1
      <4>3. BroadcastMsg(t, m, first)
        BY <2>5, <4>1, <4>2
      <4> QED BY <4>3, BroadcastedMsg DEF TypeInv
    <3>3. status' \in [Kind -> Status]
      BY <2>5 DEF TypeInv, Status
    <3> QED BY <1>1, <2>3, <2>5, <3>1, <3>2, <3>3 DEF TypeInv
  <2> QED BY <2>2, <2>4, <2>5
<1> QED
  BY <1>2, <1>3

LEMMA SetAllMsgMaskTypes ==
    ASSUME TypeInv, NEW word \in Nat, SetAllMsgMask(word)
    PROVE  TypeInv'
<1>1. /\ UNCHANGED <<log, event, event_max_num_bits, astray, peripherals, view, reached>>
      /\ commands' \in Nat
  BY DEF SetAllMsgMask, Command, TypeInv
<1>2. Filled(word) \in Nat
  <2>1. BYTE \in Nat \ {0}
    BY MasksAssumption
  <2>2. word % BYTE \in Nat
    BY <2>1
  <2> QED BY <2>1, <2>2 DEF Filled
<1>3. mask' \in [AllSsids -> Nat]
  BY <1>2 DEF SetAllMsgMask
<1>4. status' \in [Kind -> Status]
  BY DEF SetAllMsgMask, TypeInv, Status
<1>5. crashed' \in BOOLEAN
  BY DEF SetAllMsgMask, Survives
<1>6. cntlq' \in [Perif -> Seq(MaskPacket)]
  <2>1. Packet("msg", "ALL_DISABLED", <<>>, 0) \in MaskPacket
    <3>1. <<>> \in [{} -> Nat] /\ {} \in SUBSET Nat
      OBVIOUS
    <3> QED BY <3>1, PacketType DEF Kind, Status
  <2>2. CASE UNCHANGED cntlq
    BY <2>2 DEF TypeInv
  <2>3. CASE Broadcast(Packet("msg", "ALL_DISABLED", <<>>, 0))
    BY <2>1, <2>3, Broadcasted DEF TypeInv
  <2> QED BY <2>2, <2>3 DEF SetAllMsgMask
<1> QED
  BY <1>1, <1>3, <1>4, <1>5, <1>6 DEF TypeInv

LEMMA DisableLogTypes ==
    ASSUME TypeInv, DisableLog
    PROVE  TypeInv'
<1>1. /\ UNCHANGED <<mask, event, event_max_num_bits, crashed, peripherals, view, reached>>
      /\ commands' \in Nat /\ astray' = {}
  BY DEF DisableLog, Command, TypeInv
<1>2. log' \in [Equip -> LogEntry]
  BY DEF DisableLog, TypeInv, LogEntry
<1>3. status' \in [Kind -> Status]
  BY DEF DisableLog, TypeInv, Status
<1>4. cntlq' \in [Perif -> Seq(MaskPacket)]
  <2>1. PICK t \in [Equip -> LogEntry] : t = log'
    BY <1>2
  <2>2. LogPacket(t, "ALL_DISABLED", 0) \in MaskPacket
    BY LogPacketType DEF Status
  <2>3. Broadcast(LogPacket(t, "ALL_DISABLED", 0))
    BY <2>1 DEF DisableLog
  <2> QED BY <2>2, <2>3, Broadcasted DEF TypeInv
<1> QED
  BY <1>1, <1>2, <1>3, <1>4 DEF TypeInv

\* The ids that may be in an answer are numbers.
LEMMA AnsweredType ==
    ASSUME NEW e \in Nat, NEW bytes \in Nat
    PROVE  Answered(e, bytes) \subseteq Nat
<1> DEFINE M == EQUIP_MODULUS * EQUIP_MODULUS * EQUIP_MODULUS
           near == Equip \cup {e}
<1>1. M \in Nat
  BY EquipType
<1> HIDE DEF M
<1>2. near \subseteq Nat
  BY EquipType
<1>3. {x + M : x \in near} \subseteq Nat
  BY <1>1, <1>2
<1>4. Answered(e, bytes) \subseteq {e} \cup near \cup {x + M : x \in near}
  BY DEF Answered, M
<1> QED
  BY <1>2, <1>3, <1>4

LEMMA StraysType ==
    ASSUME NEW S \in SUBSET Equip, NEW a
    PROVE  Strays(S, a) \subseteq Equip
BY DEF Strays

LEMMA SetLogMaskTypes ==
    ASSUME TypeInv, NEW e \in Nat, NEW n \in Nat, NEW on \in BOOLEAN, SetLogMask(e, n, on)
    PROVE  TypeInv'
<1>1. /\ UNCHANGED <<mask, event, event_max_num_bits, crashed, peripherals, view, reached>>
      /\ commands' \in Nat
  BY DEF SetLogMask, Command, TypeInv
<1> DEFINE num == Smaller(n, MAX_ITEMS_ALLOWED)
           x == e % EQUIP_MODULUS
           bytes == BITS_TO_BYTES(num)
<1>2. num \in 0..MAX_ITEMS_ALLOWED /\ num \in Nat /\ bytes \in Nat
  <2>1. num \in 0..MAX_ITEMS_ALLOWED /\ num \in Nat
    BY MasksAssumption DEF Smaller
  <2> QED BY <2>1, Bits
<1>3. CASE x \in Equip
  <2>1. /\ log' = [log EXCEPT ![x] = [num_items_tools |-> num, mask |-> IF on THEN num ELSE 0]]
        /\ status' = [status EXCEPT !["log"] = "VALID"]
        /\ \E a \in Answered(e, bytes) :
              /\ Broadcast(LogPacket(log', "VALID", a))
              /\ astray' = Strays(astray \cup {x}, a)
    BY <1>3 DEF SetLogMask
  <2> HIDE DEF num, bytes
  <2>2. log' \in [Equip -> LogEntry]
    BY <1>2, <1>3, <2>1 DEF TypeInv, LogEntry
  <2>3. status' \in [Kind -> Status]
    BY <2>1 DEF TypeInv, Status
  <2>4. PICK a \in Answered(e, bytes) : /\ Broadcast(LogPacket(log', "VALID", a))
                                        /\ astray' = Strays(astray \cup {x}, a)
    BY <2>1
  <2>5. a \in Nat
    BY <1>2, AnsweredType
  <2>6. astray' \subseteq Equip
    <3>1. astray \cup {x} \in SUBSET Equip
      BY <1>3 DEF TypeInv
    <3> QED BY <2>4, <3>1, StraysType
  <2>7. cntlq' \in [Perif -> Seq(MaskPacket)]
    <3>1. PICK t \in [Equip -> LogEntry] : t = log'
      BY <2>2
    <3>2. LogPacket(t, "VALID", a) \in MaskPacket
      BY <2>5, LogPacketType DEF Status
    <3>3. Broadcast(LogPacket(t, "VALID", a))
      BY <2>4, <3>1
    <3> QED BY <3>2, <3>3, Broadcasted DEF TypeInv
  <2> QED BY <1>1, <2>2, <2>3, <2>6, <2>7 DEF TypeInv
<1>4. CASE x \notin Equip
  <2>1. UNCHANGED <<log, status, astray>> /\ Broadcast(LogPacket(log, status["log"], e))
    BY <1>4 DEF SetLogMask
  <2>2. LogPacket(log, status["log"], e) \in MaskPacket
    BY LogPacketType DEF TypeInv, Kind
  <2>3. cntlq' \in [Perif -> Seq(MaskPacket)]
    BY <2>1, <2>2, Broadcasted DEF TypeInv
  <2> QED BY <1>1, <2>1, <2>3 DEF TypeInv
<1> QED
  BY <1>3, <1>4

LEMMA GetLogMaskTypes ==
    ASSUME TypeInv, NEW e \in Nat, GetLogMask(e)
    PROVE  TypeInv'
<1>1. /\ UNCHANGED <<tables, crashed, reached, peripherals, view>>
      /\ commands' \in Nat
  BY DEF GetLogMask, Command, TypeInv
<1>2. LogPacket(log, status["log"], e) \in MaskPacket
  BY LogPacketType DEF TypeInv, Kind
<1>3. cntlq' \in [Perif -> Seq(MaskPacket)]
  BY <1>2, Broadcasted DEF TypeInv, GetLogMask
<1>4. astray' \subseteq Equip
  BY StraysType DEF TypeInv, GetLogMask
<1> QED
  BY <1>1, <1>3, <1>4 DEF TypeInv, tables

LEMMA SetEventMaskTypes ==
    ASSUME TypeInv, NEW n \in EventBits, NEW bytes \in [1..BITS_TO_BYTES(n) -> 0..1],
           SetEventMask(n, bytes)
    PROVE  TypeInv'
<1>1. /\ UNCHANGED <<mask, log, crashed, reached, astray, peripherals, view>>
      /\ commands' \in Nat
  BY DEF SetEventMask, Command, TypeInv
<1>2. event_max_num_bits' \in EventBits \cup {APPS_EVENT_LAST_ID}
  BY DEF SetEventMask, TypeInv
<1>3. PICK m \in Nat : m = event_max_num_bits'
  BY <1>2, Bits
<1>4. event' = [b \in 1..BITS_TO_BYTES(m) |->
                   IF b <= BITS_TO_BYTES(n) THEN bytes[b] ELSE event[b]]
  BY <1>3 DEF SetEventMask
<1>5. ASSUME NEW b \in 1..BITS_TO_BYTES(m)
      PROVE  (IF b <= BITS_TO_BYTES(n) THEN bytes[b] ELSE event[b]) \in 0..1
  <2>1. BITS_TO_BYTES(m) \in Nat /\ BITS_TO_BYTES(n) \in Nat
    BY Bits
  <2>2. CASE b <= BITS_TO_BYTES(n)
    BY <2>1, <2>2
  <2>3. CASE ~(b <= BITS_TO_BYTES(n))
    <3>1. m # n
      BY <2>1, <2>3
    <3>2. m = event_max_num_bits
      BY <1>3, <3>1 DEF SetEventMask
    <3> QED BY <2>3, <3>2 DEF TypeInv
  <2> QED BY <2>2, <2>3
<1>6. event' \in [1..BITS_TO_BYTES(m) -> 0..1]
  BY <1>4, <1>5
<1>7. status' \in [Kind -> Status]
  BY DEF SetEventMask, TypeInv, Status
<1>8. cntlq' \in [Perif -> Seq(MaskPacket)]
  <2>1. BITS_TO_BYTES(m) \in Nat
    BY Bits
  <2>2. PICK t \in [1..BITS_TO_BYTES(m) -> 0..1] : t = event'
    BY <1>6
  <2>3. EventPacket(t, "VALID") \in MaskPacket
    BY <2>1, EventPacketType DEF Status
  <2>4. Broadcast(EventPacket(t, "VALID"))
    BY <2>2 DEF SetEventMask
  <2> QED BY <2>3, <2>4, Broadcasted DEF TypeInv
<1> QED
  BY <1>1, <1>2, <1>3, <1>6, <1>7, <1>8 DEF TypeInv

LEMMA ToggleEventsTypes ==
    ASSUME TypeInv, NEW enabled \in BOOLEAN, ToggleEvents(enabled)
    PROVE  TypeInv'
<1>1. /\ UNCHANGED <<mask, log, event_max_num_bits, crashed, reached, astray, peripherals, view>>
      /\ commands' \in Nat
  BY DEF ToggleEvents, Command, TypeInv
<1>2. PICK m \in Nat : m = event_max_num_bits
  BY Bits DEF TypeInv
<1>3. event' \in [1..BITS_TO_BYTES(m) -> 0..1]
  BY <1>2 DEF ToggleEvents, TypeInv
<1>4. status' \in [Kind -> Status] /\ status'["event"] \in Status
  BY DEF ToggleEvents, TypeInv, Status, Kind
<1>5. cntlq' \in [Perif -> Seq(MaskPacket)]
  <2>1. BITS_TO_BYTES(m) \in Nat
    BY Bits
  <2>2. PICK t \in [1..BITS_TO_BYTES(m) -> 0..1] : t = event'
    BY <1>3
  <2>3. PICK st \in Status : st = status'["event"]
    BY <1>4
  <2>4. EventPacket(t, st) \in MaskPacket
    BY <2>1, EventPacketType
  <2>5. Broadcast(EventPacket(t, st))
    BY <2>2, <2>3 DEF ToggleEvents
  <2> QED BY <2>4, <2>5, Broadcasted DEF TypeInv
<1> QED
  BY <1>1, <1>2, <1>3, <1>4, <1>5 DEF TypeInv

\* What a subsystem makes of a packet.
LEMMA ToldIs ==
    ASSUME NEW D, NEW old \in [D -> Nat \cup {Unset}], NEW pkt \in MaskPacket
    PROVE  /\ Told(old, pkt) \in [D -> Nat \cup {Unset}]
           /\ \A s \in D : Told(old, pkt)[s] = IF Covers(pkt, pkt.kind, s) THEN Says(pkt, s)
                                                                           ELSE old[s]
<1>1. /\ pkt.status \in Status /\ pkt.all \in Nat
      /\ \A s \in DOMAIN pkt.masks : pkt.masks[s] \in Nat
  BY ZenonT(30) DEF MaskPacket
<1>2. \A s \in D : Told(old, pkt)[s] = IF Covers(pkt, pkt.kind, s) THEN Says(pkt, s) ELSE old[s]
  BY <1>1 DEF Told, Covers, Says, Status
<1>3. \A s \in D : Told(old, pkt)[s] \in Nat \cup {Unset}
  BY <1>1, <1>2 DEF Covers, Says
<1>4. Told(old, pkt) = [s \in D |-> Told(old, pkt)[s]]
  BY DEF Told
<1> QED
  BY <1>2, <1>3, <1>4

LEMMA BlankType == Blank \in MaskView
BY DEF Blank, MaskView

\* The step of CntlWrite on the view of the subsystem, for each kind of mask.
LEMMA ViewTold ==
    ASSUME TypeInv, NEW p \in Perif, CntlWrite(p), NEW pkt, pkt = Head(cntlq[p])
    PROVE  /\ pkt \in MaskPacket /\ Tail(cntlq[p]) \in Seq(MaskPacket)
           /\ cntlq' = [cntlq EXCEPT ![p] = Tail(cntlq[p])]
           /\ view' \in [Perif -> MaskView]
           /\ \A o \in Perif : o # p => view'[o] = view[o]
           /\ view'[p].msg = IF pkt.kind = "msg" THEN Told(view[p].msg, pkt) ELSE view[p].msg
           /\ view'[p].log = IF pkt.kind = "log" THEN Told(view[p].log, pkt) ELSE view[p].log
           /\ view'[p].event = IF pkt.kind = "event" THEN Told(view[p].event, pkt)
                                                      ELSE view[p].event
<1>1. cntlq[p] \in Seq(MaskPacket) /\ cntlq[p] # <<>>
  BY DEF TypeInv, CntlWrite
<1>2. pkt \in MaskPacket /\ Tail(cntlq[p]) \in Seq(MaskPacket)
  BY <1>1, HeadTailProperties
<1>3. /\ view[p] \in MaskView /\ view \in [Perif -> MaskView]
      /\ view[p].msg \in [AllSsids -> Nat \cup {Unset}]
      /\ view[p].log \in [Equip -> Nat \cup {Unset}]
      /\ view[p].event \in [EventBytes -> Nat \cup {Unset}]
  BY DEF TypeInv, MaskView
<1>4. /\ Told(view[p].msg, pkt) \in [AllSsids -> Nat \cup {Unset}]
      /\ Told(view[p].log, pkt) \in [Equip -> Nat \cup {Unset}]
      /\ Told(view[p].event, pkt) \in [EventBytes -> Nat \cup {Unset}]
  BY <1>2, <1>3, ToldIs
<1>5. /\ cntlq' = [cntlq EXCEPT ![p] = Tail(cntlq[p])]
      /\ view' = [view EXCEPT ![p][pkt.kind] = Told(view[p][pkt.kind], pkt)]
  BY DEF CntlWrite
<1>6. pkt.kind \in {"msg", "log", "event"}
  BY <1>2 DEF MaskPacket, Kind
<1>7. CASE pkt.kind = "msg"
  BY <1>2, <1>3, <1>4, <1>5, <1>7 DEF MaskView
<1>8. CASE pkt.kind = "log"
  BY <1>2, <1>3, <1>4, <1>5, <1>8 DEF MaskView
<1>9. CASE pkt.kind = "event"
  BY <1>2, <1>3, <1>4, <1>5, <1>9 DEF MaskView
<1> QED
  BY <1>6, <1>7, <1>8, <1>9

LEMMA PerifTypes ==
    ASSUME TypeInv, NEW p \in Perif,
           Open(p) \/ AnswerFeatures(p) \/ Close(p) \/ Restart(p) \/ CntlWrite(p)
    PROVE  TypeInv'
<1>1. UNCHANGED <<tables, commands, reached, astray>> /\ crashed' \in BOOLEAN
  BY DEF Open, AnswerFeatures, Close, Restart, CntlWrite, Survives, TypeInv
<1>2. \A q \in Seq(MaskPacket) : SendMasks(q) \in Seq(MaskPacket)
  BY SentMasks DEF TypeInv
<1>3. peripherals' \in Seq(Perif)
  <2>1. CASE Open(p)
    BY <2>1, AppendProperties DEF Open, TypeInv
  <2>2. CASE Close(p)
    BY <2>2, Taken DEF Close, TypeInv, Listed
  <2>3. CASE UNCHANGED peripherals
    BY <2>3 DEF TypeInv
  <2> QED BY <2>1, <2>2, <2>3 DEF AnswerFeatures, Restart, CntlWrite
<1>4. cntlq' \in [Perif -> Seq(MaskPacket)]
  <2>1. <<>> \in Seq(MaskPacket) /\ cntlq[p] \in Seq(MaskPacket)
    BY DEF TypeInv
  <2>2. CASE Open(p)
    BY <1>2, <2>1, <2>2 DEF Open, TypeInv
  <2>3. CASE AnswerFeatures(p)
    BY <1>2, <2>1, <2>3 DEF AnswerFeatures, TypeInv
  <2>4. CASE Close(p)
    BY <2>1, <2>4 DEF Close, TypeInv
  <2>5. CASE Restart(p)
    BY <2>5 DEF Restart, TypeInv
  <2>6. CASE CntlWrite(p)
    BY <2>6, ViewTold DEF TypeInv
  <2> QED BY <2>2, <2>3, <2>4, <2>5, <2>6
<1>5. view' \in [Perif -> MaskView]
  <2>1. CASE Close(p) \/ Restart(p)
    BY <2>1, BlankType DEF Close, Restart, TypeInv
  <2>2. CASE CntlWrite(p)
    BY <2>2, ViewTold
  <2>3. CASE UNCHANGED view
    BY <2>3 DEF TypeInv
  <2> QED BY <2>1, <2>2, <2>3 DEF Open, AnswerFeatures
<1> QED
  BY <1>1, <1>3, <1>4, <1>5 DEF TypeInv, tables

LEMMA TypesInit == Init => TypeInv
<1> SUFFICES ASSUME Init PROVE TypeInv
  OBVIOUS
<1>1. BYTE * BYTE - 1 \in Nat
  <2>1. BYTE \in Nat /\ BYTE > 0
    BY MasksAssumption
  <2>2. BYTE * BYTE \in Nat /\ BYTE * BYTE > 0
    BY <2>1
  <2> QED BY <2>2
<1>2. log \in [Equip -> LogEntry]
  <2>1. \A e \in Equip : log_items[e] \in 0..MAX_ITEMS_ALLOWED
    BY MasksAssumption
  <2> QED BY <2>1 DEF Init, LogEntry
<1>3. mask \in [AllSsids -> Nat]
  BY <1>1 DEF Init
<1>4. /\ peripherals \in Seq(Perif) /\ cntlq \in [Perif -> Seq(MaskPacket)]
      /\ view \in [Perif -> MaskView]
  BY BlankType DEF Init
<1>5. status \in [Kind -> Status]
  BY DEF Init, Status
<1>6. /\ event_max_num_bits = APPS_EVENT_LAST_ID
      /\ event \in [1..BITS_TO_BYTES(APPS_EVENT_LAST_ID) -> 0..1]
  BY DEF Init
<1>7. crashed \in BOOLEAN /\ commands \in Nat /\ reached \in BOOLEAN /\ astray \subseteq Equip
  BY DEF Init
<1> QED
  BY <1>2, <1>3, <1>4, <1>5, <1>6, <1>7 DEF TypeInv

LEMMA TypesStep == TypeInv /\ [Next]_vars => TypeInv'
<1> SUFFICES ASSUME TypeInv, [Next]_vars PROVE TypeInv'
  OBVIOUS
<1>1. ASSUME NEW first \in MsgSsid, NEW last \in MsgSsid, NEW v \in 0..1,
             first <= last + 1, SetMsgMask(first, last, Alternate(v, last + 1 - first))
      PROVE  TypeInv'
  <2>1. first \in Nat /\ last \in Nat
    BY MasksAssumption
  <2>2. last + 1 - first \in Nat
    BY <1>1, <2>1
  <2>3. PICK masks \in Seq(0..1) : masks = Alternate(v, last + 1 - first)
    BY <2>2, SeqAlternate
  <2> QED BY <1>1, <2>1, <2>3, SetMsgMaskTypes
<1>2. ASSUME NEW word \in 0..(BYTE * BYTE - 1), SetAllMsgMask(word) PROVE TypeInv'
  BY <1>2, SetAllMsgMaskTypes
<1>3. CASE DisableLog
  BY <1>3, DisableLogTypes
<1>4. ASSUME NEW e \in LogEquip, NEW n \in LogItems, NEW on \in BOOLEAN, SetLogMask(e, n, on)
      PROVE  TypeInv'
  <2>1. e \in Nat /\ n \in Nat
    BY MasksAssumption
  <2> QED BY <1>4, <2>1, SetLogMaskTypes
<1>5. ASSUME NEW e \in LogEquip, GetLogMask(e) PROVE TypeInv'
  <2>1. e \in Nat
    BY MasksAssumption
  <2> QED BY <1>5, <2>1, GetLogMaskTypes
<1>6. ASSUME NEW n \in EventBits, NEW v \in 0..1,
             SetEventMask(n, Alternate(v, BITS_TO_BYTES(n)))
      PROVE  TypeInv'
  <2>1. BITS_TO_BYTES(n) \in Nat
    BY Bits
  <2>2. Alternate(v, BITS_TO_BYTES(n)) \in [1..BITS_TO_BYTES(n) -> 0..1]
    BY <2>1, SeqAlternate
  <2> QED BY <1>6, <2>2, SetEventMaskTypes
<1>7. ASSUME NEW enabled \in BOOLEAN, ToggleEvents(enabled) PROVE TypeInv'
  BY <1>7, ToggleEventsTypes
<1>8. CASE \E p \in Perif : Open(p) \/ AnswerFeatures(p) \/ Close(p) \/ Restart(p) \/ CntlWrite(p)
  BY <1>8, PerifTypes
<1>9. CASE UNCHANGED vars
  BY <1>9 DEF vars, tables, TypeInv
<1>10. ASSUME NEW first, GetMsgMask(first) PROVE TypeInv'
  <2>1. crashed' \in BOOLEAN
    BY <1>10 DEF GetMsgMask, Survives
  <2>2. UNCHANGED <<tables, cntlq, reached, astray, peripherals, view>> /\ commands' \in Nat
    BY <1>10 DEF GetMsgMask, Command, TypeInv
  <2> QED BY <2>1, <2>2 DEF TypeInv, tables
<1> QED
  BY <1>1, <1>2, <1>3, <1>4, <1>5, <1>6, <1>7, <1>8, <1>9, <1>10 DEF Next

\* The tables, the queues and the views are well typed in every behaviour.
THEOREM MasksTypes == Spec => []TypeOK
<1>1. BoundsInv /\ TypeInv => TypeOK
  <2> SUFFICES ASSUME BoundsInv, TypeInv PROVE TypeOK
    OBVIOUS
  <2>1. msg \in [Table -> MsgEntry]
    BY DEF BoundsInv
  <2>2. ASSUME NEW p \in Perif, NEW k \in 1..Len(cntlq[p])
        PROVE  /\ cntlq[p][k].kind \in Kind /\ cntlq[p][k].status \in Status
               /\ cntlq[p][k].all \in Nat
    <3>1. cntlq[p] \in Seq(MaskPacket)
      BY DEF TypeInv
    <3>2. cntlq[p][k] \in MaskPacket
      BY <3>1, ElementOfSeq
    <3> QED BY <3>2 DEF MaskPacket
  <2>3. event_max_num_bits \in Nat
    BY Bits DEF TypeInv
  <2> QED BY <2>1, <2>2, <2>3 DEF TypeInv, TypeOK, LogEntry, MaskView
<1> QED
  BY <1>1, BoundsInit, BoundsStep, TypesInit, TypesStep, PTL DEF Spec

-----------------------------------------------------------------------------
(* What the status of the masks says of them, and where ranges end.        *)

\* Masks that are all disabled are zero, and message masks that are all enabled are
\* all the same.  Log masks are never all enabled.
StatusInv ==
    /\ status["log"] # "ALL_ENABLED"
    /\ status["log"] = "ALL_DISABLED" => \A e \in Equip : log[e].mask = 0
    /\ status["msg"] = "ALL_DISABLED" => \A s \in AllSsids : mask[s] = 0
    /\ status["msg"] = "ALL_ENABLED" => \A s, r \in AllSsids : mask[s] = mask[r]

\* No range reaches the next, unless the history says so.
Apart(t) == \A i, j \in Table : i < j => t[i].ssid_last_tools < ssid_first_arr[j]

ApartInv == ~reached => Apart(msg)

LEMMA StatusStep ==
    ASSUME TypeInv, StatusInv, [Next]_vars
    PROVE  StatusInv'
<1>1. ASSUME UNCHANGED <<log, mask>>,
             status' = status \/ \E st : status' = [status EXCEPT !["event"] = st]
      PROVE  StatusInv'
  BY <1>1 DEF TypeInv, StatusInv, Kind
<1>2. ASSUME NEW first, NEW last, NEW masks, SetMsgMask(first, last, masks)
      PROVE  StatusInv'
  <2>1. UNCHANGED log
    BY <1>2 DEF SetMsgMask
  <2>2. UNCHANGED <<mask, status>> \/ status' = [status EXCEPT !["msg"] = "VALID"]
    BY <1>2 DEF SetMsgMask
  <2> QED BY <2>1, <2>2 DEF TypeInv, StatusInv, Kind
<1>3. ASSUME NEW word \in 0..(BYTE * BYTE - 1), SetAllMsgMask(word) PROVE StatusInv'
  <2>1. /\ UNCHANGED log /\ mask' = [s \in AllSsids |-> Filled(word)]
        /\ status' = [status EXCEPT !["msg"] = IF word = 0 THEN "ALL_DISABLED"
                                                           ELSE "ALL_ENABLED"]
    BY <1>3 DEF SetAllMsgMask
  <2>2. Filled(0) = 0
    BY MasksAssumption DEF Filled
  <2> QED BY <2>1, <2>2 DEF TypeInv, StatusInv, Kind
<1>4. CASE DisableLog
  <2>1. /\ UNCHANGED mask
        /\ \A e \in Equip : log'[e].mask = 0
        /\ status' = [status EXCEPT !["log"] = "ALL_DISABLED"]
    BY <1>4 DEF DisableLog, TypeInv, LogEntry
  <2> QED BY <2>1 DEF TypeInv, StatusInv, Kind
<1>5. ASSUME NEW e, NEW n, NEW on, SetLogMask(e, n, on) PROVE StatusInv'
  <2>1. /\ UNCHANGED mask
        /\ UNCHANGED <<log, status>> \/ status' = [status EXCEPT !["log"] = "VALID"]
    BY <1>5 DEF SetLogMask
  <2> QED BY <2>1 DEF TypeInv, StatusInv, Kind
<1>6. ASSUME NEW e, GetLogMask(e) PROVE StatusInv'
  BY <1>1, <1>6 DEF GetLogMask, tables
<1>7. ASSUME NEW n, NEW bytes, SetEventMask(n, bytes) PROVE StatusInv'
  BY <1>1, <1>7 DEF SetEventMask
<1>8. ASSUME NEW enabled, ToggleEvents(enabled) PROVE StatusInv'
  BY <1>1, <1>8 DEF ToggleEvents
<1>9. CASE \E p \in Perif : Open(p) \/ AnswerFeatures(p) \/ Close(p) \/ Restart(p) \/ CntlWrite(p)
  BY <1>1, <1>9 DEF Open, AnswerFeatures, Close, Restart, CntlWrite, tables
<1>10. CASE UNCHANGED vars
  BY <1>1, <1>10 DEF vars, tables
<1>11. ASSUME NEW first, GetMsgMask(first) PROVE StatusInv'
  BY <1>1, <1>11 DEF GetMsgMask, tables
<1> QED
  BY <1>2, <1>3, <1>4, <1>5, <1>6, <1>7, <1>8, <1>9, <1>10, <1>11 DEF Next

\* The ranges of the table are in order and do not overlap.
LEMMA Sorted == \A i, j \in Table : i < j => ssid_last_arr[i] < ssid_first_arr[j]
<1> SUFFICES ASSUME NEW i \in Table,
                    NEW T, T = {j \in Table : i < j /\ ~(ssid_last_arr[i] < ssid_first_arr[j])},
                    T # {}
             PROVE  FALSE
  OBVIOUS
<1>1. T \in SUBSET Nat
  BY DEF Table
<1>2. PICK j \in T : \A k \in T : j <= k
  BY <1>1, LeastExists
<1>3. j \in Table /\ i < j /\ ~(ssid_last_arr[i] < ssid_first_arr[j])
  BY <1>2
<1>4. i \in Nat /\ j \in Nat /\ Len(ssid_first_arr) \in Nat
  BY <1>3, TableType DEF Table
<1>5. j - 1 \in Table /\ j - 1 + 1 = j
  BY <1>3, <1>4 DEF Table
<1>6. ssid_last_arr[j - 1] < ssid_first_arr[j]
  BY <1>3, <1>5, TableType
<1>7. CASE i = j - 1
  BY <1>3, <1>6, <1>7
<1>8. CASE i # j - 1
  <2>1. i < j - 1
    BY <1>3, <1>4, <1>8
  <2>2. j - 1 \notin T
    BY <1>2, <1>4
  <2>3. ssid_last_arr[i] < ssid_first_arr[j - 1]
    BY <1>5, <2>1, <2>2
  <2> QED BY <1>3, <1>5, <1>6, <2>3, TableType
<1> QED BY <1>7, <1>8

LEMMA ApartStep ==
    ASSUME BoundsInv, BoundsInv', TypeInv, ApartInv, [Next]_vars
    PROVE  ApartInv'
<1>1. ASSUME UNCHANGED <<msg, reached>> PROVE ApartInv'
  BY <1>1 DEF ApartInv, Apart
<1>2. ASSUME NEW first, NEW last, NEW masks, SetMsgMask(first, last, masks)
      PROVE  ApartInv'
  <2>1. CASE Sets(first) = {}
    BY <1>1, <1>2, <2>1 DEF SetMsgMask
  <2>2. CASE Sets(first) # {}
    <3>1. PICK i \in Table : /\ msg' = [msg EXCEPT ![i] = Extended(i, first, last)]
                             /\ reached' = (reached \/ Touches(i, Extended(i, first, last)))
      BY <1>2, <2>2 DEF SetMsgMask, Sets
    <3>2. msg'[i] = Extended(i, first, last) /\ msg'[i] \in MsgEntry
      BY <3>1 DEF BoundsInv
    <3> SUFFICES ASSUME ~reached', NEW a \in Table, NEW b \in Table, a < b
                 PROVE  msg'[a].ssid_last_tools < ssid_first_arr[b]
      BY DEF ApartInv, Apart
    <3>3. ~reached /\ ~Touches(i, Extended(i, first, last))
      BY <3>1
    <3>4. CASE a = i
      <4>1. ~(msg'[i].ssid_last_tools >= ssid_first_arr[b])
        BY <3>2, <3>3, <3>4 DEF Touches
      <4> QED BY <3>2, <3>4, <4>1, TableType DEF MsgEntry
    <3>5. CASE a # i
      <4>1. msg'[a] = msg[a]
        BY <3>1, <3>5 DEF BoundsInv
      <4> QED BY <3>3, <4>1 DEF ApartInv, Apart
    <3> QED BY <3>4, <3>5
  <2> QED BY <2>1, <2>2
<1>3. ASSUME NEW word, SetAllMsgMask(word) PROVE ApartInv'
  BY <1>1, <1>3 DEF SetAllMsgMask
<1>4. CASE DisableLog
  BY <1>1, <1>4 DEF DisableLog
<1>5. ASSUME NEW e, NEW n, NEW on, SetLogMask(e, n, on) PROVE ApartInv'
  BY <1>1, <1>5 DEF SetLogMask
<1>6. ASSUME NEW e, GetLogMask(e) PROVE ApartInv'
  BY <1>1, <1>6 DEF GetLogMask, tables
<1>7. ASSUME NEW n, NEW bytes, SetEventMask(n, bytes) PROVE ApartInv'
  BY <1>1, <1>7 DEF SetEventMask
<1>8. ASSUME NEW enabled, ToggleEvents(enabled) PROVE ApartInv'
  BY <1>1, <1>8 DEF ToggleEvents
<1>9. CASE \E p \in Perif : Open(p) \/ AnswerFeatures(p) \/ Close(p) \/ Restart(p) \/ CntlWrite(p)
  BY <1>1, <1>9 DEF Open, AnswerFeatures, Close, Restart, CntlWrite, tables
<1>10. CASE UNCHANGED vars
  BY <1>1, <1>10 DEF vars, tables
<1>11. ASSUME NEW first, GetMsgMask(first) PROVE ApartInv'
  BY <1>1, <1>11 DEF GetMsgMask, tables
<1> QED
  BY <1>2, <1>3, <1>4, <1>5, <1>6, <1>7, <1>8, <1>9, <1>10, <1>11 DEF Next

-----------------------------------------------------------------------------
(* What subsystems were told.                                              *)

\* A peripheral that is not listed has no packets, and knows nothing.
UnlistedInv == \A p \in Perif : ~Listed(p) => cntlq[p] = <<>> /\ view[p] = Blank

\* The masks a packet can speak of.
Subjects == [msg |-> AllSsids, log |-> Equip, event |-> EventBytes]

LEMMA SubjectsOf ==
    ASSUME NEW kind \in Kind, NEW w \in MaskView
    PROVE  /\ Blank[kind] = [s \in Subjects[kind] |-> Unset]
           /\ w[kind] \in [Subjects[kind] -> Nat \cup {Unset}]
<1>1. CASE kind = "msg"
  BY <1>1 DEF Blank, Subjects, MaskView
<1>2. CASE kind = "log"
  BY <1>2 DEF Blank, Subjects, MaskView
<1>3. CASE kind = "event"
  BY <1>3 DEF Blank, Subjects, MaskView
<1> QED
  BY <1>1, <1>2, <1>3 DEF Kind

\* A packet that was broadcast tells the masks there are now, or is about others.
LEMMA CurrentBroadcast ==
    ASSUME TypeInv, UnlistedInv, NEW p \in Perif, NEW pkt \in MaskPacket, UNCHANGED view,
           cntlq'[p] = IF Listed(p) THEN Append(cntlq[p], pkt) ELSE cntlq[p],
           NEW kind \in Kind, NEW s \in Subjects[kind], NEW cur,
           Covers(pkt, kind, s) => Says(pkt, s) = cur,
           ~Covers(pkt, kind, s) => Current(cntlq[p], kind, s, view[p][kind][s], cur)
    PROVE  Current(cntlq'[p], kind, s, view'[p][kind][s], cur)
<1>1. CASE Listed(p)
  <2>1. cntlq[p] \in Seq(MaskPacket)
    BY DEF TypeInv
  <2>2. PICK q \in Seq(MaskPacket) : q = cntlq[p]
    BY <2>1
  <2>3. PICK v : v = view[p][kind][s]
    OBVIOUS
  <2>4. Current(Append(q, pkt), kind, s, v, cur)
    BY <2>2, <2>3, CurrentAppend
  <2> QED BY <1>1, <2>2, <2>3, <2>4
<1>2. CASE ~Listed(p)
  <2>1. cntlq'[p] = <<>> /\ view'[p] = Blank
    BY <1>2 DEF UnlistedInv
  <2>2. Blank[kind][s] = Unset
    BY SubjectsOf, BlankType
  <2>3. Current(<<>>, kind, s, Unset, cur)
    BY CurrentEmpty
  <2> QED BY <2>1, <2>2, <2>3
<1> QED
  BY <1>1, <1>2

\* A packet of another kind changes nothing.
LEMMA CurrentOther ==
    ASSUME TypeInv, UnlistedInv, NEW p \in Perif, NEW pkt \in MaskPacket, UNCHANGED view,
           cntlq'[p] = IF Listed(p) THEN Append(cntlq[p], pkt) ELSE cntlq[p],
           NEW kind \in Kind \ {pkt.kind}, NEW s \in Subjects[kind], NEW cur,
           Current(cntlq[p], kind, s, view[p][kind][s], cur)
    PROVE  Current(cntlq'[p], kind, s, view'[p][kind][s], cur)
<1>1. ~Covers(pkt, kind, s)
  BY DEF Covers
<1> QED
  BY <1>1, CurrentBroadcast

\* Peripherals come and go, and packets are delivered: the masks a peripheral is
\* sent when it is opened or answers are the current ones, if lookups find them.
LEMMA CurrentPerif ==
    ASSUME TypeInv, UnlistedInv, NEW o \in Perif,
           Open(o) \/ AnswerFeatures(o) \/ Close(o) \/ Restart(o) \/ CntlWrite(o),
           NEW p \in Perif, NEW kind \in Kind, NEW s \in Subjects[kind], NEW cur,
           Current(cntlq[p], kind, s, view[p][kind][s], cur),
           kind = "msg" => \A i \in Table : \A pkt :
              pkt = MsgPacket(msg, mask, status["msg"], ssid_first_arr[i])
                /\ Covers(pkt, kind, s) => Says(pkt, s) = cur
    PROVE  Current(cntlq'[p], kind, s, view'[p][kind][s], cur)
<1>1. CASE p # o
  <2>1. cntlq'[p] = cntlq[p]
    BY <1>1 DEF Open, AnswerFeatures, Close, Restart, CntlWrite, TypeInv
  <2>2. view'[p] = view[p]
    BY <1>1, ViewTold DEF Open, AnswerFeatures, Close, Restart, CntlWrite, TypeInv
  <2> QED BY <2>1, <2>2
<1>2. CASE p = o
  <2>1. PICK q \in Seq(MaskPacket) : q = cntlq[p]
    BY DEF TypeInv
  <2>2. PICK v : v = view[p][kind][s]
    OBVIOUS
  <2>3. Current(q, kind, s, v, cur)
    BY <2>1, <2>2
  <2>4. Blank[kind][s] = Unset
    BY SubjectsOf, BlankType
  <2>5. CASE Open(o) \/ AnswerFeatures(o)
    <3>1. cntlq'[p] = SendMasks(q) /\ view' = view
      <4>1. CASE Open(o)
        BY <1>2, <2>1, <4>1 DEF Open, UnlistedInv, Listed, TypeInv
      <4>2. CASE AnswerFeatures(o)
        BY <1>2, <2>1, <4>2 DEF AnswerFeatures, TypeInv
      <4> QED BY <2>5, <4>1, <4>2
    <3>2. PICK r : r = [i \in Table |-> MsgPacket(msg, mask, status["msg"], ssid_first_arr[i])]
      OBVIOUS
    <3>3. r \in Seq(MaskPacket) /\ Len(r) = Len(ssid_first_arr) /\ SendMasks(q) = q \o r
      BY <3>2, SentMasks DEF TypeInv
    <3>4. ASSUME NEW i \in 1..Len(r), Covers(r[i], kind, s) PROVE Says(r[i], s) = cur
      <4>1. /\ i \in Table
            /\ r[i] = MsgPacket(msg, mask, status["msg"], ssid_first_arr[i])
        BY <3>2, <3>3 DEF Table
      <4>2. r[i].kind = "msg"
        BY <4>1 DEF MsgPacket, Packet
      <4>3. kind = "msg"
        BY <3>4, <4>2 DEF Covers
      <4>4. PICK pkt : pkt = r[i]
        OBVIOUS
      <4> QED BY <3>4, <4>1, <4>3, <4>4
    <3>5. Current(q \o r, kind, s, v, cur)
      BY <2>3, <3>3, <3>4, CurrentConcat
    <3> QED BY <2>2, <3>1, <3>3, <3>5
  <2>6. CASE Close(o)
    <3>1. cntlq'[p] = <<>> /\ view'[p] = Blank
      BY <1>2, <2>6 DEF Close, TypeInv
    <3>2. Current(<<>>, kind, s, Unset, cur)
      BY CurrentEmpty
    <3> QED BY <2>4, <3>1, <3>2
  <2>7. CASE Restart(o)
    <3>1. cntlq'[p] = q /\ view'[p] = Blank
      BY <1>2, <2>1, <2>7 DEF Restart, TypeInv
    <3>2. Current(q, kind, s, Unset, cur)
      BY <2>3, CurrentBlank
    <3> QED BY <2>4, <3>1, <3>2
  <2>8. CASE CntlWrite(o)
    <3>1. PICK pkt : pkt = Head(q)
      OBVIOUS
    <3>2. /\ pkt \in MaskPacket
          /\ cntlq'[p] = Tail(q)
          /\ view'[p].msg = IF pkt.kind = "msg" THEN Told(view[p].msg, pkt) ELSE view[p].msg
          /\ view'[p].log = IF pkt.kind = "log" THEN Told(view[p].log, pkt) ELSE view[p].log
          /\ view'[p].event = IF pkt.kind = "event" THEN Told(view[p].event, pkt)
                                                     ELSE view[p].event
      BY <1>2, <2>1, <2>8, <3>1, ViewTold DEF TypeInv
    <3>3. view'[p][kind] = IF pkt.kind = kind THEN Told(view[p][kind], pkt) ELSE view[p][kind]
      <4>1. CASE kind = "msg"
        BY <3>2, <4>1
      <4>2. CASE kind = "log"
        BY <3>2, <4>2
      <4>3. CASE kind = "event"
        BY <3>2, <4>3
      <4> QED BY <4>1, <4>2, <4>3 DEF Kind
    <3>4. PICK old \in [Subjects[kind] -> Nat \cup {Unset}] : old = view[p][kind]
      BY SubjectsOf DEF TypeInv
    <3>5. Told(old, pkt)[s] = IF Covers(pkt, pkt.kind, s) THEN Says(pkt, s) ELSE old[s]
      BY <3>2, ToldIs
    <3>6. view'[p][kind][s] = IF Covers(pkt, kind, s) THEN Says(pkt, s) ELSE v
      BY <2>2, <3>3, <3>4, <3>5 DEF Covers
    <3>7. q # <<>>
      BY <1>2, <2>1, <2>8 DEF CntlWrite
    <3>8. Current(Tail(q), kind, s, IF Covers(Head(q), kind, s) THEN Says(Head(q), s) ELSE v, cur)
      BY <2>3, <3>7, CurrentTail
    <3> QED BY <3>1, <3>2, <3>6, <3>8
  <2> QED BY <2>5, <2>6, <2>7, <2>8
<1> QED
  BY <1>1, <1>2

LEMMA UnlistedStep ==
    ASSUME TypeInv, TypeInv', UnlistedInv, [Next]_vars
    PROVE  UnlistedInv'
<1>1. ASSUME UNCHANGED <<peripherals, view>>,
             \A p \in Perif : ~Listed(p) => cntlq'[p] = cntlq[p]
      PROVE  UnlistedInv'
  BY <1>1 DEF UnlistedInv, Listed
<1>2. ASSUME UNCHANGED <<peripherals, view>>, NEW pkt, Broadcast(pkt)
      PROVE  UnlistedInv'
  <2>1. \A p \in Perif : ~Listed(p) => cntlq'[p] = cntlq[p]
    BY <1>2 DEF Broadcast, Listed
  <2> QED BY <1>1, <1>2, <2>1
<1>3. ASSUME NEW first, NEW last, NEW masks, SetMsgMask(first, last, masks)
      PROVE  UnlistedInv'
  <2>1. UNCHANGED <<peripherals, view>>
    BY <1>3 DEF SetMsgMask, Command
  <2>2. UNCHANGED cntlq \/ BroadcastMsg(msg', mask', first)
    BY <1>3 DEF SetMsgMask
  <2>3. CASE BroadcastMsg(msg', mask', first)
    <3>1. PICK t : t = msg'
      OBVIOUS
    <3>2. PICK m \in [AllSsids -> Nat] : m = mask'
      BY DEF TypeInv
    <3>3. BroadcastMsg(t, m, first)
      BY <2>3, <3>1, <3>2
    <3>4. \A p \in Perif : ~Listed(p) => cntlq'[p] = cntlq[p]
      BY <3>3, BroadcastedMsg DEF TypeInv
    <3> QED BY <1>1, <2>1, <3>4
  <2> QED BY <1>1, <2>1, <2>2, <2>3
<1>4. ASSUME NEW word, SetAllMsgMask(word) PROVE UnlistedInv'
  <2>1. UNCHANGED <<peripherals, view>>
    BY <1>4 DEF SetAllMsgMask, Command
  <2>2. UNCHANGED cntlq \/ \E pkt : Broadcast(pkt)
    BY <1>4 DEF SetAllMsgMask
  <2> QED BY <1>1, <1>2, <2>1, <2>2
<1>5. CASE DisableLog
  BY <1>2, <1>5 DEF DisableLog, Command
<1>6. ASSUME NEW e, NEW n, NEW on, SetLogMask(e, n, on) PROVE UnlistedInv'
  <2>1. UNCHANGED <<peripherals, view>>
    BY <1>6 DEF SetLogMask, Command
  <2>2. \E pkt : Broadcast(pkt)
    BY <1>6 DEF SetLogMask
  <2> QED BY <1>2, <2>1, <2>2
<1>7. ASSUME NEW e, GetLogMask(e) PROVE UnlistedInv'
  BY <1>2, <1>7 DEF GetLogMask, Command
<1>8. ASSUME NEW n, NEW bytes, SetEventMask(n, bytes) PROVE UnlistedInv'
  BY <1>2, <1>8 DEF SetEventMask, Command
<1>9. ASSUME NEW enabled, ToggleEvents(enabled) PROVE UnlistedInv'
  BY <1>2, <1>9 DEF ToggleEvents, Command
<1>10. ASSUME NEW p \in Perif, Open(p) PROVE UnlistedInv'
  <2>1. /\ peripherals' = Append(peripherals, p) /\ view' = view
        /\ \A o \in Perif \ {p} : cntlq'[o] = cntlq[o]
    BY <1>10 DEF Open, TypeInv
  <2>2. /\ Len(peripherals) \in Nat /\ Len(peripherals') = Len(peripherals) + 1
        /\ \A k \in 1..Len(peripherals) : peripherals'[k] = peripherals[k]
        /\ peripherals'[Len(peripherals) + 1] = p
    BY <2>1, AppendProperties, LenProperties DEF TypeInv
  <2>3. Listed(p)'
    BY <2>2 DEF Listed
  <2>4. \A o \in Perif : Listed(o) => Listed(o)'
    BY <2>2 DEF Listed
  <2> QED BY <2>1, <2>3, <2>4 DEF UnlistedInv
<1>11. ASSUME NEW p \in Perif, Close(p) PROVE UnlistedInv'
  <2>1. /\ peripherals' = Without(peripherals, p) /\ Listed(p)
        /\ cntlq'[p] = <<>> /\ view'[p] = Blank
        /\ \A o \in Perif \ {p} : cntlq'[o] = cntlq[o] /\ view'[o] = view[o]
    BY <1>11 DEF Close, TypeInv, Listed
  <2>2. \A o \in Perif \ {p} : Listed(o) => Listed(o)'
    BY ZenonT(30), <2>1, Taken DEF Listed, TypeInv
  <2> QED BY <2>1, <2>2 DEF UnlistedInv
<1>12. ASSUME NEW p \in Perif, AnswerFeatures(p) PROVE UnlistedInv'
  <2>1. /\ UNCHANGED <<peripherals, view>> /\ Listed(p)
        /\ \A o \in Perif \ {p} : cntlq'[o] = cntlq[o]
    BY <1>12 DEF AnswerFeatures, TypeInv, Listed
  <2> QED BY <1>1, <2>1
<1>13. ASSUME NEW p \in Perif, Restart(p) PROVE UnlistedInv'
  BY <1>13 DEF Restart, UnlistedInv, Listed, TypeInv
<1>14. ASSUME NEW p \in Perif, CntlWrite(p) PROVE UnlistedInv'
  <2>1. UNCHANGED peripherals /\ cntlq[p] # <<>>
        /\ \A o \in Perif \ {p} : cntlq'[o] = cntlq[o]
    BY <1>14 DEF CntlWrite, TypeInv
  <2>2. \A o \in Perif \ {p} : view'[o] = view[o]
    BY <1>14, ViewTold
  <2> QED BY <2>1, <2>2 DEF UnlistedInv, Listed
<1>15. CASE UNCHANGED vars
  BY <1>1, <1>15 DEF vars
<1>16. ASSUME NEW first, GetMsgMask(first) PROVE UnlistedInv'
  BY <1>1, <1>16 DEF GetMsgMask, Command
<1> QED
  BY <1>3, <1>4, <1>5, <1>6, <1>7, <1>8, <1>9, <1>10, <1>11, <1>12, <1>13, <1>14, <1>15, <1>16 DEF Next

\* While ranges do not reach each other, the lookup for the start of a range finds
\* its entry, and the lookup for an id finds the entry a request for it sets, or none.
LEMMA Lookups ==
    ASSUME NEW t \in [Table -> MsgEntry], Apart(t), \A x \in Table : Kept(x, t[x]), NEW i \in Table
    PROVE  /\ Gets(t, ssid_first_arr[i]) = {i}
           /\ \A s \in Nat : i \in Sets(s) => Gets(t, s) \subseteq {i}
<1>1. ssid_first_arr[i] <= t[i].ssid_last_tools
  BY TableType DEF Kept, MsgEntry
<1>2. ASSUME NEW j \in Table, j # i PROVE j \notin Gets(t, ssid_first_arr[i])
  <2>1. CASE j < i
    BY <2>1, TableType DEF Gets, Apart, MsgEntry
  <2>2. CASE i < j
    BY <2>2, TableType, Sorted DEF Gets
  <2> QED BY <1>2, <2>1, <2>2, TableType DEF Table
<1>3. i \in Gets(t, ssid_first_arr[i])
  BY <1>1, TableType DEF Gets
<1>4. Gets(t, ssid_first_arr[i]) = {i}
  BY <1>2, <1>3 DEF Gets
<1>5. ASSUME NEW s \in Nat, i \in Sets(s), NEW j \in Table, j # i PROVE j \notin Gets(t, s)
  <2>1. ssid_first_arr[i] <= s /\ (i + 1 \in Table => s < ssid_first_arr[i + 1])
    BY <1>5 DEF Sets
  <2>2. CASE j < i
    BY <2>1, <2>2, TableType DEF Gets, Apart, MsgEntry
  <2>3. CASE i < j
    <3>1. i + 1 \in Table
      BY <2>3, TableType DEF Table
    <3>2. ssid_first_arr[i + 1] <= ssid_first_arr[j]
      <4>1. CASE i + 1 = j
        BY <4>1, TableType
      <4>2. CASE i + 1 # j
        <5>1. i + 1 < j
          BY <2>3, <4>2, TableType DEF Table
        <5>2. ssid_last_arr[i + 1] < ssid_first_arr[j]
          BY <3>1, <5>1, Sorted
        <5> QED BY <3>1, <5>2, TableType
      <4> QED BY <4>1, <4>2
    <3> QED BY <2>1, <3>1, <3>2, TableType DEF Gets
  <2> QED BY <1>5, <2>2, <2>3, TableType DEF Table
<1>6. \A s \in Nat : i \in Sets(s) => Gets(t, s) \subseteq {i}
  BY <1>5 DEF Gets
<1> QED
  BY <1>4, <1>6

\* The packet for an id whose lookup finds entry i.
LEMMA MsgPacketOf ==
    ASSUME NEW t, NEW m, NEW st, NEW s, NEW i \in Table, Gets(t, s) = {i}
    PROVE  /\ Moved(t, s) = ssid_first_arr[i]
           /\ MsgPacket(t, m, st, s) =
                Packet("msg", st, [x \in Ssids(i) |-> m[x]], m[ssid_first_arr[i]])
<1>1. Least(Gets(t, s)) = i
  <2>1. Gets(t, s) \in SUBSET Nat /\ Gets(t, s) # {}
    BY DEF Table
  <2> QED BY <2>1, LeastMember
<1> QED
  BY <1>1 DEF Moved, MsgPacket

\* The packets diag_cntl_send_masks queues say what the router has.
LEMMA SentCurrent ==
    ASSUME BoundsInv, TypeInv, StatusInv, ApartInv, ~reached, NEW i \in Table,
           NEW s \in AllSsids, NEW pkt,
           pkt = MsgPacket(msg, mask, status["msg"], ssid_first_arr[i]),
           Covers(pkt, "msg", s)
    PROVE  Says(pkt, s) = mask[s]
<1>1. Gets(msg, ssid_first_arr[i]) = {i}
  BY Lookups DEF BoundsInv, ApartInv
<1>2. pkt = Packet("msg", status["msg"], [x \in Ssids(i) |-> mask[x]], mask[ssid_first_arr[i]])
  BY <1>1, MsgPacketOf
<1>3. PICK st \in Status : st = status["msg"]
  BY DEF TypeInv, Kind
<1>4. pkt.status = st
  BY <1>2, <1>3 DEF Packet
<1>5. CASE st = "ALL_DISABLED"
  BY <1>3, <1>4, <1>5 DEF Says, StatusInv
<1>6. CASE st = "ALL_ENABLED"
  <2>1. pkt.all = mask[ssid_first_arr[i]]
    BY <1>2, <1>3, <1>6 DEF Packet
  <2>2. ssid_first_arr[i] \in AllSsids
    BY SsidsIn
  <2> QED BY <1>3, <1>4, <1>6, <2>1, <2>2 DEF Says, StatusInv
<1>7. CASE st = "VALID"
  <2>1. pkt.masks = [x \in Ssids(i) |-> mask[x]]
    BY <1>2, <1>3, <1>7 DEF Packet
  <2> QED BY <1>4, <1>7, <2>1 DEF Says, Covers
<1>8. CASE st = "INVALID"
  BY <1>4, <1>8 DEF Covers
<1> QED
  BY <1>5, <1>6, <1>7, <1>8 DEF Status

\* Where a lookup moves the range to the start of the entry it finds, the lookups for
\* the peripherals that follow find the same: every peripheral is sent the same packet.
LEMMA BroadcastedSame ==
    ASSUME TypeInv, NEW t, NEW m \in [AllSsids -> Nat], NEW s, BroadcastMsg(t, m, s),
           Moved(t, Moved(t, s)) = Moved(t, s),
           MsgPacket(t, m, "VALID", Moved(t, s)) = MsgPacket(t, m, "VALID", s)
    PROVE  \A p \in Perif :
              cntlq'[p] = IF Listed(p) THEN Append(cntlq[p], MsgPacket(t, m, "VALID", s))
                                       ELSE cntlq[p]
<1> DEFINE n == Len(peripherals)
           F(f, k) == IF k = 1 THEN s ELSE Moved(t, f[k - 1])
           from == CHOOSE f : f = [k \in 1..n |-> F(f, k)]
           spot(p) == CHOOSE x \in 1..n : peripherals[x] = p
<1>1. n \in Nat
  BY LenProperties DEF TypeInv
<1>2. cntlq' = [p \in Perif |-> IF Listed(p)
                                THEN Append(cntlq[p], MsgPacket(t, m, "VALID", from[spot(p)]))
                                ELSE cntlq[p]]
  BY DEF BroadcastMsg, Shared, Listed
<1> HIDE DEF n
<1>3. from = [k \in 1..n |-> F(from, k)]
  <2> DEFINE w == [k \in 1..n |-> IF k = 1 THEN s ELSE Moved(t, s)]
  <2>1. ASSUME NEW k \in 1..n PROVE w[k] = F(w, k)
    <3>1. CASE k = 1
      BY <3>1
    <3>2. CASE k # 1
      <4>1. k - 1 \in 1..n
        BY <1>1, <3>2
      <4>2. w[k - 1] \in {s, Moved(t, s)}
        BY <4>1
      <4>3. Moved(t, w[k - 1]) = Moved(t, s)
        BY <4>2
      <4> QED BY <3>2, <4>3
    <3> QED BY <3>1, <3>2
  <2>2. w = [k \in 1..n |-> F(w, k)]
    <3>1. w = [k \in 1..n |-> w[k]]
      OBVIOUS
    <3> HIDE DEF w
    <3> QED BY <2>1, <3>1
  <2> HIDE DEF w
  <2> QED BY <2>2
<1> HIDE DEF from
<1>4. \A k \in 1..n : from[k] \in {s, Moved(t, s)}
  <2> DEFINE T == {k \in 1..n : from[k] \notin {s, Moved(t, s)}}
  <2> SUFFICES ASSUME T # {} PROVE FALSE
    OBVIOUS
  <2>1. T \in SUBSET Nat
    BY <1>1
  <2>2. PICK k \in T : \A x \in T : k <= x
    BY <2>1, LeastExists
  <2>3. k \in 1..n /\ from[k] \notin {s, Moved(t, s)}
    OBVIOUS
  <2>4. from[k] = IF k = 1 THEN s ELSE Moved(t, from[k - 1])
    BY <1>3, <2>3
  <2>5. k # 1
    BY <2>3, <2>4
  <2>6. k - 1 \in 1..n /\ k - 1 \notin T
    BY <1>1, <2>2, <2>3, <2>5
  <2>7. from[k - 1] \in {s, Moved(t, s)}
    BY <2>6
  <2> QED BY <2>3, <2>4, <2>5, <2>7
<1>5. ASSUME NEW p \in Perif, Listed(p)
      PROVE  MsgPacket(t, m, "VALID", from[spot(p)]) = MsgPacket(t, m, "VALID", s)
  <2>1. spot(p) \in 1..n
    BY <1>5 DEF Listed, n
  <2> HIDE DEF spot
  <2>2. from[spot(p)] \in {s, Moved(t, s)}
    BY <1>4, <2>1
  <2> QED BY <2>2
<1> HIDE DEF spot
<1> QED
  BY <1>2, <1>5

\* A subsystem is told the current masks, or nothing of them, once its queue is empty.
EventsTold(p) ==
    \A b \in DOMAIN event : Current(cntlq[p], "event", b, view[p].event[b], event[b])
LogsTold(p) ==
    \A e \in Equip \ astray : Current(cntlq[p], "log", e, view[p].log[e], log[e].mask)
MsgsTold(p) ==
    ~reached => \A s \in AllSsids : Current(cntlq[p], "msg", s, view[p].msg[s], mask[s])

ToldInv == ~crashed => \A p \in Perif : EventsTold(p) /\ LogsTold(p) /\ MsgsTold(p)

LEMMA Kinds ==
    /\ "msg" \in Kind /\ "log" \in Kind /\ "event" \in Kind
    /\ Subjects["msg"] = AllSsids /\ Subjects["log"] = Equip /\ Subjects["event"] = EventBytes
BY DEF Kind, Subjects

LEMMA EventDomain ==
    ASSUME TypeInv
    PROVE  DOMAIN event \subseteq EventBytes
BY EventBytesAll DEF TypeInv

\* The masks a packet does not concern stay as they were told.
LEMMA EventsKept ==
    ASSUME TypeInv, UnlistedInv, NEW p \in Perif, NEW pkt \in MaskPacket, pkt.kind # "event",
           cntlq'[p] = IF Listed(p) THEN Append(cntlq[p], pkt) ELSE cntlq[p],
           UNCHANGED <<event, view>>, EventsTold(p)
    PROVE  EventsTold(p)'
<1>1. ASSUME NEW b \in DOMAIN event
      PROVE  Current(cntlq'[p], "event", b, view'[p].event[b], event[b])
  <2>1. PICK cur : cur = event[b]
    OBVIOUS
  <2>2. Current(cntlq[p], "event", b, view[p]["event"][b], cur)
    BY <2>1 DEF EventsTold
  <2>3. b \in Subjects["event"]
    BY EventDomain, Kinds
  <2>4. Current(cntlq'[p], "event", b, view'[p]["event"][b], cur)
    BY <2>2, <2>3, CurrentOther, Kinds
  <2> QED BY <2>1, <2>4
<1> QED
  BY <1>1 DEF EventsTold

LEMMA LogsKept ==
    ASSUME TypeInv, UnlistedInv, NEW p \in Perif, NEW pkt \in MaskPacket, pkt.kind # "log",
           cntlq'[p] = IF Listed(p) THEN Append(cntlq[p], pkt) ELSE cntlq[p],
           UNCHANGED <<log, astray, view>>, LogsTold(p)
    PROVE  LogsTold(p)'
<1>1. ASSUME NEW e \in Equip \ astray
      PROVE  Current(cntlq'[p], "log", e, view'[p].log[e], log[e].mask)
  <2>1. PICK cur : cur = log[e].mask
    OBVIOUS
  <2>2. Current(cntlq[p], "log", e, view[p]["log"][e], cur)
    BY <2>1 DEF LogsTold
  <2>3. Current(cntlq'[p], "log", e, view'[p]["log"][e], cur)
    BY <2>2, CurrentOther, Kinds
  <2> QED BY <2>1, <2>3
<1> QED
  BY <1>1 DEF LogsTold

LEMMA MsgsKept ==
    ASSUME TypeInv, UnlistedInv, NEW p \in Perif, NEW pkt \in MaskPacket, pkt.kind # "msg",
           cntlq'[p] = IF Listed(p) THEN Append(cntlq[p], pkt) ELSE cntlq[p],
           UNCHANGED <<mask, reached, view>>, MsgsTold(p)
    PROVE  MsgsTold(p)'
<1>1. ASSUME ~reached, NEW s \in AllSsids
      PROVE  Current(cntlq'[p], "msg", s, view'[p].msg[s], mask[s])
  <2>1. PICK cur : cur = mask[s]
    OBVIOUS
  <2>2. Current(cntlq[p], "msg", s, view[p]["msg"][s], cur)
    BY <1>1, <2>1 DEF MsgsTold
  <2>3. Current(cntlq'[p], "msg", s, view'[p]["msg"][s], cur)
    BY <2>2, CurrentOther, Kinds
  <2> QED BY <2>1, <2>3
<1> QED
  BY <1>1 DEF MsgsTold

\* DIAG_CMD_OP_SET_MSG_MASK tells the masks of the entry it wrote.
LEMMA SetMsgMaskTold ==
    ASSUME BoundsInv', ApartInv', TypeInv, TypeInv', UnlistedInv, ToldInv,
           NEW first \in Nat, NEW last \in Nat, NEW masks, SetMsgMask(first, last, masks)
    PROVE  ToldInv'
<1>1. /\ UNCHANGED <<log, event, astray, view>>
      /\ \A p \in Perif : EventsTold(p) /\ LogsTold(p) /\ MsgsTold(p)
  BY DEF SetMsgMask, Command, ToldInv
<1>2. ASSUME UNCHANGED <<mask, cntlq>>, reached' = reached \/ reached' = TRUE PROVE ToldInv'
  BY <1>1, <1>2 DEF ToldInv, EventsTold, LogsTold, MsgsTold
<1>3. CASE Sets(first) = {}
  BY <1>2, <1>3 DEF SetMsgMask
<1>4. CASE Sets(first) # {}
  <2>1. PICK i \in Sets(first) :
          /\ reached' = (reached \/ Touches(i, Extended(i, first, last)))
          /\ \/ UNCHANGED <<mask, cntlq>>
             \/ mask' = Written(i, first, masks) /\ BroadcastMsg(msg', mask', first)
    BY <1>4 DEF SetMsgMask
  <2>2. CASE UNCHANGED <<mask, cntlq>>
    <3>1. reached' = reached \/ reached' = TRUE
      BY <2>1 DEF TypeInv
    <3> QED BY <1>2, <2>2, <3>1
  <2>3. CASE mask' = Written(i, first, masks) /\ BroadcastMsg(msg', mask', first)
    <3>1. PICK t \in [Table -> MsgEntry] : t = msg' /\ \A x \in Table : Kept(x, t[x])
      BY DEF BoundsInv
    <3>2. PICK m \in [AllSsids -> Nat] : m = mask'
      BY DEF TypeInv
    <3>3. BroadcastMsg(t, m, first) /\ m = Written(i, first, masks)
      BY <2>3, <3>1, <3>2
    <3>4. ASSUME NEW p \in Perif PROVE EventsTold(p)' /\ LogsTold(p)'
      <4>1. PICK pkt \in MaskPacket :
              /\ pkt.kind = "msg"
              /\ cntlq'[p] = IF Listed(p) THEN Append(cntlq[p], pkt) ELSE cntlq[p]
        BY <3>3, BroadcastedMsg DEF TypeInv
      <4>2. EventsTold(p)'
        BY <1>1, <4>1, EventsKept
      <4>3. LogsTold(p)'
        BY <1>1, <4>1, LogsKept
      <4> QED BY <4>2, <4>3
    <3>5. ASSUME NEW p \in Perif, ~reached', NEW s \in AllSsids
          PROVE  Current(cntlq'[p], "msg", s, view'[p].msg[s], m[s])
      <4>1. ~reached /\ Apart(t)
        BY <2>1, <3>1, <3>5 DEF ApartInv
      <4>2. i \in Table /\ ssid_first_arr[i] <= first
        BY <2>1 DEF Sets
      <4>3. Gets(t, ssid_first_arr[i]) = {i} /\ Gets(t, first) \subseteq {i}
        BY <2>1, <3>1, <4>1, <4>2, Lookups
      <4> DEFINE pkt == MsgPacket(t, m, "VALID", first)
      <4>4. pkt \in MaskPacket
        BY MsgPacketType DEF Status
      <4>5. /\ Moved(t, Moved(t, first)) = Moved(t, first)
            /\ MsgPacket(t, m, "VALID", Moved(t, first)) = pkt
        <5>1. CASE Gets(t, first) = {}
          BY <5>1 DEF Moved
        <5>2. CASE Gets(t, first) = {i}
          <6>1. PICK start : start = ssid_first_arr[i]
            OBVIOUS
          <6>2. Moved(t, first) = start /\ pkt =
                  Packet("msg", "VALID", [x \in Ssids(i) |-> m[x]], m[ssid_first_arr[i]])
            BY <4>2, <5>2, <6>1, MsgPacketOf
          <6>3. Gets(t, start) = {i}
            BY <4>3, <6>1
          <6>4. Moved(t, start) = start /\ MsgPacket(t, m, "VALID", start) =
                  Packet("msg", "VALID", [x \in Ssids(i) |-> m[x]], m[ssid_first_arr[i]])
            BY <4>2, <6>1, <6>3, MsgPacketOf
          <6> QED BY <6>2, <6>4
        <5> QED BY <4>3, <5>1, <5>2
      <4>6. cntlq'[p] = IF Listed(p) THEN Append(cntlq[p], pkt) ELSE cntlq[p]
        BY <3>3, <4>5, BroadcastedSame
      <4>7. Covers(pkt, "msg", s) => Says(pkt, s) = m[s]
        <5>1. CASE Gets(t, first) = {}
          BY <5>1 DEF Covers, MsgPacket, Packet
        <5>2. CASE Gets(t, first) = {i}
          <6>1. pkt = Packet("msg", "VALID", [x \in Ssids(i) |-> m[x]], m[ssid_first_arr[i]])
            BY <4>2, <5>2, MsgPacketOf
          <6>2. pkt.status = "VALID" /\ pkt.masks = [x \in Ssids(i) |-> m[x]]
            BY <6>1 DEF Packet
          <6> HIDE DEF pkt
          <6> QED BY <6>2 DEF Covers, Says
        <5> QED BY <4>3, <5>1, <5>2
      <4>8. ~Covers(pkt, "msg", s) => m[s] = mask[s]
        <5>1. CASE Gets(t, first) = {}
          <6>1. ~(first <= t[i].ssid_last_tools)
            BY <4>2, <5>1 DEF Gets
          <6>2. \A x \in Ssids(i) : ~(x >= first)
            BY <3>1, <4>2, <6>1, TableType DEF Kept, MsgEntry, Ssids
          <6> QED BY <3>3, <6>2 DEF Written
        <5>2. CASE Gets(t, first) = {i}
          <6>1. pkt = Packet("msg", "VALID", [x \in Ssids(i) |-> m[x]], m[ssid_first_arr[i]])
            BY <4>2, <5>2, MsgPacketOf
          <6>2. /\ pkt.kind = "msg" /\ pkt.status = "VALID"
                /\ pkt.masks = [x \in Ssids(i) |-> m[x]]
            BY <6>1 DEF Packet
          <6> HIDE DEF pkt
          <6>3. s \in Ssids(i) => Covers(pkt, "msg", s)
            BY <6>2 DEF Covers
          <6>4. s \notin Ssids(i) => m[s] = mask[s]
            BY <3>3 DEF Written
          <6> QED BY <6>3, <6>4
        <5> QED BY <4>3, <5>1, <5>2
      <4> HIDE DEF pkt
      <4>9. Current(cntlq[p], "msg", s, view[p]["msg"][s], mask[s])
        BY <1>1, <4>1 DEF MsgsTold
      <4>10. PICK cur : cur = m[s]
        OBVIOUS
      <4>11. /\ Covers(pkt, "msg", s) => Says(pkt, s) = cur
             /\ ~Covers(pkt, "msg", s) => Current(cntlq[p], "msg", s, view[p]["msg"][s], cur)
        BY <4>7, <4>8, <4>9, <4>10
      <4>12. "msg" \in Kind /\ s \in Subjects["msg"]
        BY Kinds
      <4>13. Current(cntlq'[p], "msg", s, view'[p]["msg"][s], cur)
        BY <1>1, <4>4, <4>6, <4>11, <4>12, CurrentBroadcast
      <4> QED BY <4>10, <4>13
    <3> QED BY <3>2, <3>4, <3>5 DEF ToldInv, MsgsTold
  <2> QED BY <2>1, <2>2, <2>3
<1> QED
  BY <1>3, <1>4

\* DIAG_CMD_OP_SET_ALL_MSG_MASK: enabling is told to nobody, or the process is gone.
LEMMA SetAllMsgMaskTold ==
    ASSUME TypeInv, UnlistedInv, ToldInv, NEW word \in Nat, SetAllMsgMask(word)
    PROVE  ToldInv'
<1>1. /\ UNCHANGED <<log, event, astray, view, reached, peripherals>>
      /\ \A p \in Perif : EventsTold(p) /\ LogsTold(p) /\ MsgsTold(p)
      /\ mask' = [s \in AllSsids |-> Filled(word)]
  BY DEF SetAllMsgMask, Command, ToldInv
<1> DEFINE pkt == Packet("msg", "ALL_DISABLED", <<>>, 0)
<1>2. CASE word # 0 /\ peripherals # <<>>
  BY <1>2 DEF SetAllMsgMask, ToldInv
<1>3. CASE ~(word # 0 /\ peripherals # <<>>)
  <2>1. Broadcast(pkt)
    BY <1>3 DEF SetAllMsgMask
  <2>2. pkt \in MaskPacket
    <3>1. <<>> \in [{} -> Nat] /\ {} \in SUBSET Nat
      OBVIOUS
    <3> QED BY <3>1, PacketType DEF Kind, Status
  <2>3. \A p \in Perif : cntlq'[p] = IF Listed(p) THEN Append(cntlq[p], pkt) ELSE cntlq[p]
    BY <2>1, <2>2, Broadcasted DEF TypeInv
  <2>4. pkt.kind = "msg" /\ \A s : Covers(pkt, "msg", s) /\ Says(pkt, s) = 0
    BY DEF Packet, Covers, Says
  <2> HIDE DEF pkt
  <2>5. ASSUME NEW p \in Perif PROVE EventsTold(p)' /\ LogsTold(p)'
    <3>1. EventsTold(p)'
      BY <1>1, <2>2, <2>3, <2>4, EventsKept
    <3>2. LogsTold(p)'
      BY <1>1, <2>2, <2>3, <2>4, LogsKept
    <3> QED BY <3>1, <3>2
  <2>6. ASSUME NEW p \in Perif, NEW s \in AllSsids
        PROVE  Current(cntlq'[p], "msg", s, view'[p].msg[s], Filled(word))
    <3>1. "msg" \in Kind /\ s \in Subjects["msg"]
      BY Kinds
    <3>2. CASE word = 0
      <4>1. Filled(word) = 0
        BY <3>2, MasksAssumption DEF Filled
      <4>2. Current(cntlq'[p], "msg", s, view'[p]["msg"][s], 0)
        BY <1>1, <2>2, <2>3, <2>4, <3>1, CurrentBroadcast
      <4> QED BY <4>1, <4>2
    <3>3. CASE word # 0
      <4>1. peripherals = <<>>
        BY <1>3, <3>3
      <4>2. ~Listed(p)
        BY <4>1 DEF Listed
      <4>3. cntlq'[p] = <<>> /\ view'[p] = Blank
        BY <1>1, <2>3, <4>2 DEF UnlistedInv
      <4>4. Blank["msg"][s] = Unset
        BY <3>1, SubjectsOf, BlankType
      <4>5. Current(<<>>, "msg", s, Unset, Filled(word))
        BY CurrentEmpty
      <4> QED BY <4>3, <4>4, <4>5
    <3> QED BY <3>2, <3>3
  <2> QED BY <1>1, <2>5, <2>6 DEF ToldInv, MsgsTold
<1> QED
  BY <1>2, <1>3

\* What the packet for equipment id a says of each log mask, by the status.
LogSays(pkt, t, st, a) ==
    /\ pkt.kind = "log"
    /\ \A e \in Equip :
          /\ st = "INVALID" => ~Covers(pkt, "log", e)
          /\ st = "ALL_DISABLED" => Covers(pkt, "log", e) /\ Says(pkt, e) = 0
          /\ st = "VALID" => /\ Covers(pkt, "log", e) <=> e = a % EQUIP_MODULUS
                             /\ a \in Equip /\ e = a => Says(pkt, e) = t[a].mask

LEMMA LogPacketSays ==
    ASSUME NEW t, NEW st \in Status, st # "ALL_ENABLED", NEW a \in Nat, NEW pkt,
           pkt = LogPacket(t, st, a)
    PROVE  LogSays(pkt, t, st, a)
<1>1. /\ pkt.kind = "log" /\ pkt.status = st
      /\ st = "VALID" => pkt.masks = [x \in {a % EQUIP_MODULUS} |->
                                         IF a \in Equip THEN t[a].mask ELSE 0]
  BY DEF LogPacket, Packet
<1> SUFFICES ASSUME NEW e \in Equip
             PROVE  /\ st = "INVALID" => ~Covers(pkt, "log", e)
                    /\ st = "ALL_DISABLED" => Covers(pkt, "log", e) /\ Says(pkt, e) = 0
                    /\ st = "VALID" => /\ Covers(pkt, "log", e) <=> e = a % EQUIP_MODULUS
                                       /\ a \in Equip /\ e = a => Says(pkt, e) = t[a].mask
  BY <1>1 DEF LogSays
<1>2. st = "VALID" => (Covers(pkt, "log", e) <=> e = a % EQUIP_MODULUS)
  BY <1>1 DEF Covers
<1>3. st = "VALID" /\ a \in Equip /\ e = a => Says(pkt, e) = t[a].mask
  BY <1>1, EquipType DEF Says
<1>4. st = "INVALID" => ~Covers(pkt, "log", e)
  BY <1>1 DEF Covers
<1>5. st = "ALL_DISABLED" => Covers(pkt, "log", e) /\ Says(pkt, e) = 0
  BY <1>1 DEF Covers, Says
<1> QED
  BY <1>2, <1>3, <1>4, <1>5

\* Broadcasting a log mask tells the others nothing new.
LEMMA LogBroadcastTold ==
    ASSUME TypeInv, UnlistedInv, NEW pkt \in MaskPacket, pkt.kind = "log", Broadcast(pkt),
           UNCHANGED <<event, mask, reached, view>>,
           \A p \in Perif : EventsTold(p) /\ MsgsTold(p),
           \A p \in Perif : \A e \in Equip \ astray' :
              /\ Covers(pkt, "log", e) => Says(pkt, e) = log'[e].mask
              /\ ~Covers(pkt, "log", e) =>
                    Current(cntlq[p], "log", e, view[p].log[e], log'[e].mask)
    PROVE  ToldInv'
<1>1. \A p \in Perif : cntlq'[p] = IF Listed(p) THEN Append(cntlq[p], pkt) ELSE cntlq[p]
  BY Broadcasted DEF TypeInv
<1>2. ASSUME NEW p \in Perif PROVE EventsTold(p)' /\ MsgsTold(p)'
  <2>1. EventsTold(p)'
    BY <1>1, EventsKept
  <2>2. MsgsTold(p)'
    BY <1>1, MsgsKept
  <2> QED BY <2>1, <2>2
<1>3. ASSUME NEW p \in Perif, NEW e \in Equip \ astray'
      PROVE  Current(cntlq'[p], "log", e, view'[p].log[e], log'[e].mask)
  <2>1. PICK cur : cur = log'[e].mask
    OBVIOUS
  <2>2. "log" \in Kind /\ e \in Subjects["log"]
    BY Kinds
  <2>3. Current(cntlq'[p], "log", e, view'[p]["log"][e], cur)
    BY <1>1, <2>1, <2>2, CurrentBroadcast
  <2> QED BY <2>1, <2>3
<1> QED
  BY <1>2, <1>3 DEF ToldInv, LogsTold

LEMMA DisableLogTold ==
    ASSUME TypeInv, TypeInv', UnlistedInv, ToldInv, DisableLog
    PROVE  ToldInv'
<1>1. /\ UNCHANGED <<event, mask, reached, view>>
      /\ \A p \in Perif : EventsTold(p) /\ MsgsTold(p)
      /\ \A e \in Equip : log'[e].mask = 0
  BY DEF DisableLog, Command, ToldInv, TypeInv, LogEntry
<1>2. PICK t \in [Equip -> LogEntry] : t = log'
  BY DEF TypeInv
<1>3. PICK pkt : pkt = LogPacket(t, "ALL_DISABLED", 0)
  OBVIOUS
<1>4. pkt \in MaskPacket
  BY <1>3, LogPacketType DEF Status
<1>5. Broadcast(pkt)
  BY <1>2, <1>3 DEF DisableLog
<1>6. pkt.kind = "log" /\ \A e \in Equip : Covers(pkt, "log", e) /\ Says(pkt, e) = 0
  <2>1. "ALL_DISABLED" \in Status /\ 0 \in Nat
    BY DEF Status
  <2>2. LogSays(pkt, t, "ALL_DISABLED", 0)
    BY <1>3, <2>1, LogPacketSays
  <2> QED BY <2>2 DEF LogSays
<1> QED
  BY <1>1, <1>4, <1>5, <1>6, LogBroadcastTold

LEMMA GetLogMaskTold ==
    ASSUME TypeInv, StatusInv, UnlistedInv, ToldInv, NEW a \in Nat, GetLogMask(a)
    PROVE  ToldInv'
<1>1. /\ UNCHANGED <<event, mask, reached, view, log>>
      /\ \A p \in Perif : EventsTold(p) /\ MsgsTold(p) /\ LogsTold(p)
      /\ astray' = IF status["log"] = "VALID" THEN Strays(astray, a) ELSE astray
  BY DEF GetLogMask, Command, ToldInv, tables
<1>2. PICK st \in Status : st = status["log"] /\ st # "ALL_ENABLED"
  BY DEF TypeInv, StatusInv, Kind
<1>3. PICK t, pkt : t \in [Equip -> LogEntry] /\ t = log /\ pkt = LogPacket(t, st, a)
  BY DEF TypeInv
<1>4. pkt \in MaskPacket /\ Broadcast(pkt)
  BY <1>2, <1>3, LogPacketType DEF GetLogMask
<1>5. /\ pkt.kind = "log"
      /\ \A e \in Equip :
            /\ st = "INVALID" => ~Covers(pkt, "log", e)
            /\ st = "ALL_DISABLED" => Covers(pkt, "log", e) /\ Says(pkt, e) = 0
            /\ st = "VALID" => /\ Covers(pkt, "log", e) <=> e = a % EQUIP_MODULUS
                               /\ a \in Equip /\ e = a => Says(pkt, e) = t[a].mask
  <2>1. LogSays(pkt, t, st, a)
    BY <1>2, <1>3, LogPacketSays
  <2> QED BY <2>1 DEF LogSays
<1>6. ASSUME NEW p \in Perif, NEW e \in Equip \ astray'
      PROVE  /\ Covers(pkt, "log", e) => Says(pkt, e) = log[e].mask
             /\ ~Covers(pkt, "log", e) =>
                   Current(cntlq[p], "log", e, view[p].log[e], log[e].mask)
  <2>1. CASE st = "INVALID"
    <3>1. ~Covers(pkt, "log", e)
      BY <1>5, <2>1
    <3> QED BY <1>1, <1>2, <1>6, <2>1, <3>1 DEF LogsTold
  <2>2. CASE st = "ALL_DISABLED"
    <3>1. Covers(pkt, "log", e) /\ Says(pkt, e) = 0
      BY <1>5, <2>2
    <3> QED BY <1>2, <1>6, <2>2, <3>1 DEF StatusInv
  <2>3. CASE st = "VALID"
    <3>1. /\ Covers(pkt, "log", e) <=> e = a % EQUIP_MODULUS
          /\ a \in Equip /\ e = a => Says(pkt, e) = log[a].mask
      BY <1>3, <1>5, <2>3
    <3>2. CASE a \in Equip
      <4>1. a % EQUIP_MODULUS = a
        BY <3>2, EquipType
      <4>2. e # a => e \notin astray
        BY <1>1, <1>2, <1>6, <2>3, <3>2 DEF Strays
      <4> QED BY <1>1, <1>6, <3>1, <3>2, <4>1, <4>2 DEF LogsTold
    <3>3. CASE a \notin Equip
      <4>1. e \notin astray /\ e # a % EQUIP_MODULUS
        BY <1>1, <1>2, <1>6, <2>3, <3>3 DEF Strays
      <4> QED BY <1>1, <1>6, <3>1, <4>1 DEF LogsTold
    <3> QED BY <3>2, <3>3
  <2> QED BY <1>2, <2>1, <2>2, <2>3 DEF Status
<1> QED
  BY <1>1, <1>4, <1>5, <1>6, LogBroadcastTold

\* DIAG_CMD_OP_SET_LOG_MASK: of the ids that are not astray, the entry that was set is
\* told if the answer has its id.
LEMMA SetLogMaskTold ==
    ASSUME TypeInv, TypeInv', StatusInv, UnlistedInv, ToldInv,
           NEW id \in Nat, NEW n \in Nat, NEW on \in BOOLEAN, SetLogMask(id, n, on)
    PROVE  ToldInv'
<1>1. /\ UNCHANGED <<event, mask, reached, view>>
      /\ \A p \in Perif : EventsTold(p) /\ MsgsTold(p) /\ LogsTold(p)
  BY DEF SetLogMask, Command, ToldInv
<1> DEFINE num == Smaller(n, MAX_ITEMS_ALLOWED)
           x == id % EQUIP_MODULUS
           bytes == BITS_TO_BYTES(num)
<1>2. CASE x \in Equip
  <2>1. /\ \E w : log' = [log EXCEPT ![x] = w]
        /\ \E a \in Answered(id, bytes) :
              /\ Broadcast(LogPacket(log', "VALID", a))
              /\ astray' = Strays(astray \cup {x}, a)
    BY <1>2 DEF SetLogMask
  <2>2. bytes \in Nat
    <3>1. num \in Nat
      BY MasksAssumption DEF Smaller
    <3> QED BY <3>1, Bits
  <2> HIDE DEF num, bytes
  <2>3. PICK a \in Answered(id, bytes) : /\ Broadcast(LogPacket(log', "VALID", a))
                                         /\ astray' = Strays(astray \cup {x}, a)
    BY <2>1
  <2>4. a \in Nat
    BY <2>2, AnsweredType
  <2>5. PICK t \in [Equip -> LogEntry] : t = log'
    BY DEF TypeInv
  <2>6. PICK pkt : pkt = LogPacket(t, "VALID", a)
    OBVIOUS
  <2>7. pkt \in MaskPacket /\ Broadcast(pkt)
    BY <2>3, <2>4, <2>5, <2>6, LogPacketType DEF Status
  <2>s. "VALID" \in Status
    BY DEF Status
  <2>t. LogSays(pkt, t, "VALID", a)
    BY <2>4, <2>6, <2>s, LogPacketSays
  <2>8. /\ pkt.kind = "log"
        /\ \A e \in Equip :
                  /\ Covers(pkt, "log", e) <=> e = a % EQUIP_MODULUS
                  /\ a \in Equip /\ e = a => Says(pkt, e) = t[a].mask
    BY <2>t DEF LogSays
  <2>9. ASSUME NEW p \in Perif, NEW e \in Equip \ astray'
        PROVE  /\ Covers(pkt, "log", e) => Says(pkt, e) = log'[e].mask
               /\ ~Covers(pkt, "log", e) =>
                     Current(cntlq[p], "log", e, view[p].log[e], log'[e].mask)
    <3>1. ASSUME e # x, e \notin astray
          PROVE  Current(cntlq[p], "log", e, view[p].log[e], log'[e].mask)
      <4>1. log'[e] = log[e]
        BY <2>1, <3>1 DEF TypeInv
      <4> QED BY <1>1, <3>1, <4>1 DEF LogsTold
    <3>2. CASE a \in Equip
      <4>1. a % EQUIP_MODULUS = a
        BY <3>2, EquipType
      <4>2. e # a => e \notin astray /\ e # x
        BY <2>3, <2>9, <3>2 DEF Strays
      <4> QED BY <2>5, <2>8, <3>1, <3>2, <4>1, <4>2
    <3>3. CASE a \notin Equip
      <4>1. e \notin astray /\ e # x /\ e # a % EQUIP_MODULUS
        BY <2>3, <2>9, <3>3 DEF Strays
      <4> QED BY <2>8, <3>1, <4>1
    <3> QED BY <3>2, <3>3
  <2> QED BY <1>1, <2>7, <2>8, <2>9, LogBroadcastTold
<1>3. CASE x \notin Equip
  <2>1. UNCHANGED <<log, status, astray>> /\ Broadcast(LogPacket(log, status["log"], id))
    BY <1>3 DEF SetLogMask
  <2>2. PICK st \in Status : st = status["log"] /\ st # "ALL_ENABLED"
    BY DEF TypeInv, StatusInv, Kind
  <2>3. PICK t, pkt : t \in [Equip -> LogEntry] /\ t = log /\ pkt = LogPacket(t, st, id)
    BY DEF TypeInv
  <2>4. pkt \in MaskPacket /\ Broadcast(pkt)
    BY <2>1, <2>2, <2>3, LogPacketType
  <2>5. /\ pkt.kind = "log"
        /\ \A e \in Equip :
              /\ st = "INVALID" => ~Covers(pkt, "log", e)
              /\ st = "ALL_DISABLED" => Covers(pkt, "log", e) /\ Says(pkt, e) = 0
              /\ st = "VALID" => /\ Covers(pkt, "log", e) <=> e = id % EQUIP_MODULUS
                                 /\ id \in Equip /\ e = id => Says(pkt, e) = t[id].mask
    <3>1. LogSays(pkt, t, st, id)
      BY <2>2, <2>3, LogPacketSays
    <3> QED BY <3>1 DEF LogSays
  <2>6. ASSUME NEW p \in Perif, NEW e \in Equip \ astray'
        PROVE  /\ Covers(pkt, "log", e) => Says(pkt, e) = log'[e].mask
               /\ ~Covers(pkt, "log", e) =>
                     Current(cntlq[p], "log", e, view[p].log[e], log'[e].mask)
    <3>1. Current(cntlq[p], "log", e, view[p].log[e], log'[e].mask)
      BY <1>1, <2>1, <2>6 DEF LogsTold
    <3>2. CASE st = "ALL_DISABLED"
      <4>1. Says(pkt, e) = 0
        BY <2>5, <3>2
      <4> QED BY <2>1, <2>2, <2>6, <3>1, <3>2, <4>1 DEF StatusInv
    <3>3. CASE st = "INVALID"
      <4>1. ~Covers(pkt, "log", e)
        BY <2>5, <3>3
      <4> QED BY <3>1, <4>1
    <3>4. CASE st = "VALID"
      <4>1. ~Covers(pkt, "log", e)
        BY <1>3, <2>6, <2>5, <3>4
      <4> QED BY <3>1, <4>1
    <3> QED BY <2>2, <3>2, <3>3, <3>4 DEF Status
  <2> QED BY <1>1, <2>1, <2>4, <2>6, <2>5, LogBroadcastTold
<1> QED
  BY <1>2, <1>3

-----------------------------------------------------------------------------
(* Event masks, peripherals, and the theorems.                             *)

\* The packet of the event mask tells every byte.
LEMMA EventBroadcastTold ==
    ASSUME TypeInv, TypeInv', UnlistedInv, NEW st \in Status, NEW t, t = event',
           Broadcast(EventPacket(t, st)),
           \/ st = "VALID"
           \/ st = "ALL_ENABLED" /\ \A b \in DOMAIN t : t[b] = 1
           \/ st = "ALL_DISABLED" /\ \A b \in DOMAIN t : t[b] = 0,
           UNCHANGED <<log, mask, reached, astray, view>>,
           \A p \in Perif : LogsTold(p) /\ MsgsTold(p)
    PROVE  ToldInv'
<1>1. PICK pkt : pkt = EventPacket(t, st)
  OBVIOUS
<1>2. PICK n \in Nat : t \in [1..n -> 0..1]
  <2>1. PICK k \in Nat : k = event_max_num_bits'
    BY Bits DEF TypeInv
  <2>2. BITS_TO_BYTES(k) \in Nat /\ t \in [1..BITS_TO_BYTES(k) -> 0..1]
    BY <2>1, Bits DEF TypeInv
  <2> QED BY <2>2
<1>3. pkt \in MaskPacket
  BY <1>1, <1>2, EventPacketType
<1>4. \A p \in Perif : cntlq'[p] = IF Listed(p) THEN Append(cntlq[p], pkt) ELSE cntlq[p]
  BY <1>1, <1>3, Broadcasted DEF TypeInv
<1>5. /\ pkt.kind = "event" /\ pkt.status = st
      /\ st = "VALID" => pkt.masks = t
      /\ st = "ALL_ENABLED" => pkt.all = 1
  BY <1>1 DEF EventPacket, Packet
<1>6. ASSUME NEW p \in Perif PROVE LogsTold(p)' /\ MsgsTold(p)'
  <2>1. LogsTold(p)'
    BY <1>3, <1>4, <1>5, LogsKept
  <2>2. MsgsTold(p)'
    BY <1>3, <1>4, <1>5, MsgsKept
  <2> QED BY <2>1, <2>2
<1>7. ASSUME NEW p \in Perif, NEW b \in DOMAIN t
      PROVE  Current(cntlq'[p], "event", b, view'[p].event[b], t[b])
  <2>1. Covers(pkt, "event", b) /\ Says(pkt, b) = t[b]
    BY <1>5 DEF Covers, Says
  <2>2. "event" \in Kind /\ b \in Subjects["event"]
    <3>1. (DOMAIN event \subseteq EventBytes)'
      BY EventBytesAll DEF TypeInv
    <3> QED BY <3>1, Kinds
  <2>3. PICK cur : cur = t[b]
    OBVIOUS
  <2>4. Current(cntlq'[p], "event", b, view'[p]["event"][b], cur)
    BY <1>3, <1>4, <2>1, <2>2, <2>3, CurrentBroadcast
  <2> QED BY <2>3, <2>4
<1> QED
  BY <1>6, <1>7 DEF ToldInv, EventsTold

LEMMA SetEventMaskTold ==
    ASSUME TypeInv, TypeInv', UnlistedInv, ToldInv, NEW n, NEW bytes, SetEventMask(n, bytes)
    PROVE  ToldInv'
<1>1. /\ UNCHANGED <<log, mask, reached, astray, view>>
      /\ \A p \in Perif : LogsTold(p) /\ MsgsTold(p)
  BY DEF SetEventMask, Command, ToldInv
<1>2. PICK t : t = event'
  OBVIOUS
<1>3. Broadcast(EventPacket(t, "VALID")) /\ "VALID" \in Status
  BY <1>2 DEF SetEventMask, Status
<1> QED
  BY <1>1, <1>2, <1>3, EventBroadcastTold

LEMMA ToggleEventsTold ==
    ASSUME TypeInv, TypeInv', UnlistedInv, ToldInv, NEW enabled \in BOOLEAN,
           ToggleEvents(enabled)
    PROVE  ToldInv'
<1>1. /\ UNCHANGED <<log, mask, reached, astray, view>>
      /\ \A p \in Perif : LogsTold(p) /\ MsgsTold(p)
  BY DEF ToggleEvents, Command, ToldInv
<1>2. PICK t : t = event'
  OBVIOUS
<1>3. PICK st \in Status : st = IF enabled THEN "ALL_ENABLED" ELSE "ALL_DISABLED"
  BY DEF Status
<1>4. status'["event"] = st
  BY <1>3 DEF ToggleEvents, TypeInv, Kind
<1>5. Broadcast(EventPacket(t, st))
  BY <1>2, <1>4 DEF ToggleEvents
<1>6. \A b \in DOMAIN t : t[b] = IF enabled THEN 1 ELSE 0
  BY <1>2 DEF ToggleEvents
<1> QED
  BY <1>1, <1>2, <1>3, <1>5, <1>6, EventBroadcastTold

LEMMA PerifTold ==
    ASSUME BoundsInv, TypeInv, StatusInv, ApartInv, UnlistedInv, ToldInv, NEW o \in Perif,
           Open(o) \/ AnswerFeatures(o) \/ Close(o) \/ Restart(o) \/ CntlWrite(o)
    PROVE  ToldInv'
<1>1. /\ UNCHANGED <<log, mask, event, reached, astray>>
      /\ ~crashed
  BY DEF Open, AnswerFeatures, Close, Restart, CntlWrite, tables
<1> SUFFICES ASSUME NEW p \in Perif PROVE EventsTold(p)' /\ LogsTold(p)' /\ MsgsTold(p)'
  BY DEF ToldInv
<1>2. EventsTold(p) /\ LogsTold(p) /\ MsgsTold(p)
  BY <1>1 DEF ToldInv
<1>3. ASSUME NEW b \in DOMAIN event
      PROVE  Current(cntlq'[p], "event", b, view'[p].event[b], event[b])
  <2>1. PICK cur : cur = event[b]
    OBVIOUS
  <2>2. Current(cntlq[p], "event", b, view[p]["event"][b], cur)
    BY <1>2, <2>1 DEF EventsTold
  <2>3. "event" \in Kind /\ b \in Subjects["event"]
    BY EventDomain, Kinds
  <2>4. Current(cntlq'[p], "event", b, view'[p]["event"][b], cur)
    BY <2>2, <2>3, CurrentPerif
  <2> QED BY <2>1, <2>4
<1>4. ASSUME NEW e \in Equip \ astray
      PROVE  Current(cntlq'[p], "log", e, view'[p].log[e], log[e].mask)
  <2>1. PICK cur : cur = log[e].mask
    OBVIOUS
  <2>2. Current(cntlq[p], "log", e, view[p]["log"][e], cur)
    BY <1>2, <2>1 DEF LogsTold
  <2>3. "log" \in Kind /\ e \in Subjects["log"]
    BY Kinds
  <2>4. Current(cntlq'[p], "log", e, view'[p]["log"][e], cur)
    BY <2>2, <2>3, CurrentPerif
  <2> QED BY <2>1, <2>4
<1>5. ASSUME ~reached, NEW s \in AllSsids
      PROVE  Current(cntlq'[p], "msg", s, view'[p].msg[s], mask[s])
  <2>1. PICK cur : cur = mask[s]
    OBVIOUS
  <2>2. Current(cntlq[p], "msg", s, view[p]["msg"][s], cur)
    BY <1>2, <1>5, <2>1 DEF MsgsTold
  <2>3. "msg" \in Kind /\ s \in Subjects["msg"]
    BY Kinds
  <2>4. \A i \in Table : \A pkt :
           pkt = MsgPacket(msg, mask, status["msg"], ssid_first_arr[i]) /\ Covers(pkt, "msg", s)
             => Says(pkt, s) = cur
    BY <1>5, <2>1, SentCurrent
  <2>5. Current(cntlq'[p], "msg", s, view'[p]["msg"][s], cur)
    BY <2>2, <2>3, <2>4, CurrentPerif
  <2> QED BY <2>1, <2>5
<1> QED
  BY <1>1, <1>3, <1>4, <1>5 DEF EventsTold, LogsTold, MsgsTold

\* The inductive invariant behind the theorems that follow.
MasksInv == BoundsInv /\ TypeInv /\ StatusInv /\ ApartInv /\ UnlistedInv /\ ToldInv

LEMMA MasksInvInit == Init => MasksInv
<1> SUFFICES ASSUME Init PROVE MasksInv
  OBVIOUS
<1>1. BoundsInv /\ TypeInv
  BY BoundsInit, TypesInit
<1>2. StatusInv
  BY DEF Init, StatusInv, Kind
<1>3. ApartInv
  BY Sorted DEF Init, ApartInv, Apart
<1>4. UnlistedInv
  BY DEF Init, UnlistedInv
<1>5. \A p \in Perif : cntlq[p] = <<>> /\ view[p] = Blank
  BY DEF Init
<1>6. ASSUME NEW p \in Perif PROVE EventsTold(p) /\ LogsTold(p) /\ MsgsTold(p)
  <2>1. \A kind, s, cur : Current(<<>>, kind, s, Unset, cur)
    BY CurrentEmpty
  <2>2. /\ \A b \in DOMAIN event : view[p].event[b] = Unset
        /\ \A e \in Equip : view[p].log[e] = Unset
        /\ \A s \in AllSsids : view[p].msg[s] = Unset
    BY <1>1, <1>5, EventDomain DEF Blank
  <2> QED BY <1>5, <2>1, <2>2 DEF EventsTold, LogsTold, MsgsTold
<1> QED
  BY <1>1, <1>2, <1>3, <1>4, <1>6 DEF MasksInv, ToldInv

LEMMA MasksInvStep == MasksInv /\ [Next]_vars => MasksInv'
<1> SUFFICES ASSUME MasksInv, [Next]_vars PROVE MasksInv'
  OBVIOUS
<1>1. BoundsInv /\ TypeInv /\ StatusInv /\ ApartInv /\ UnlistedInv /\ ToldInv
  BY DEF MasksInv
<1>2. BoundsInv' /\ TypeInv'
  BY <1>1, BoundsStep, TypesStep
<1>3. StatusInv'
  BY <1>1, StatusStep
<1>4. ApartInv'
  BY <1>1, <1>2, ApartStep
<1>5. UnlistedInv'
  BY <1>1, <1>2, UnlistedStep
<1>6. ToldInv'
  <2>1. ASSUME NEW first \in MsgSsid, NEW last \in MsgSsid, NEW masks,
               SetMsgMask(first, last, masks)
        PROVE  ToldInv'
    <3>1. first \in Nat /\ last \in Nat
      BY MasksAssumption
    <3> QED BY <1>1, <1>2, <1>4, <2>1, <3>1, SetMsgMaskTold
  <2>2. ASSUME NEW word \in 0..(BYTE * BYTE - 1), SetAllMsgMask(word) PROVE ToldInv'
    BY <1>1, <2>2, SetAllMsgMaskTold
  <2>3. CASE DisableLog
    BY <1>1, <1>2, <2>3, DisableLogTold
  <2>4. ASSUME NEW e \in LogEquip, NEW n \in LogItems, NEW on \in BOOLEAN, SetLogMask(e, n, on)
        PROVE  ToldInv'
    <3>1. e \in Nat /\ n \in Nat
      BY MasksAssumption
    <3> QED BY <1>1, <1>2, <2>4, <3>1, SetLogMaskTold
  <2>5. ASSUME NEW e \in LogEquip, GetLogMask(e) PROVE ToldInv'
    <3>1. e \in Nat
      BY MasksAssumption
    <3> QED BY <1>1, <2>5, <3>1, GetLogMaskTold
  <2>6. ASSUME NEW n, NEW bytes, SetEventMask(n, bytes) PROVE ToldInv'
    BY <1>1, <1>2, <2>6, SetEventMaskTold
  <2>7. ASSUME NEW enabled \in BOOLEAN, ToggleEvents(enabled) PROVE ToldInv'
    BY <1>1, <1>2, <2>7, ToggleEventsTold
  <2>8. CASE \E p \in Perif :
               Open(p) \/ AnswerFeatures(p) \/ Close(p) \/ Restart(p) \/ CntlWrite(p)
    BY <1>1, <2>8, PerifTold
  <2>9. CASE UNCHANGED vars
    BY <1>1, <2>9 DEF vars, tables, ToldInv, EventsTold, LogsTold, MsgsTold
  <2>10. ASSUME NEW first, GetMsgMask(first) PROVE ToldInv'
    <3>1. ~crashed /\ UNCHANGED <<mask, log, event, cntlq, view, reached, astray>>
      BY <2>10 DEF GetMsgMask, Command, tables
    <3> QED BY <1>1, <3>1 DEF ToldInv, EventsTold, LogsTold, MsgsTold
  <2> QED
    BY <2>1, <2>2, <2>3, <2>4, <2>5, <2>6, <2>7, <2>8, <2>9, <2>10 DEF Next
<1> QED
  BY <1>2, <1>3, <1>4, <1>5, <1>6 DEF MasksInv

LEMMA MasksInvAlways == Spec => []MasksInv
BY MasksInvInit, MasksInvStep, PTL DEF Spec

\* An event mask a subsystem was told is the one the router has, in every behaviour.
THEOREM EventMasksTold == Spec => []EventMasksCurrent
<1>1. MasksInv => EventMasksCurrent
  <2> SUFFICES ASSUME MasksInv, NEW p \in Perif, Drained(p), NEW b \in DOMAIN event
               PROVE  view[p].event[b] \in {Unset, event[b]}
    BY DEF EventMasksCurrent
  <2>1. Current(<<>>, "event", b, view[p].event[b], event[b])
    BY DEF MasksInv, ToldInv, EventsTold, Drained
  <2> QED BY <2>1, CurrentEmpty
<1> QED
  BY <1>1, MasksInvAlways, PTL

\* A log mask a subsystem was told is the one the router has, but for the ids astray.
THEOREM LogMasksTold == Spec => []LogMasksCurrent
<1>1. MasksInv => LogMasksCurrent
  <2> SUFFICES ASSUME MasksInv, NEW p \in Perif, Drained(p), NEW e \in Equip \ astray
               PROVE  view[p].log[e] \in {Unset, log[e].mask}
    BY DEF LogMasksCurrent
  <2>1. Current(<<>>, "log", e, view[p].log[e], log[e].mask)
    BY DEF MasksInv, ToldInv, LogsTold, Drained
  <2> QED BY <2>1, CurrentEmpty
<1> QED
  BY <1>1, MasksInvAlways, PTL

\* A message mask a subsystem was told is the one the router has, as long as no range
\* was extended to the next.
THEOREM MsgMasksTold == Spec => []MsgMasksCurrent
<1>1. MasksInv => MsgMasksCurrent
  <2> SUFFICES ASSUME MasksInv, NEW p \in Perif, Drained(p), ~reached, NEW s \in AllSsids
               PROVE  view[p].msg[s] \in {Unset, mask[s]}
    BY DEF MsgMasksCurrent
  <2>1. Current(<<>>, "msg", s, view[p].msg[s], mask[s])
    BY DEF MasksInv, ToldInv, MsgsTold, Drained
  <2> QED BY <2>1, CurrentEmpty
<1> QED
  BY <1>1, MasksInvAlways, PTL
=============================================================================
