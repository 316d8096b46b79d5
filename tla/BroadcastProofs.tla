--------------------------- MODULE BroadcastProofs ---------------------------
(***************************************************************************)
(* Proof that the router implements Broadcast.tla, for every set of        *)
(* clients, peripherals and buffers: each step of Router.tla is a step of  *)
(* the channels it promises, or changes none of them.                      *)
(***************************************************************************)
EXTENDS AioProofs

-----------------------------------------------------------------------------
(* Channels.                                                               *)

Charges == Flow \cup {NoFlow, Unallocated}

\* s is what is on its way to d: the packet d's watch has taken, if any, then
\* those of d's queue.
ChannelIs(d, s) ==
    /\ s \in Seq(Charges)
    /\ \/ /\ PendingTo(d) = {}
          /\ Len(s) = Len(queue[d])
          /\ \A i \in 1..Len(queue[d]) : s[i] = charge[queue[d][i]]
       \/ \E w \in 1..Len(aio_watches) :
             /\ PendingTo(d) = {w}
             /\ Len(s) = Len(queue[d]) + 1
             /\ s[1] = charge[pending[w]]
             /\ \A i \in 1..Len(queue[d]) : s[i + 1] = charge[queue[d][i]]

ChannelsKnown == \A d \in Dm : ChannelIs(d, Channel(d))

\* A DM has at most one watch, so Channel has one pending packet at most.
LEMMA WatchedChannels == DmInv => ChannelsKnown
<1> SUFFICES ASSUME DmInv, NEW d \in Dm
             PROVE  ChannelIs(d, Channel(d))
  BY DEF ChannelsKnown
<1>0. d \in Fd
  BY DmFinite
<1>1. queue[d] \in Seq(Mbuf) /\ charge \in [Mbuf -> Charges]
  BY <1>0 DEF DmInv, TypeOK, MemoryTypeOK, Charges
<1>2. PICK n \in Nat : n = Len(queue[d]) /\ \A i \in 1..n : queue[d][i] \in Mbuf
  BY <1>1, LenProperties, ElementOfSeq
<1> DEFINE q == [i \in 1..n |-> charge[queue[d][i]]]
<1>3. q \in Seq(Charges) /\ Len(q) = n
  <2>1. q \in [1..n -> Charges]
    BY <1>1, <1>2
  <2>2. q \in Seq(Charges)
    BY <2>1, SeqDef
  <2>3. DOMAIN q = 1..n /\ Len(q) \in Nat /\ DOMAIN q = 1..Len(q)
    BY <2>2, LenProperties
  <2> HIDE DEF q
  <2> QED BY <2>2, <2>3
<1>4. \A v, w \in PendingTo(d) : v = w
  BY DEF PendingTo, DmInv, DmWatches, OneWatchPerDm
<1>5. CASE PendingTo(d) = {}
  <2>1. Cardinality(PendingTo(d)) = 0
    BY <1>5, FS_EmptySet
  <2> DEFINE h == [i \in 1..0 |-> charge[pending[CHOOSE w \in PendingTo(d) : TRUE]]]
  <2>2. h = <<>>
    OBVIOUS
  <2>3. Channel(d) = h \o q
    BY <1>2, <2>1 DEF Channel
  <2>4. Channel(d) = q
    <3> HIDE DEF q, h
    <3> QED BY <1>3, <2>2, <2>3, ConcatEmptySeq
  <2> QED BY <1>2, <1>3, <1>5, <2>4 DEF ChannelIs
<1>6. CASE PendingTo(d) # {}
  <2>1. PICK w \in PendingTo(d) : PendingTo(d) = {w}
    BY <1>4, <1>6
  <2>2. Cardinality(PendingTo(d)) = 1
    BY <2>1, FS_Singleton
  <2>3. (CHOOSE v \in PendingTo(d) : TRUE) = w
    BY <2>1
  <2>4. w \in 1..Len(aio_watches) /\ pending[w] # NoMbuf
    BY DEF PendingTo
  <2>5. pending[w] \in Mbuf
    BY <2>4, PendingAt DEF DmInv, TypeOK
  <2> DEFINE h == [i \in 1..1 |-> charge[pending[w]]]
  <2>6. Channel(d) = h \o q
    BY <1>2, <2>2, <2>3 DEF Channel
  <2>7. h \in Seq(Charges) /\ Len(h) = 1 /\ h[1] = charge[pending[w]]
    <3>1. h \in [1..1 -> Charges] /\ h[1] = charge[pending[w]]
      BY <1>1, <2>5
    <3>2. h \in Seq(Charges)
      BY <3>1, SeqDef
    <3>3. DOMAIN h = 1..1 /\ Len(h) \in Nat /\ DOMAIN h = 1..Len(h)
      BY <3>2, LenProperties
    <3> HIDE DEF h
    <3> QED BY <3>1, <3>2, <3>3
  <2>8. /\ h \o q \in Seq(Charges) /\ Len(h \o q) = 1 + n
        /\ \A i \in 1..(1 + n) : (h \o q)[i] = IF i <= 1 THEN h[i] ELSE q[i - 1]
    <3> HIDE DEF h, q
    <3>1. /\ h \o q \in Seq(Charges) /\ Len(h \o q) = Len(h) + Len(q)
          /\ \A i \in 1..(Len(h) + Len(q)) :
                (h \o q)[i] = IF i <= Len(h) THEN h[i] ELSE q[i - Len(h)]
      BY <1>3, <2>7, ConcatProperties
    <3>2. Len(h) + Len(q) = 1 + n /\ Len(h) = 1
      BY <1>3, <2>7
    <3> QED BY <3>1, <3>2
  <2>9. \A i \in 1..n : (h \o q)[i + 1] = charge[queue[d][i]]
    <3> SUFFICES ASSUME NEW i \in 1..n PROVE (h \o q)[i + 1] = q[i]
      OBVIOUS
    <3>1. i + 1 \in 1..(1 + n) /\ ~(i + 1 <= 1) /\ (i + 1) - 1 = i
      OBVIOUS
    <3> HIDE DEF h, q
    <3> QED BY <2>8, <3>1
  <2>10. (h \o q)[1] = charge[pending[w]]
    <3>1. 1 \in 1..(1 + n) /\ 1 <= 1
      OBVIOUS
    <3> HIDE DEF h, q
    <3> QED BY <2>7, <2>8, <3>1
  <2> HIDE DEF h, q
  <2> QED BY <1>2, <2>1, <2>4, <2>6, <2>8, <2>9, <2>10 DEF ChannelIs
<1> QED BY <1>5, <1>6

LEMMA InitBroadcast == Init /\ DmInv => Promise!Init
<1> SUFFICES ASSUME Init, DmInv PROVE Promise!Init
  OBVIOUS
<1>1. Listeners = {}
  BY DEF Listeners, Init
<1>2. \A d \in Dm : Channel(d) = <<>>
  <2> SUFFICES ASSUME NEW d \in Dm PROVE Channel(d) = <<>>
    OBVIOUS
  <2>1. PendingTo(d) = {}
    <3>1. DOMAIN pending = 1..Len(aio_watches)
      BY PendingAt DEF DmInv, TypeOK
    <3>2. \A w \in DOMAIN pending : pending[w] = NoMbuf
      BY DEF Init, WatchInit
    <3> QED BY <3>1, <3>2 DEF PendingTo
  <2>2. queue[d] = <<>>
    BY DmFinite, Descriptors DEF Init, Dm, UsbFds
  <2>3. Channel(d) \in Seq(Charges) /\ Len(Channel(d)) = 0
    BY <2>1, <2>2, WatchedChannels DEF ChannelsKnown, ChannelIs
  <2> QED BY <2>3, EmptySeq
<1> QED BY <1>1, <1>2 DEF Promise!Init

-----------------------------------------------------------------------------
(* What moving buffers does to a channel.                                  *)

\* The packet d's watch has taken stays, as do the charges of the queued ones.
KeepsPending(d) ==
    /\ PendingTo(d)' = PendingTo(d)
    /\ \A w \in PendingTo(d) : /\ pending'[w] = pending[w]
                               /\ charge'[pending[w]] = charge[pending[w]]

KeepsCharges(d) ==
    \A i \in 1..Len(queue[d]) : charge'[queue[d][i]] = charge[queue[d][i]]

\* Queues of DMs have lengths.
LEMMA QueueOfDm ==
    ASSUME TypeOK, NEW d \in Dm
    PROVE  queue[d] \in Seq(Mbuf) /\ Len(queue[d]) \in Nat
<1>1. d \in Fd
  BY DmFinite
<1> QED BY <1>1, LenProperties DEF TypeOK, MemoryTypeOK

\* Nothing of d's moves.
LEMMA ChannelSame ==
    ASSUME TypeOK, ChannelsKnown, ChannelsKnown', NEW d \in Dm,
           KeepsPending(d), KeepsCharges(d), queue'[d] = queue[d]
    PROVE  Channel(d)' = Channel(d)
<1>1. PICK n \in Nat : n = Len(queue[d])
  BY QueueOfDm
<1>2. PICK s : s = Channel(d) /\ ChannelIs(d, s)
  BY DEF ChannelsKnown
<1>3. PICK t : t = Channel(d)' /\ ChannelIs(d, t)'
  BY DEF ChannelsKnown
<1>4. s \in Seq(Charges) /\ t \in Seq(Charges)
  BY <1>2, <1>3 DEF ChannelIs
<1>5. Len(s) = Len(t) /\ \A j \in 1..Len(s) : s[j] = t[j]
  <2>1. CASE PendingTo(d) = {}
    BY <1>1, <1>2, <1>3, <2>1 DEF ChannelIs, KeepsPending, KeepsCharges
  <2>2. CASE PendingTo(d) # {}
    <3>1. PICK w : /\ PendingTo(d) = {w}
                   /\ Len(s) = n + 1
                   /\ s[1] = charge[pending[w]]
                   /\ \A i \in 1..n : s[i + 1] = charge[queue[d][i]]
      BY <1>1, <1>2, <2>2 DEF ChannelIs
    <3>2. PICK v : /\ PendingTo(d)' = {v}
                   /\ Len(t) = n + 1
                   /\ t[1] = charge'[pending'[v]]
                   /\ \A i \in 1..n : t[i + 1] = charge'[queue'[d][i]]
      BY <1>1, <1>3, <2>2 DEF ChannelIs, KeepsPending
    <3>3. w = v
      BY <3>1, <3>2 DEF KeepsPending
    <3>4. t[1] = s[1] /\ \A i \in 1..n : t[i + 1] = s[i + 1]
      BY <1>1, <3>1, <3>2, <3>3 DEF KeepsPending, KeepsCharges
    <3>5. ASSUME NEW j \in 1..(n + 1) PROVE s[j] = t[j]
      <4>1. CASE j = 1
        BY <3>4, <4>1
      <4>2. CASE j # 1
        <5>1. j - 1 \in 1..n /\ (j - 1) + 1 = j
          BY <4>2
        <5>2. t[(j - 1) + 1] = s[(j - 1) + 1]
          BY <3>4, <5>1
        <5> QED BY <5>1, <5>2
      <4> QED BY <4>1, <4>2
    <3> QED BY <3>1, <3>2, <3>5
  <2> QED BY <2>1, <2>2
<1> QED BY <1>2, <1>3, <1>4, <1>5, SeqEqual

\* A packet of fl is queued for d.
LEMMA ChannelAppend ==
    ASSUME TypeOK, ChannelsKnown, ChannelsKnown', NEW d \in Dm, NEW m \in Mbuf,
           NEW fl \in Charges, KeepsPending(d), KeepsCharges(d),
           queue'[d] = Append(queue[d], m), charge'[m] = fl
    PROVE  Channel(d)' = Append(Channel(d), fl)
<1>1. PICK n \in Nat : n = Len(queue[d])
  BY QueueOfDm
<1>q. /\ Len(queue'[d]) = n + 1 /\ queue'[d][n + 1] = m
      /\ \A i \in 1..n : queue'[d][i] = queue[d][i]
  BY <1>1, QueueOfDm, AppendAt
<1>2. PICK s : s = Channel(d) /\ ChannelIs(d, s)
  BY DEF ChannelsKnown
<1>3. PICK t : t = Channel(d)' /\ ChannelIs(d, t)'
  BY DEF ChannelsKnown
<1>4. s \in Seq(Charges) /\ t \in Seq(Charges)
  BY <1>2, <1>3 DEF ChannelIs
<1>5. PICK u : /\ u = Append(s, fl) /\ u \in Seq(Charges)
               /\ Len(u) = Len(s) + 1 /\ u[Len(s) + 1] = fl
               /\ \A i \in 1..Len(s) : u[i] = s[i]
  <2>1. Append(s, fl) \in Seq(Charges)
    BY <1>4, AppendProperties
  <2>2. /\ Len(Append(s, fl)) = Len(s) + 1 /\ Append(s, fl)[Len(s) + 1] = fl
        /\ \A i \in 1..Len(s) : Append(s, fl)[i] = s[i]
    BY <1>4, AppendAt
  <2> QED BY <2>1, <2>2
<1>c. \A i \in 1..n : charge'[queue'[d][i]] = charge[queue[d][i]]
  BY <1>1, <1>q DEF KeepsCharges
<1>6. Len(t) = Len(u) /\ \A j \in 1..Len(t) : t[j] = u[j]
  <2>1. CASE PendingTo(d) = {}
    <3>1. Len(s) = n /\ \A i \in 1..n : s[i] = charge[queue[d][i]]
      BY <1>1, <1>2, <2>1 DEF ChannelIs
    <3>2. Len(t) = n + 1 /\ \A i \in 1..(n + 1) : t[i] = charge'[queue'[d][i]]
      BY <1>q, <1>3, <2>1 DEF ChannelIs, KeepsPending
    <3>3. \A j \in 1..(n + 1) : j \in 1..n \/ j = n + 1
      OBVIOUS
    <3> QED BY <1>q, <1>5, <1>c, <3>1, <3>2, <3>3
  <2>2. CASE PendingTo(d) # {}
    <3>1. PICK w : /\ PendingTo(d) = {w}
                   /\ Len(s) = n + 1
                   /\ s[1] = charge[pending[w]]
                   /\ \A i \in 1..n : s[i + 1] = charge[queue[d][i]]
      BY <1>1, <1>2, <2>2 DEF ChannelIs
    <3>2. PICK v : /\ PendingTo(d)' = {v}
                   /\ Len(t) = (n + 1) + 1
                   /\ t[1] = charge'[pending'[v]]
                   /\ \A i \in 1..(n + 1) : t[i + 1] = charge'[queue'[d][i]]
      BY <1>q, <1>3, <2>2 DEF ChannelIs, KeepsPending
    <3>3. w = v
      BY <3>1, <3>2 DEF KeepsPending
    <3>4. t[1] = s[1]
      BY <3>1, <3>2, <3>3 DEF KeepsPending
    <3>5. \A i \in 1..n : i \in 1..(n + 1) /\ t[i + 1] = s[i + 1]
      <4>1. \A i \in 1..n : i \in 1..(n + 1)
        OBVIOUS
      <4> QED BY <1>c, <3>1, <3>2, <4>1
    <3>6. n + 1 \in 1..(n + 1) /\ t[(n + 1) + 1] = fl
      BY <1>q, <3>2
    <3>7. ASSUME NEW j \in 1..((n + 1) + 1) PROVE t[j] = u[j]
      <4>1. CASE j = 1
        BY <1>5, <3>1, <3>4, <4>1
      <4>2. CASE j = (n + 1) + 1
        BY <1>5, <3>1, <3>6, <4>2
      <4>3. CASE j # 1 /\ j # (n + 1) + 1
        <5>1. j - 1 \in 1..n /\ (j - 1) + 1 = j /\ j \in 1..(n + 1)
          BY <4>3
        <5>2. t[(j - 1) + 1] = s[(j - 1) + 1]
          BY <3>5, <5>1
        <5> QED BY <1>5, <3>1, <5>1, <5>2
      <4> QED BY <4>1, <4>2, <4>3
    <3> QED BY <1>5, <3>1, <3>2, <3>7
  <2> QED BY <2>1, <2>2
<1>7. t = u
  BY <1>4, <1>5, <1>6, SeqEqual
<1> QED BY <1>2, <1>3, <1>5, <1>7

\* io_submit takes the first packet of d's queue.
LEMMA ChannelSubmit ==
    ASSUME TypeOK, ChannelsKnown, ChannelsKnown', NEW d \in Dm, NEW w,
           PendingTo(d) = {}, PendingTo(d)' = {w}, queue[d] # <<>>,
           pending'[w] = Head(queue[d]), queue'[d] = Tail(queue[d]),
           UNCHANGED charge
    PROVE  Channel(d)' = Channel(d)
<1>1. PICK n \in Nat \ {0} :
         /\ n = Len(queue[d]) /\ Len(queue'[d]) = n - 1 /\ Head(queue[d]) = queue[d][1]
         /\ \A i \in 1..(n - 1) : queue'[d][i] = queue[d][i + 1]
  BY QueueOfDm, TailAt
<1>2. PICK s : s = Channel(d) /\ ChannelIs(d, s)
  BY DEF ChannelsKnown
<1>3. PICK t : t = Channel(d)' /\ ChannelIs(d, t)'
  BY DEF ChannelsKnown
<1>4. s \in Seq(Charges) /\ t \in Seq(Charges)
  BY <1>2, <1>3 DEF ChannelIs
<1>5. Len(s) = n /\ \A i \in 1..n : s[i] = charge[queue[d][i]]
  BY <1>1, <1>2 DEF ChannelIs
<1>6. /\ Len(t) = (n - 1) + 1 /\ t[1] = charge[pending'[w]]
      /\ \A i \in 1..(n - 1) : t[i + 1] = charge[queue'[d][i]]
  <2>1. PICK v : /\ PendingTo(d)' = {v} /\ Len(t) = (n - 1) + 1
                 /\ t[1] = charge'[pending'[v]]
                 /\ \A i \in 1..(n - 1) : t[i + 1] = charge'[queue'[d][i]]
    BY <1>1, <1>3 DEF ChannelIs
  <2>2. v = w
    BY <2>1
  <2> QED BY <2>1, <2>2
<1>7. ASSUME NEW j \in 1..n PROVE s[j] = t[j]
  <2>1. CASE j = 1
    BY <1>1, <1>5, <1>6, <2>1
  <2>2. CASE j # 1
    <3>1. j - 1 \in 1..(n - 1) /\ (j - 1) + 1 = j
      BY <2>2
    <3>2. /\ t[(j - 1) + 1] = charge[queue'[d][j - 1]]
          /\ queue'[d][j - 1] = queue[d][(j - 1) + 1]
      BY <1>1, <1>6, <3>1
    <3> QED BY <1>5, <3>1, <3>2
  <2> QED BY <2>1, <2>2
<1>8. Len(s) = Len(t) /\ \A j \in 1..Len(s) : s[j] = t[j]
  BY <1>5, <1>6, <1>7
<1>9. s = t
  BY <1>4, <1>8, SeqEqual
<1> QED BY <1>2, <1>3, <1>9

\* A completed write takes the first packet off d's channel.
LEMMA ChannelDeliver ==
    ASSUME TypeOK, ChannelsKnown, ChannelsKnown', NEW d \in Dm,
           PendingTo(d) # {}, PendingTo(d)' = {}, KeepsCharges(d),
           queue'[d] = queue[d]
    PROVE  Channel(d) # <<>> /\ Channel(d)' = Tail(Channel(d))
<1>1. PICK n \in Nat : n = Len(queue[d])
  BY QueueOfDm
<1>2. PICK s : s = Channel(d) /\ ChannelIs(d, s)
  BY DEF ChannelsKnown
<1>3. PICK t : t = Channel(d)' /\ ChannelIs(d, t)'
  BY DEF ChannelsKnown
<1>4. s \in Seq(Charges) /\ t \in Seq(Charges)
  BY <1>2, <1>3 DEF ChannelIs
<1>5. Len(s) = n + 1 /\ \A i \in 1..n : s[i + 1] = charge[queue[d][i]]
  BY <1>1, <1>2 DEF ChannelIs
<1>6. Len(t) = n /\ \A i \in 1..n : t[i] = charge[queue[d][i]]
  BY <1>1, <1>3 DEF ChannelIs, KeepsCharges
<1>7. s # <<>>
  <2>1. Len(s) # 0
    BY <1>5
  <2> QED BY <2>1
<1>8. PICK u : /\ u = Tail(s) /\ u \in Seq(Charges)
               /\ Len(u) = n /\ \A i \in 1..n : u[i] = s[i + 1]
  <2>1. /\ Len(s) \in Nat \ {0} /\ Len(Tail(s)) = Len(s) - 1
        /\ \A i \in 1..Len(Tail(s)) : Tail(s)[i] = s[i + 1]
    BY <1>4, <1>7, TailAt
  <2>2. Tail(s) \in Seq(Charges)
    BY <1>4, <1>7, HeadTailProperties
  <2>3. Len(s) - 1 = n
    BY <1>5
  <2> QED BY <2>1, <2>2, <2>3
<1>9. Len(t) = Len(u) /\ \A j \in 1..Len(t) : t[j] = u[j]
  BY <1>5, <1>6, <1>8
<1>10. t = u
  BY <1>4, <1>8, <1>9, SeqEqual
<1> QED BY <1>2, <1>3, <1>7, <1>8, <1>10

-----------------------------------------------------------------------------
(* What the steps of the router do to the channels.                        *)

\* Watches that keep what they have pending, keep it for their DMs.
LEMMA PendingToKept ==
    ASSUME TypeOK, [Next]_vars, PendingKept, NEW d
    PROVE  /\ PendingTo(d)' = PendingTo(d)
           /\ \A w \in PendingTo(d) : pending'[w] = pending[w]
<1>1. \A v \in 1..Len(aio_watches) : pending'[v] = pending[v]
  BY PendingKeptAt DEF TypeOK
<1>2. /\ \A v \in 1..Len(aio_watches) :
            v \in 1..Len(aio_watches') /\ aio_watches'[v] = aio_watches[v]
      /\ \A v \in 1..Len(aio_watches') :
            v \in 1..Len(aio_watches) \/ pending'[v] = NoMbuf
  BY PositionsKept
<1> QED BY <1>1, <1>2 DEF PendingTo

\* What is on its way to a DM is allocated.
LEMMA OnTheWayAllocated ==
    ASSUME DmInv, NEW d \in Dm
    PROVE  /\ \A w \in PendingTo(d) : /\ pending[w] \in Mbuf /\ Held(pending[w])
                                      /\ charge[pending[w]] # Unallocated
           /\ \A i \in 1..Len(queue[d]) : /\ queue[d][i] \in Mbuf /\ Queued(queue[d][i])
                                          /\ charge[queue[d][i]] # Unallocated
<1>1. \A w \in PendingTo(d) : /\ w \in 1..Len(pending) /\ pending[w] \in Mbuf
  BY PendingAt DEF PendingTo, DmInv, TypeOK
<1>2. \A i \in 1..Len(queue[d]) : queue[d][i] \in Mbuf
  BY QueueOfDm, ElementOfSeq DEF DmInv
<1>3. d \in Fd
  BY DmFinite
<1> QED BY <1>1, <1>2, <1>3 DEF DmInv, OwnInv, OwnedOnce, Held, Queued

\* Neither queues nor charges nor what watches have pending changes.
LEMMA QuietChannels ==
    ASSUME TypeOK, ChannelsKnown, ChannelsKnown', [Next]_vars,
           UNCHANGED <<queue, charge>>, PendingKept
    PROVE  \A d \in Dm : Channel(d)' = Channel(d)
<1> SUFFICES ASSUME NEW d \in Dm PROVE Channel(d)' = Channel(d)
  OBVIOUS
<1>1. KeepsPending(d) /\ KeepsCharges(d)
  BY PendingToKept DEF KeepsPending, KeepsCharges
<1> QED BY <1>1, ChannelSame

\* A submission takes nothing off a channel.
LEMMA SubmitChannels ==
    ASSUME DmInv, ChannelsKnown, ChannelsKnown', NEW w \in linked, SubmitNext(w),
           Accepted(w), UNCHANGED <<charge, aio_watches>>
    PROVE  \A d \in Dm : Channel(d)' = Channel(d)
<1> SUFFICES ASSUME NEW d \in Dm PROVE Channel(d)' = Channel(d)
  OBVIOUS
<1> DEFINE q == aio_watches[w].fd
<1>t. /\ TypeOK /\ ListTypeOK /\ w \in 1..Len(aio_watches) /\ q \in Fd /\ d \in Fd
      /\ Len(pending) = Len(aio_watches) /\ queue \in [Fd -> Seq(Mbuf)]
  BY WatchFd, DmFinite DEF DmInv, TypeOK, ListTypeOK, MemoryTypeOK
<1>1. /\ pending[w] = NoMbuf /\ queue[q] # <<>>
      /\ pending' = [pending EXCEPT ![w] = Head(queue[q])]
      /\ queue' = [queue EXCEPT ![q] = Tail(@)]
  BY DEF SubmitNext, IsFirst, ToSubmit, Accepted
<1>2. /\ pending'[w] = Head(queue[q])
      /\ \A v \in 1..Len(aio_watches) : v # w => pending'[v] = pending[v]
  BY <1>t, <1>1, PendingSet
<1>3. CASE q = d
  <2>1. \A v \in 1..Len(aio_watches) : aio_watches[v].fd = d => v = w
    BY <1>t, <1>3 DEF DmInv, DmWatches, OneWatchPerDm
  <2>2. Head(queue[q]) # NoMbuf
    <3>1. Head(queue[q]) \in Mbuf
      BY <1>t, <1>1, HeadTailProperties
    <3> QED BY <3>1, WatchAssumption
  <2>3. PendingTo(d) = {}
    BY <1>1, <2>1 DEF PendingTo
  <2>4. PendingTo(d)' = {w}
    BY <1>t, <1>2, <1>3, <2>1, <2>2 DEF PendingTo
  <2>5. queue'[d] = Tail(queue[d])
    BY <1>t, <1>1, <1>3
  <2> QED BY <1>t, <1>1, <1>2, <1>3, <2>3, <2>4, <2>5, ChannelSubmit
<1>4. CASE q # d
  <2>1. KeepsPending(d)
    BY <1>2, <1>4 DEF KeepsPending, PendingTo
  <2>2. queue'[d] = queue[d] /\ KeepsCharges(d)
    BY <1>t, <1>1, <1>4 DEF KeepsCharges
  <2> QED BY <1>t, <2>1, <2>2, ChannelSame
<1> QED BY <1>3, <1>4

\* A completed write takes one packet off one channel, or off none.
LEMMA WriteChannels ==
    ASSUME DmInv, ChannelsKnown, ChannelsKnown', NEW w \in linked, LoopWrite(w)
    PROVE  \E f \in Fd :
               /\ \A d \in Dm : d # f => Channel(d)' = Channel(d)
               /\ f \in Dm => Channel(f) # <<>> /\ Channel(f)' = Tail(Channel(f))
<1>f. PICK f \in Fd : f = aio_watches[w].fd
  BY WatchFd DEF DmInv, TypeOK, ListTypeOK
<1>t. /\ TypeOK /\ ListTypeOK /\ w \in 1..Len(aio_watches)
      /\ Len(pending) = Len(aio_watches) /\ charge \in [Mbuf -> Charges]
  BY DEF DmInv, TypeOK, ListTypeOK, MemoryTypeOK, Charges
<1>1. /\ pending' = [pending EXCEPT ![w] = NoMbuf]
      /\ charge' = [charge EXCEPT ![pending[w]] = Unallocated]
      /\ UNCHANGED <<queue, aio_watches>>
      /\ pending[w] \in Mbuf
  BY <1>t, PendingMbuf DEF LoopWrite, CompleteWrite, lists
<1>2. /\ pending'[w] = NoMbuf
      /\ \A v \in 1..Len(aio_watches) : v # w => pending'[v] = pending[v]
  BY <1>t, <1>1, PendingSet
<1>3. Held(pending[w])
  BY <1>t DEF Held
<1>4. \A m \in Mbuf : m # pending[w] => charge'[m] = charge[m]
  BY <1>t, <1>1
<1>5. \A d \in Dm : KeepsCharges(d)
  <2> SUFFICES ASSUME NEW d \in Dm, NEW i \in 1..Len(queue[d])
               PROVE  charge'[queue[d][i]] = charge[queue[d][i]]
    BY DEF KeepsCharges
  <2>1. queue[d][i] \in Mbuf /\ Queued(queue[d][i])
    BY OnTheWayAllocated
  <2>2. queue[d][i] # pending[w]
    BY <1>3, <2>1 DEF DmInv, OwnInv, OwnedOnce
  <2> QED BY <1>4, <2>1, <2>2
<1>6. ASSUME NEW d \in Dm, d # f PROVE Channel(d)' = Channel(d)
  <2>1. PendingTo(d)' = PendingTo(d) /\ \A v \in PendingTo(d) : pending'[v] = pending[v]
    BY <1>f, <1>1, <1>2, <1>6 DEF PendingTo
  <2>2. \A v \in PendingTo(d) : charge'[pending[v]] = charge[pending[v]]
    <3> SUFFICES ASSUME NEW v \in PendingTo(d)
                 PROVE  charge'[pending[v]] = charge[pending[v]]
      OBVIOUS
    <3>1. v # w /\ v \in 1..Len(pending) /\ w \in 1..Len(pending)
      BY <1>f, <1>t, <1>6 DEF PendingTo
    <3>2. pending[v] \in Mbuf /\ pending[v] # NoMbuf
      BY OnTheWayAllocated DEF PendingTo
    <3>3. pending[v] # pending[w]
      BY <3>1, <3>2 DEF DmInv, OwnInv, HoldersDisjoint
    <3> QED BY <1>4, <3>2, <3>3
  <2> QED BY <1>t, <1>1, <1>5, <2>1, <2>2, ChannelSame DEF KeepsPending
<1>7. ASSUME f \in Dm PROVE Channel(f) # <<>> /\ Channel(f)' = Tail(Channel(f))
  <2>1. \A v \in 1..Len(aio_watches) : aio_watches[v].fd = f => v = w
    BY <1>f, <1>t, <1>7 DEF DmInv, DmWatches, OneWatchPerDm
  <2>2. pending[w] # NoMbuf
    BY <1>1, WatchAssumption
  <2>3. PendingTo(f) # {}
    BY <1>f, <1>t, <2>2 DEF PendingTo
  <2>4. PendingTo(f)' = {}
    BY <1>1, <1>2, <2>1 DEF PendingTo
  <2> QED BY <1>t, <1>1, <1>5, <1>7, <2>3, <2>4, ChannelDeliver
<1> QED BY <1>6, <1>7

\* A packet of fl enters the channels of the DMs in D.
Sent(D, fl) ==
    \A d \in Dm : Channel(d)' = IF d \in D THEN Append(Channel(d), fl) ELSE Channel(d)

\* Fresh buffers, charged to fl, are appended to the queues of D.
FreshPush(D, fl, f) ==
    /\ f \in [D -> FreeMbufs]
    /\ \A d \in Dm : queue'[d] = IF d \in D THEN Append(queue[d], f[d]) ELSE queue[d]
    /\ \A m \in Mbuf : charge'[m] = IF \E d \in D : f[d] = m THEN fl ELSE charge[m]
    /\ \A d \in Dm : /\ PendingTo(d)' = PendingTo(d)
                     /\ \A w \in PendingTo(d) : pending'[w] = pending[w]

\* Such a push is seen on the channels of D and on no other.
LEMMA PushSent ==
    ASSUME DmInv, ChannelsKnown, ChannelsKnown', NEW D, NEW fl \in Flow \cup {NoFlow},
           NEW f, FreshPush(D, fl, f)
    PROVE  Sent(D, fl)
<1> SUFFICES ASSUME NEW d \in Dm
             PROVE  Channel(d)' = IF d \in D THEN Append(Channel(d), fl) ELSE Channel(d)
  BY DEF Sent
<1>1. TypeOK /\ fl \in Charges
  BY DEF DmInv, Charges
<1>2. \A e \in D : f[e] \in Mbuf /\ charge[f[e]] = Unallocated
  BY DEF FreshPush, FreeMbufs
<1>3. \A m \in Mbuf : charge[m] # Unallocated => charge'[m] = charge[m]
  BY <1>2 DEF FreshPush
<1>4. KeepsPending(d) /\ KeepsCharges(d)
  BY <1>3, OnTheWayAllocated DEF FreshPush, KeepsPending, KeepsCharges
<1>5. CASE d \in D
  <2>1. f[d] \in Mbuf /\ charge'[f[d]] = fl /\ queue'[d] = Append(queue[d], f[d])
    BY <1>2, <1>5 DEF FreshPush
  <2>2. PICK m \in Mbuf : m = f[d]
    BY <2>1
  <2> QED BY <1>1, <1>4, <1>5, <2>1, <2>2, ChannelAppend
<1>6. CASE d \notin D
  <2>1. queue'[d] = queue[d]
    BY <1>6 DEF FreshPush
  <2> QED BY <1>1, <1>4, <1>6, <2>1, ChannelSame
<1> QED BY <1>5, <1>6

\* queue_push_flow.
LEMMA FlowPushSent ==
    ASSUME DmInv, ChannelsKnown, ChannelsKnown', [Next]_vars, NEW D,
           NEW fl \in Flow \cup {NoFlow}, queue_push_flow(D, fl), PendingKept
    PROVE  Sent(D, fl)
<1> DEFINE f == CHOOSE g \in Allocations(D) : TRUE
<1>1. f \in [D -> FreeMbufs]
  BY AllocationChoice DEF queue_push_flow
<1>2. /\ queue' = [q \in Fd |-> IF q \in D THEN Append(queue[q], f[q]) ELSE queue[q]]
      /\ charge' = [m \in Mbuf |-> IF m \in {f[d] : d \in D} THEN fl ELSE charge[m]]
  BY DEF queue_push_flow
<1> HIDE DEF f
<1>3. \A d \in Dm : queue'[d] = IF d \in D THEN Append(queue[d], f[d]) ELSE queue[d]
  BY <1>2, DmFinite
<1>4. \A m \in Mbuf : charge'[m] = IF \E d \in D : f[d] = m THEN fl ELSE charge[m]
  BY <1>2
<1>5. \A d \in Dm : /\ PendingTo(d)' = PendingTo(d)
                    /\ \A w \in PendingTo(d) : pending'[w] = pending[w]
  BY PendingToKept DEF DmInv
<1>6. FreshPush(D, fl, f)
  BY <1>1, <1>3, <1>4, <1>5 DEF FreshPush
<1> QED BY <1>6, PushSent

\* diag_ffs_recv: the receive buffer goes to bulk_out, which is no DM's queue.
LEMMA FfsSent ==
    ASSUME DmInv, ChannelsKnown, ChannelsKnown', NEW w \in linked, diag_ffs_recv(w)
    PROVE  \E D \in {{}} \cup {CommandTargets(Usb, c) : c \in Command} : Sent(D, NoFlow)
<1>1. PICK D \in {{}} \cup {CommandTargets(Usb, c) : c \in Command} :
        /\ Allocations(D) # {}
        /\ queue' = [q \in Fd |->
               IF q \in D THEN Append(queue[q], (CHOOSE f \in Allocations(D) : TRUE)[q])
               ELSE IF q = BulkOut THEN Append(queue[q], pending[w])
               ELSE queue[q]]
        /\ charge' = [m \in Mbuf |->
               IF \E q \in D : (CHOOSE f \in Allocations(D) : TRUE)[q] = m
               THEN NoFlow ELSE charge[m]]
  BY DEF diag_ffs_recv
<1> DEFINE f == CHOOSE g \in Allocations(D) : TRUE
<1>2. f \in [D -> FreeMbufs]
  BY <1>1, AllocationChoice
<1>3. /\ queue' = [q \in Fd |-> IF q \in D THEN Append(queue[q], f[q])
                                ELSE IF q = BulkOut THEN Append(queue[q], pending[w])
                                ELSE queue[q]]
      /\ charge' = [m \in Mbuf |-> IF \E q \in D : f[q] = m THEN NoFlow ELSE charge[m]]
  BY <1>1
<1> HIDE DEF f
<1>4. \A d \in Dm : d \in Fd /\ d # BulkOut
  BY DmFinite, Descriptors DEF Dm, UsbFds
<1>5. \A d \in Dm : queue'[d] = IF d \in D THEN Append(queue[d], f[d]) ELSE queue[d]
  BY <1>3, <1>4
<1>6. \A m \in Mbuf : charge'[m] = IF \E d \in D : f[d] = m THEN NoFlow ELSE charge[m]
  BY <1>3
<1>7. \A d \in Dm : /\ PendingTo(d)' = PendingTo(d)
                    /\ \A v \in PendingTo(d) : pending'[v] = pending[v]
  <2>1. /\ UNCHANGED aio_watches /\ ~aio_watches[w].is_write
        /\ pending' = [pending EXCEPT ![w] = NoMbuf]
    BY DEF diag_ffs_recv, lists
  <2>2. aio_watches[w].fd = BulkOut
    BY <2>1 DEF DmInv, TypeOK, ListTypeOK, BulkOutBuffer
  <2>3. \A v \in 1..Len(aio_watches) : v # w => pending'[v] = pending[v]
    BY <2>1, PendingSet DEF DmInv, TypeOK, ListTypeOK
  <2> QED BY <1>4, <2>1, <2>2, <2>3 DEF PendingTo
<1>8. FreshPush(D, NoFlow, f)
  BY <1>2, <1>5, <1>6, <1>7 DEF FreshPush
<1>9. Sent(D, NoFlow)
  BY <1>8, PushSent
<1> QED BY <1>1, <1>9

-----------------------------------------------------------------------------
(* The watermark as the channels show it.                                  *)

\* The buffer of the packet at place i of d's channel.
BufferAt(d, i) ==
    IF PendingTo(d) = {} THEN queue[d][i]
    ELSE IF i = 1 THEN pending[CHOOSE w \in PendingTo(d) : TRUE]
    ELSE queue[d][i - 1]

\* It is a buffer charged to where the packet is from, taken from d's watch or
\* from d's queue.
LEMMA BufferAtPlace ==
    ASSUME DmInv, NEW d \in Dm, NEW i \in 1..Len(Channel(d))
    PROVE  /\ BufferAt(d, i) \in Mbuf
           /\ charge[BufferAt(d, i)] = Channel(d)[i]
           /\ \/ /\ i = 1
                 /\ \E w \in PendingTo(d) : BufferAt(d, i) = pending[w]
              \/ /\ PendingTo(d) # {} => i - 1 \in 1..Len(queue[d])
                                         /\ BufferAt(d, i) = queue[d][i - 1]
                 /\ PendingTo(d) = {} => i \in 1..Len(queue[d])
                                         /\ BufferAt(d, i) = queue[d][i]
<1>1. ChannelIs(d, Channel(d))
  BY WatchedChannels DEF ChannelsKnown
<1>2. PICK n \in Nat : n = Len(queue[d])
  BY QueueOfDm DEF DmInv
<1>3. CASE PendingTo(d) = {}
  <2>1. Len(Channel(d)) = n /\ Channel(d)[i] = charge[queue[d][i]] /\ i \in 1..n
    BY <1>1, <1>2, <1>3 DEF ChannelIs
  <2>2. BufferAt(d, i) = queue[d][i]
    BY <1>3 DEF BufferAt
  <2> QED BY <1>2, <1>3, <2>1, <2>2, OnTheWayAllocated
<1>4. CASE PendingTo(d) # {}
  <2>1. PICK w : /\ PendingTo(d) = {w}
                 /\ Len(Channel(d)) = n + 1
                 /\ Channel(d)[1] = charge[pending[w]]
                 /\ \A j \in 1..n : Channel(d)[j + 1] = charge[queue[d][j]]
    BY <1>1, <1>2, <1>4 DEF ChannelIs
  <2>2. CASE i = 1
    <3>1. BufferAt(d, i) = pending[w]
      BY <1>4, <2>1, <2>2 DEF BufferAt
    <3> QED BY <2>1, <2>2, <3>1, OnTheWayAllocated
  <2>3. CASE i # 1
    <3>1. i - 1 \in 1..n /\ (i - 1) + 1 = i
      BY <2>1, <2>3
    <3>2. BufferAt(d, i) = queue[d][i - 1]
      BY <1>4, <2>3 DEF BufferAt
    <3>3. Channel(d)[(i - 1) + 1] = charge[queue[d][i - 1]]
      BY <2>1, <3>1
    <3> QED BY <1>2, <1>4, <3>1, <3>2, <3>3, OnTheWayAllocated
  <2> QED BY <2>2, <2>3
<1> QED BY <1>3, <1>4

\* Two places have two buffers.
LEMMA BuffersDiffer ==
    ASSUME DmInv, NEW d \in Dm, NEW e \in Dm, NEW i \in 1..Len(Channel(d)),
           NEW j \in 1..Len(Channel(e)), BufferAt(d, i) = BufferAt(e, j)
    PROVE  d = e /\ i = j
<1> DEFINE m == BufferAt(d, i)
<1>0. m \in Mbuf /\ d \in Fd /\ e \in Fd /\ i \in Int /\ j \in Int
  BY BufferAtPlace, DmFinite
<1>1. \/ i = 1 /\ \E w \in PendingTo(d) : m = pending[w]
      \/ \E k \in 1..Len(queue[d]) :
            /\ m = queue[d][k]
            /\ k = IF PendingTo(d) = {} THEN i ELSE i - 1
  BY BufferAtPlace
<1>2. \/ j = 1 /\ \E w \in PendingTo(e) : m = pending[w]
      \/ \E k \in 1..Len(queue[e]) :
            /\ m = queue[e][k]
            /\ k = IF PendingTo(e) = {} THEN j ELSE j - 1
  <2>1. \/ j = 1 /\ \E w \in PendingTo(e) : BufferAt(e, j) = pending[w]
        \/ \E k \in 1..Len(queue[e]) :
              /\ BufferAt(e, j) = queue[e][k]
              /\ k = IF PendingTo(e) = {} THEN j ELSE j - 1
    BY BufferAtPlace
  <2>2. BufferAt(e, j) = m
    OBVIOUS
  <2> HIDE DEF m
  <2> QED BY <2>1, <2>2
<1> HIDE DEF m
<1>3. ~(Queued(m) /\ Held(m))
  BY <1>0 DEF DmInv, OwnInv, OwnedOnce
<1>4. \A f \in Dm : \A w \in PendingTo(f) :
         /\ w \in 1..Len(pending) /\ aio_watches[w].fd = f /\ pending[w] # NoMbuf
  BY DEF PendingTo, DmInv, TypeOK, ListTypeOK
<1>5. CASE \E w \in PendingTo(d) : m = pending[w]
  <2>1. PICK v \in PendingTo(d) : m = pending[v]
    BY <1>5
  <2>2. Held(m)
    BY <1>4, <2>1 DEF Held
  <2>3. ~Queued(m)
    BY <1>3, <2>2
  <2>4. PICK w \in PendingTo(e) : m = pending[w] /\ j = 1
    BY <1>0, <1>2, <2>3 DEF Queued
  <2>5. v = w
    BY <1>4, <2>1, <2>4 DEF DmInv, OwnInv, HoldersDisjoint
  <2>6. i = 1
    BY <1>0, <1>1, <2>3 DEF Queued
  <2> QED BY <1>4, <2>4, <2>5, <2>6
<1>6. CASE \E k \in 1..Len(queue[d]) :
              /\ m = queue[d][k]
              /\ k = IF PendingTo(d) = {} THEN i ELSE i - 1
  <2>1. PICK k \in 1..Len(queue[d]) : /\ m = queue[d][k]
                                      /\ k = IF PendingTo(d) = {} THEN i ELSE i - 1
    BY <1>6
  <2>2. ~Held(m)
    BY <1>0, <1>3, <2>1 DEF Queued
  <2>3. PICK l \in 1..Len(queue[e]) : /\ m = queue[e][l]
                                      /\ l = IF PendingTo(e) = {} THEN j ELSE j - 1
    BY <1>2, <1>4, <2>2 DEF Held
  <2>4. d = e /\ k = l
    BY SMTT(30), <1>0, <2>1, <2>3 DEF DmInv, OwnInv, QueuesDisjoint
  <2> QED BY <1>0, <2>1, <2>3, <2>4
<1> QED BY <1>1, <1>5, <1>6

\* A peripheral has at most as many packets on their way as its counter says.
LEMMA OnTheWayCounted ==
    ASSUME DmInv, FlowBalanced, NEW p \in Flow
    PROVE  /\ Cardinality(Promise!OnTheWay(p)) <= packets[p]
           /\ Cardinality(Promise!OnTheWay(p)) \in Nat
<1> DEFINE T == Promise!OnTheWay(p)
           f == [x \in T |-> BufferAt(x[1], x[2])]
<1>1. \A x \in T : \E d \in Dm : \E i \in 1..Len(Channel(d)) :
         x = <<d, i>> /\ Channel(d)[i] = p
  BY DEF Promise!OnTheWay
<1>2. \A x \in T : f[x] \in Charged(p)
  <2> SUFFICES ASSUME NEW x \in T PROVE BufferAt(x[1], x[2]) \in Charged(p)
    OBVIOUS
  <2>1. PICK d \in Dm : \E i \in 1..Len(Channel(d)) : x = <<d, i>> /\ Channel(d)[i] = p
    BY <1>1
  <2>2. PICK i \in 1..Len(Channel(d)) : x = <<d, i>> /\ Channel(d)[i] = p
    BY <2>1
  <2>3. x[1] = d /\ x[2] = i
    BY <2>2
  <2> QED BY <2>2, <2>3, BufferAtPlace DEF Charged
<1>3. \A x, y \in T : f[x] = f[y] => x = y
  <2> SUFFICES ASSUME NEW x \in T, NEW y \in T,
                      BufferAt(x[1], x[2]) = BufferAt(y[1], y[2])
               PROVE  x = y
    OBVIOUS
  <2>1. PICK d \in Dm : \E i \in 1..Len(Channel(d)) : x = <<d, i>>
    BY <1>1
  <2>2. PICK i \in 1..Len(Channel(d)) : x = <<d, i>>
    BY <2>1
  <2>3. PICK e \in Dm : \E j \in 1..Len(Channel(e)) : y = <<e, j>>
    BY <1>1
  <2>4. PICK j \in 1..Len(Channel(e)) : y = <<e, j>>
    BY <2>3
  <2>5. x[1] = d /\ x[2] = i /\ y[1] = e /\ y[2] = j
    BY <2>2, <2>4
  <2>6. d = e /\ i = j
    BY <2>5, BuffersDiffer
  <2> QED BY <2>2, <2>4, <2>6
<1>4. f \in Injection(T, Charged(p))
  BY <1>2, <1>3 DEF Injection, IsInjective
<1>5. IsFiniteSet(Charged(p))
  BY WatchAssumption, FS_Subset DEF Charged
<1>6. IsFiniteSet(T) /\ Cardinality(T) <= Cardinality(Charged(p))
  <2> HIDE DEF T, f
  <2> QED BY <1>4, <1>5, FS_Injection DEF ExistsInjection
<1>7. Cardinality(T) \in Nat
  BY <1>6, FS_CardinalityType
<1> HIDE DEF T
<1>8. Cardinality(T) <= packets[p]
  BY <1>6 DEF FlowBalanced
<1> QED BY <1>7, <1>8 DEF T

-----------------------------------------------------------------------------
(* Every step of the router is a step of Broadcast.                        *)

\* An enabled DM is registered, and with a gadget the USB host always is.
EnabledRegistered ==
    /\ enabled \subseteq Registered
    /\ UseUsb => Usb \in Registered

\* The steps as the channels and their listeners see them.
LEMMA ChannelSteps ==
    ASSUME TypeOK, [Next]_vars
    PROVE  \/ UNCHANGED <<queue, charge, diag_clients, enabled>> /\ PendingKept
           \/ \E c \in Client : unix_listen(c) \/ DmRecvCommand(c)
           \/ ep0_recv
           \/ \E w \in linked : /\ SubmitNext(w) /\ Accepted(w)
                                /\ UNCHANGED <<charge, aio_watches, diag_clients, enabled>>
           \/ \E w \in linked : LoopWrite(w) \/ diag_ffs_recv(w)
           \/ \E p \in Perif : /\ p \in rfds /\ dm_broadcast(p) /\ PendingKept
                               /\ UNCHANGED <<diag_clients, enabled>>
           \/ /\ dm_broadcast(NoFlow) /\ PendingKept
              /\ UNCHANGED <<diag_clients, enabled>>
<1> DEFINE Quiet == UNCHANGED <<queue, charge, diag_clients, enabled>> /\ PendingKept
<1>1. CASE Loop
  <2>1. ASSUME NEW w \in linked,
               (\E res \in Results : SubmitSocket(w, res)) \/ SubmitEndpoint(w)
        PROVE  /\ SubmitNext(w) /\ Accepted(w)
               /\ UNCHANGED <<charge, aio_watches, diag_clients, enabled>>
    BY <2>1 DEF SubmitSocket, SubmitSync, SubmitEndpoint, SubmitAsync, lists, dmVars
  <2>2. ASSUME NEW w \in linked, SubmitFailed(w) \/ LoopAbort(w) \/ LoopEagain(w)
        PROVE  Quiet
    BY <2>2 DEF SubmitFailed, SubmitRefused, LoopAbort, CompleteAbort, LoopEagain,
                CompleteEagain, memory, dmVars, PendingKept
  <2>3. CASE LoopSelect \/ LoopReadEventfd \/ LoopGetEvents \/ LoopCompleteDone
             \/ LoopDispatchDone
    BY <2>3 DEF LoopSelect, Select, LoopReadEventfd, ReadEventfd, LoopGetEvents,
                GetEvents, LoopCompleteDone, CompleteDone, LoopDispatchDone,
                DispatchDone, memory, dmVars, PendingKept
  <2>4. ASSUME NEW c \in Client,
               DmRecv(c) \/ DmRecvEagain(c) \/ DmRecvEof(c) \/ DmRecvError(c)
        PROVE  Quiet
    BY <2>4 DEF DmRecv, DmRecvEagain, DmRecvEof, DmRecvError, memory, PendingKept
  <2>5. ASSUME NEW p \in Perif, qrtr_data_recv(p)
        PROVE  \/ Quiet
               \/ /\ p \in rfds /\ dm_broadcast(p) /\ PendingKept
                  /\ UNCHANGED <<diag_clients, enabled>>
    <3>1. PICK k \in Packets :
            /\ Receive(p, k)
            /\ \/ qrtr_data_recv_data(p, k)
               \/ qrtr_data_recv_bye(p, k)
               \/ UNCHANGED <<memory, pending>>
      BY <2>5 DEF qrtr_data_recv
    <3>2. p \in rfds /\ UNCHANGED <<diag_clients, enabled>>
      BY <3>1 DEF Receive, Dispatch, ToDispatch
    <3> QED BY <3>1, <3>2 DEF qrtr_data_recv_data, qrtr_data_recv_bye, watch_add_aio,
                              memory, PendingKept
  <2>6. ASSUME NEW p \in Perif, qrtr_cmd_recv(p)
        PROVE  \/ Quiet
               \/ /\ dm_broadcast(NoFlow) /\ PendingKept
                  /\ UNCHANGED <<diag_clients, enabled>>
    <3>1. \/ dm_broadcast(NoFlow) /\ UNCHANGED pending
          \/ watch_add_aio(cmd_fd[p], TRUE) /\ UNCHANGED memory
          \/ UNCHANGED <<memory, pending>>
      BY <2>6 DEF qrtr_cmd_recv
    <3>2. UNCHANGED <<diag_clients, enabled>>
      BY <2>6 DEF qrtr_cmd_recv, Receive
    <3> QED BY <3>1, <3>2 DEF watch_add_aio, memory, PendingKept
  <2>7. CASE Handlers
    BY <2>4, <2>5, <2>6, <2>7 DEF Handlers
  <2> QED BY <1>1, <2>1, <2>2, <2>3, <2>7 DEF Loop
<1>2. CASE Environment
  BY <1>2 DEF Environment, ClientConnect, ClientClose, ClientSend, PerifSend,
              PerifCommandSocket, ServerUpDown, Plug, Unplug, EndpointComplete,
              KernelComplete, watchVars, memory, dmVars, PendingKept
<1>3. CASE UNCHANGED vars
  BY <1>3 DEF vars, watchVars, memory, dmVars, PendingKept
<1> QED BY <1>1, <1>2, <1>3 DEF Next

\* dm_add puts a DM at the end of the list.
LEMMA RegisteredAppend ==
    ASSUME TypeOK, NEW c \in Client, unix_listen(c)
    PROVE  Registered' = Registered \cup {c} /\ enabled' = enabled \cup {c}
<1>1. /\ diag_clients \in Seq(Dm) /\ c \in Dm
      /\ diag_clients' = Append(diag_clients, c) /\ enabled' = enabled \cup {c}
  BY DEF unix_listen, TypeOK, DmTypeOK, Dm
<1>2. /\ Len(diag_clients) \in Nat /\ Len(diag_clients') = Len(diag_clients) + 1
      /\ \A i \in 1..Len(diag_clients) : diag_clients'[i] = diag_clients[i]
      /\ diag_clients'[Len(diag_clients) + 1] = c
  BY <1>1, AppendAt
<1>3. 1..Len(diag_clients') = 1..Len(diag_clients) \cup {Len(diag_clients) + 1}
  BY <1>2
<1> QED BY <1>1, <1>2, <1>3 DEF Registered

\* Every step keeps enabled DMs registered.
LEMMA NextEnabledRegistered ==
    TypeOK /\ DmWatches /\ EnabledRegistered /\ [Next]_vars => EnabledRegistered'
<1> SUFFICES ASSUME TypeOK, DmWatches, EnabledRegistered, [Next]_vars
             PROVE  EnabledRegistered'
  OBVIOUS
<1>1. CASE UNCHANGED <<diag_clients, enabled>>
  BY <1>1 DEF EnabledRegistered, Registered
<1>2. ASSUME NEW c \in Client, unix_listen(c) PROVE EnabledRegistered'
  BY <1>2, RegisteredAppend DEF EnabledRegistered
<1>3. CASE ep0_recv
  <2>1. Registered' = Registered
    BY <1>3 DEF ep0_recv, Registered
  <2>2. enabled' \subseteq enabled \/ (ep0 = "enable" /\ enabled' = enabled \cup {Usb})
    BY <1>3 DEF ep0_recv
  <2>3. ep0 = "enable" => UseUsb
    BY DEF DmWatches, EndpointsWatched
  <2> QED BY <2>1, <2>2, <2>3 DEF EnabledRegistered
<1>4. ASSUME NEW c \in Client, DmRecvCommand(c) PROVE EnabledRegistered'
  BY <1>1, <1>4 DEF DmRecvCommand, dmVars
<1>5. ASSUME NEW w \in linked, LoopWrite(w) \/ diag_ffs_recv(w) PROVE EnabledRegistered'
  BY <1>1, <1>5 DEF LoopWrite, diag_ffs_recv, dmVars
<1> QED BY <1>1, <1>2, <1>3, <1>4, <1>5, ChannelSteps

\* EnabledRegistered holds in every reachable state.
LEMMA EnabledRegisteredAlways == Spec => []EnabledRegistered
<1>1. Init => EnabledRegistered
  <2> SUFFICES ASSUME Init, UseUsb PROVE Usb \in Registered
    BY DEF Init, EnabledRegistered
  <2>1. diag_clients = <<Usb>>
    BY DEF Init
  <2> QED BY <2>1 DEF Registered
<1> QED BY <1>1, NextEnabledRegistered, TypeCorrect, DmWatchesAlways, PTL DEF Spec

\* A command is answered on the channel of its DM, if that listens, or on none.
LEMMA CommandSent ==
    ASSUME EnabledRegistered, NEW d \in Dm, NEW c \in Command,
           Sent(CommandTargets(d, c), NoFlow), UNCHANGED Listeners
    PROVE  [Promise!Next]_<<[e \in Dm |-> Channel(e)], Listeners>>
<1>1. CASE Route[c] # {}
  <2>1. CommandTargets(d, c) \cap Dm = {}
    <3>1. Route[c] \subseteq Perif
      BY RouterAssumption
    <3>2. CommandTargets(d, c) \subseteq CmdFd
      BY <1>1, <3>1 DEF CommandTargets, CmdFd
    <3> QED BY <3>2, Descriptors DEF Dm, UsbFds
  <2>2. \A e \in Dm : Channel(e)' = Channel(e)
    BY <2>1 DEF Sent
  <2> QED BY <2>2
<1>2. CASE Route[c] = {} /\ d \notin enabled
  <2>1. \A e \in Dm : Channel(e)' = Channel(e)
    BY <1>2 DEF Sent, CommandTargets
  <2> QED BY <2>1
<1>3. CASE Route[c] = {} /\ d \in enabled
  <2>1. d \in Listeners /\ CommandTargets(d, c) = {d}
    BY <1>3 DEF Listeners, EnabledRegistered, CommandTargets
  <2>2. \A e \in Dm : Channel(e)' = IF e \in {d} THEN Append(Channel(e), NoFlow)
                                                 ELSE Channel(e)
    BY <2>1 DEF Sent
  <2>3. Promise!Answer(d)
    BY <2>1, <2>2 DEF Promise!Answer, Promise!Send
  <2> QED BY <2>3 DEF Promise!Next
<1> QED BY <1>1, <1>2, <1>3

\* Every step implements a step of the promise, or none.
LEMMA NextBroadcast ==
    ASSUME DmInv, ChannelsKnown, ChannelsKnown', FlowBalanced, FlowInv,
           EnabledRegistered, [Next]_vars
    PROVE  [Promise!Next]_<<[d \in Dm |-> Channel(d)], Listeners>>
<1>t. TypeOK
  BY DEF DmInv
<1>0. ASSUME \A d \in Dm : Channel(d)' = Channel(d), UNCHANGED Listeners
      PROVE  UNCHANGED <<[d \in Dm |-> Channel(d)], Listeners>>
  BY <1>0
<1>l. ASSUME UNCHANGED <<diag_clients, enabled>> PROVE UNCHANGED Listeners
  BY <1>l DEF Listeners, Registered
<1>1. CASE UNCHANGED <<queue, charge, diag_clients, enabled>> /\ PendingKept
  <2>1. \A d \in Dm : Channel(d)' = Channel(d)
    BY <1>t, <1>1, QuietChannels
  <2> QED BY <1>0, <1>l, <1>1, <2>1
<1>2. ASSUME NEW c \in Client, unix_listen(c)
      PROVE  Promise!Next
  <2>1. \A d \in Dm : Channel(d)' = Channel(d)
    BY <1>t, <1>2, QuietChannels DEF unix_listen, memory, watch_add_aio, PendingKept
  <2>2. Listeners' = Listeners \cup {c} /\ c \in Dm
    BY <1>t, <1>2, RegisteredAppend DEF Listeners, Dm
  <2>3. Promise!Join(c)
    BY <2>1, <2>2 DEF Promise!Join
  <2> QED BY <2>2, <2>3 DEF Promise!Next
<1>3. CASE ep0_recv
  <2>1. \A d \in Dm : Channel(d)' = Channel(d)
    BY <1>t, <1>3, QuietChannels DEF ep0_recv, memory, watch_add_aio, PendingKept
  <2>2. /\ Registered' = Registered /\ Usb \in Dm
        /\ \/ ep0 = "enable" /\ enabled' = enabled \cup {Usb}
           \/ enabled' = enabled \ {Usb}
    BY <1>3 DEF ep0_recv, Registered, Dm
  <2>3. CASE ep0 = "enable" /\ enabled' = enabled \cup {Usb}
    <3>1. Usb \in Registered
      BY <2>3 DEF EnabledRegistered, DmInv, DmWatches, EndpointsWatched
    <3>2. Listeners' = Listeners \cup {Usb}
      BY <2>2, <2>3, <3>1 DEF Listeners
    <3>3. Promise!Join(Usb)
      BY <2>1, <3>2 DEF Promise!Join
    <3> QED BY <2>2, <3>3 DEF Promise!Next
  <2>4. CASE enabled' = enabled \ {Usb}
    <3>1. Listeners' = Listeners \ {Usb}
      BY <2>2, <2>4 DEF Listeners
    <3>2. Promise!Leave(Usb)
      BY <2>1, <3>1 DEF Promise!Leave
    <3> QED BY <2>2, <3>2 DEF Promise!Next
  <2> QED BY <2>2, <2>3, <2>4
<1>4. ASSUME NEW w \in linked, SubmitNext(w), Accepted(w),
             UNCHANGED <<charge, aio_watches, diag_clients, enabled>>
      PROVE  UNCHANGED <<[d \in Dm |-> Channel(d)], Listeners>>
  <2>1. \A d \in Dm : Channel(d)' = Channel(d)
    BY <1>4, SubmitChannels
  <2> QED BY <1>0, <1>l, <1>4, <2>1
<1>5. ASSUME NEW w \in linked, LoopWrite(w)
      PROVE  [Promise!Next]_<<[d \in Dm |-> Channel(d)], Listeners>>
  <2>1. PICK f \in Fd :
           /\ \A d \in Dm : d # f => Channel(d)' = Channel(d)
           /\ f \in Dm => Channel(f) # <<>> /\ Channel(f)' = Tail(Channel(f))
    BY <1>5, WriteChannels
  <2>2. UNCHANGED Listeners
    BY <1>l, <1>5 DEF LoopWrite, dmVars
  <2>3. CASE f \in Dm
    <3>1. Promise!Deliver(f)
      BY <2>1, <2>2, <2>3 DEF Promise!Deliver
    <3> QED BY <2>3, <3>1 DEF Promise!Next
  <2>4. CASE f \notin Dm
    BY <1>0, <2>1, <2>2, <2>4
  <2> QED BY <2>3, <2>4
<1>6. ASSUME NEW w \in linked, diag_ffs_recv(w)
      PROVE  [Promise!Next]_<<[d \in Dm |-> Channel(d)], Listeners>>
  <2>1. PICK D \in {{}} \cup {CommandTargets(Usb, c) : c \in Command} : Sent(D, NoFlow)
    BY <1>6, FfsSent
  <2>2. UNCHANGED Listeners
    BY <1>l, <1>6 DEF diag_ffs_recv, dmVars
  <2>3. CASE D = {}
    BY <1>0, <2>1, <2>2, <2>3 DEF Sent
  <2>4. CASE D # {}
    <3>1. PICK c \in Command : D = CommandTargets(Usb, c)
      BY <2>4
    <3>2. Sent(CommandTargets(Usb, c), NoFlow)
      BY <2>1, <3>1
    <3>3. Usb \in Dm
      BY DEF Dm
    <3> QED BY <2>2, <3>2, <3>3, CommandSent
  <2> QED BY <2>3, <2>4
<1>7. ASSUME NEW c \in Client, DmRecvCommand(c)
      PROVE  [Promise!Next]_<<[d \in Dm |-> Channel(d)], Listeners>>
  <2>1. rx[c] \in Seq(Command) /\ rx[c] # <<>>
    BY <1>t, <1>7 DEF DmRecvCommand, EnvTypeOK, TypeOK
  <2>2. PICK k \in Command : k = Head(rx[c])
    BY <2>1, HeadTailProperties
  <2>3. /\ queue_push_flow(CommandTargets(c, k), NoFlow) /\ PendingKept
        /\ UNCHANGED <<diag_clients, enabled>>
    BY <1>7, <2>2 DEF DmRecvCommand, diag_client_handle_command, PendingKept, dmVars
  <2>4. PICK D : D = CommandTargets(c, k)
    OBVIOUS
  <2>5. Sent(D, NoFlow)
    BY <2>3, <2>4, FlowPushSent
  <2>6. Sent(CommandTargets(c, k), NoFlow)
    BY <2>4, <2>5
  <2>7. c \in Dm
    BY DEF Dm
  <2> QED BY <1>l, <2>3, <2>6, <2>7, CommandSent
<1>8. ASSUME NEW s \in Flow \cup {NoFlow}, dm_broadcast(s), PendingKept,
             UNCHANGED <<diag_clients, enabled>>,
             s \in Flow => s \in rfds
      PROVE  Promise!Next
  <2>1. PICK D : D = Listeners
    OBVIOUS
  <2>2. Sent(D, s)
    BY <1>8, <2>1, FlowPushSent DEF dm_broadcast
  <2>3. \A d \in Dm : Channel(d)' = IF d \in Listeners THEN Append(Channel(d), s)
                                                       ELSE Channel(d)
    BY <2>1, <2>2 DEF Sent
  <2>4. Promise!Send(Listeners, s)
    BY <2>3 DEF Promise!Send
  <2>5. s \in Flow => Cardinality(Promise!OnTheWay(s)) <= FLOW_WATERMARK
    <3> SUFFICES ASSUME s \in Flow
                 PROVE  Cardinality(Promise!OnTheWay(s)) <= FLOW_WATERMARK
      OBVIOUS
    <3>1. packets[s] <= FLOW_WATERMARK
      BY <1>8 DEF FlowInv, FlowReady
    <3>2. packets[s] \in Nat /\ FLOW_WATERMARK \in Nat
      BY WatchAssumption, <1>t DEF TypeOK, MemoryTypeOK
    <3>3. /\ Cardinality(Promise!OnTheWay(s)) <= packets[s]
          /\ Cardinality(Promise!OnTheWay(s)) \in Nat
      BY OnTheWayCounted
    <3> QED BY <3>1, <3>2, <3>3
  <2>c. \A T : Promise!Cardinality(T) = Cardinality(T)
    BY DEF Promise!Cardinality, Cardinality
  <2>6. Promise!Broadcast(s)
    BY <1>l, <1>8, <2>4, <2>5, <2>c DEF Promise!Broadcast
  <2> QED BY <2>6 DEF Promise!Next
<1>9. /\ \A p \in Perif : p \in Flow \cup {NoFlow} /\ p \in Flow
      /\ NoFlow \in Flow \cup {NoFlow} /\ NoFlow \notin Flow
  BY RouterAssumption, WatchAssumption
<1> QED BY <1>t, <1>1, <1>2, <1>3, <1>4, <1>5, <1>6, <1>7, <1>8, <1>9, ChannelSteps

\* The router implements Broadcast, with every number of clients, peripherals and
\* buffers: a packet dm_broadcast queues enters the channels of all enabled DMs in
\* one step, no packet is lost, duplicated or overtaken between queue_push_flow,
\* io_submit and watch_free_write_aio, and no peripheral over the watermark sends.
THEOREM RouterImplementsBroadcast == Spec => BroadcastSpec
<1>1. Spec => [](DmInv /\ ChannelsKnown)
  BY DmInvAlways, WatchedChannels, PTL
<1>2. Spec => Promise!Init
  BY <1>1, InitBroadcast, PTL DEF Spec
<1>3. /\ DmInv /\ ChannelsKnown /\ ChannelsKnown' /\ FlowBalanced /\ FlowInv
      /\ EnabledRegistered /\ [Next]_vars
      => [Promise!Next]_<<[d \in Dm |-> Channel(d)], Listeners>>
  BY NextBroadcast
<1>4. Spec => [][Promise!Next]_<<[d \in Dm |-> Channel(d)], Listeners>>
  BY <1>1, <1>3, FlowCountersBalanced, FlowInvAlways, EnabledRegisteredAlways, PTL
     DEF Spec
<1> QED BY <1>2, <1>4, PTL DEF BroadcastSpec, Promise!Spec
=============================================================================
