---------------------------- MODULE RouterProofs ----------------------------
(***************************************************************************)
(* Proofs about Router.tla, for every set of clients and peripherals, every *)
(* watermark and every budget: type correctness, the balance of the flow   *)
(* counters, the bound the watermark gives, and that every packet buffer   *)
(* has one owner: no step frees a buffer twice, puts it on two lists or     *)
(* loses it.                                                               *)
(***************************************************************************)
EXTENDS Router, TLAPS, FiniteSetTheorems, SequenceTheorems

-----------------------------------------------------------------------------
(* The buffers queue_push_flow hands out, and what it does to memory.      *)

\* mbuf_alloc: the buffers chosen are distinct and were free.
LEMMA AllocationChoice ==
    ASSUME NEW D, Allocations(D) # {}
    PROVE  /\ (CHOOSE g \in Allocations(D) : TRUE) \in [D -> FreeMbufs]
           /\ \A d, e \in D : (CHOOSE g \in Allocations(D) : TRUE)[d]
                                = (CHOOSE g \in Allocations(D) : TRUE)[e] => d = e
BY DEF Allocations

\* queue_push_flow keeps queues, charges and counters within their types.
LEMMA PushType ==
    ASSUME MemoryTypeOK, NEW D \in SUBSET Fd, NEW fl \in Flow \cup {NoFlow},
           fl \in Flow => IsFiniteSet(D), queue_push_flow(D, fl)
    PROVE  MemoryTypeOK'
<1> DEFINE f == CHOOSE g \in Allocations(D) : TRUE
<1>1. f \in [D -> FreeMbufs]
  BY AllocationChoice DEF queue_push_flow
<1> HIDE DEF f
<1>2. \A q \in D : f[q] \in Mbuf
  BY <1>1 DEF FreeMbufs
<1>3. queue' \in [Fd -> Seq(Mbuf)]
  <2>1. queue' = [q \in Fd |-> IF q \in D THEN Append(queue[q], f[q])
                                         ELSE queue[q]]
    BY DEF queue_push_flow, f
  <2>2. \A q \in Fd : queue[q] \in Seq(Mbuf)
    BY DEF MemoryTypeOK
  <2>3. \A q \in D : Append(queue[q], f[q]) \in Seq(Mbuf)
    BY <1>2, <2>2, AppendProperties
  <2> QED BY <2>1, <2>2, <2>3
<1>4. charge' \in [Mbuf -> Flow \cup {NoFlow, Unallocated}]
  BY DEF queue_push_flow, MemoryTypeOK
<1>5. packets' \in [Flow -> Nat]
  <2>1. fl \in Flow => Cardinality(D) \in Nat
    BY FS_CardinalityType
  <2>2. packets' = [g \in Flow |-> IF g = fl THEN packets[g] + Cardinality(D)
                                             ELSE packets[g]]
    BY DEF queue_push_flow
  <2>3. \A g \in Flow : packets[g] \in Nat
    BY DEF MemoryTypeOK
  <2> QED BY <2>1, <2>2, <2>3
<1> QED BY <1>3, <1>4, <1>5 DEF MemoryTypeOK

\* queue_push_flow increments the flow once for each buffer it charges to it.
LEMMA PushBalanced ==
    ASSUME MemoryTypeOK, FlowBalanced, NEW D \in SUBSET Fd,
           NEW fl \in Flow \cup {NoFlow}, fl \in Flow => IsFiniteSet(D),
           queue_push_flow(D, fl)
    PROVE  FlowBalanced'
<1> DEFINE f == CHOOSE g \in Allocations(D) : TRUE
           used == {f[d] : d \in D}
<1>1. /\ f \in [D -> FreeMbufs]
      /\ \A d, e \in D : f[d] = f[e] => d = e
  BY AllocationChoice DEF queue_push_flow
<1>2. /\ charge' = [m \in Mbuf |-> IF m \in used THEN fl ELSE charge[m]]
      /\ packets' = [g \in Flow |-> IF g = fl THEN packets[g] + Cardinality(D)
                                             ELSE packets[g]]
  BY DEF queue_push_flow
<1> HIDE DEF f
<1>3. used \in SUBSET FreeMbufs
  BY <1>1
<1>4. fl \in Flow => IsFiniteSet(used) /\ Cardinality(used) = Cardinality(D)
  <2>1. f \in Bijection(D, used)
    BY <1>1 DEF Bijection, Injection, Surjection, IsInjective
  <2> QED BY <2>1, FS_Bijection DEF ExistsBijection
<1> SUFFICES ASSUME NEW p \in Flow
             PROVE  packets'[p] = Cardinality(Charged(p)')
  BY DEF FlowBalanced
<1>5. packets[p] = Cardinality(Charged(p)) /\ packets[p] \in Nat
  BY DEF FlowBalanced, MemoryTypeOK
<1>6. IsFiniteSet(Charged(p))
  BY WatchAssumption, FS_Subset DEF Charged
<1>7. Unallocated # p /\ NoFlow # p
  BY WatchAssumption
<1>8. CASE p = fl
  <2>0. IsFiniteSet(used) /\ Cardinality(used) = Cardinality(D)
    BY <1>4, <1>8
  <2>1. Charged(p)' = Charged(p) \cup used
    BY <1>2, <1>3, <1>8 DEF Charged, FreeMbufs
  <2>2. Charged(p) \cap used = {}
    BY <1>3, <1>7 DEF Charged, FreeMbufs
  <2>3. Cardinality(Charged(p)') = Cardinality(Charged(p)) + Cardinality(D)
    <3>1. Cardinality(Charged(p) \cup used)
            = Cardinality(Charged(p)) + Cardinality(used) - Cardinality({})
      BY <2>0, <1>6, <2>2, FS_Union
    <3> QED BY <2>0, <2>1, <3>1, FS_EmptySet, FS_CardinalityType, <1>6
  <2> QED BY <1>2, <1>5, <1>8, <2>3
<1>9. CASE p # fl
  <2>1. Charged(p)' = Charged(p)
    BY <1>2, <1>3, <1>7, <1>9 DEF Charged, FreeMbufs
  <2> QED BY <1>2, <1>5, <1>9, <2>1
<1> QED BY <1>8, <1>9

-----------------------------------------------------------------------------
(* Watch lists.                                                            *)

\* A sequence that grows by one element has one more index.
LEMMA ExtendRange ==
    ASSUME NEW n \in Nat, NEW S, S \subseteq 1..n
    PROVE  S \cup {n + 1} \subseteq 1..(n + 1)
OBVIOUS

\* watch_add_readq and watch_add_writeq extend the list and keep the positions
\* of the watches that are there, which kernel and ring refer to.
LEMMA AddAioType ==
    ASSUME ListTypeOK, KernelTypeOK, NEW fd \in Fd, NEW b \in BOOLEAN,
           watch_add_aio(fd, b), UNCHANGED kernel,
           ListTypeOK!1', ListTypeOK!2'
    PROVE  ListTypeOK' /\ KernelTypeOK'
<1> DEFINE W == [fd : Fd, is_write : BOOLEAN]
           w == [fd |-> fd, is_write |-> b]
<1>1. w \in W
  OBVIOUS
<1>2. /\ aio_watches' \in Seq(W)
      /\ Len(aio_watches') = Len(aio_watches) + 1
  <2>1. aio_watches \in Seq(W) /\ aio_watches' = Append(aio_watches, w)
    BY DEF ListTypeOK, watch_add_aio
  <2> HIDE DEF W, w
  <2> QED BY <1>1, <2>1, AppendProperties
<1>3. /\ pending' \in Seq(Mbuf \cup {NoMbuf})
      /\ Len(pending') = Len(pending) + 1
  BY AppendProperties DEF ListTypeOK, watch_add_aio
<1>4. Len(aio_watches) \in Nat
  BY LenProperties DEF ListTypeOK
<1>5. linked' \subseteq 1..Len(aio_watches')
  <2>1. linked \subseteq 1..Len(aio_watches)
    BY DEF ListTypeOK
  <2>2. linked' = linked \cup {Len(aio_watches) + 1}
    BY DEF watch_add_aio
  <2> QED BY <1>2, <1>4, <2>1, <2>2, ExtendRange
<1>6. ListTypeOK'
  BY <1>2, <1>3, <1>5 DEF ListTypeOK
<1>7. KernelTypeOK'
  <2>1. 1..Len(aio_watches) \subseteq 1..Len(aio_watches')
    BY <1>2, <1>4
  <2> DEFINE R  == [obj : 1..Len(aio_watches), res : Results]
             RR == [obj : 1..Len(aio_watches'), res : Results]
  <2>2. R \subseteq RR
    BY <2>1
  <2>3. ring \in Seq(R)
    BY DEF KernelTypeOK
  <2>4. ring \in Seq(RR)
    <3> HIDE DEF R, RR
    <3> QED BY <2>2, <2>3, SeqMonotonic
  <2> QED BY <2>1, <2>4 DEF KernelTypeOK, kernel
<1> QED BY <1>6, <1>7

\* watch_add_readfd extends the list of read watches.
LEMMA AddReadType ==
    ASSUME ListTypeOK, NEW fd \in Fd, watch_add_readfd(fd)
    PROVE  /\ read_watches' \in Seq(Fd)
           /\ rlinked' \subseteq 1..Len(read_watches')
<1>1. /\ read_watches' \in Seq(Fd)
      /\ Len(read_watches') = Len(read_watches) + 1
  BY AppendProperties DEF ListTypeOK, watch_add_readfd
<1>2. Len(read_watches) \in Nat /\ rlinked \subseteq 1..Len(read_watches)
  BY LenProperties DEF ListTypeOK
<1>3. rlinked' = rlinked \cup {Len(read_watches) + 1}
  BY DEF watch_add_readfd
<1> QED BY <1>1, <1>2, <1>3, ExtendRange

\* Setting pending_aio of a watch on the list.
LEMMA PendingType ==
    ASSUME ListTypeOK, NEW w \in linked, NEW m \in Mbuf \cup {NoMbuf},
           pending' = [pending EXCEPT ![w] = m], UNCHANGED lists
    PROVE  ListTypeOK'
<1>1. w \in 1..Len(pending) /\ pending \in Seq(Mbuf \cup {NoMbuf})
  BY DEF ListTypeOK
<1>2. pending' \in Seq(Mbuf \cup {NoMbuf}) /\ Len(pending') = Len(pending)
  BY <1>1, ExceptSeq
<1> QED BY <1>2 DEF ListTypeOK, lists

\* The descriptor of a watch.
LEMMA WatchFd ==
    ASSUME ListTypeOK, NEW w \in 1..Len(aio_watches)
    PROVE  aio_watches[w].fd \in Fd /\ aio_watches[w].is_write \in BOOLEAN
<1> DEFINE W == [fd : Fd, is_write : BOOLEAN]
<1>1. aio_watches \in Seq(W)
  BY DEF ListTypeOK
<1>2. aio_watches[w] \in W
  <2> HIDE DEF W
  <2> QED BY <1>1, ElementOfSeq
<1> QED BY <1>2

\* io_submit takes the first buffer of the queue.
LEMMA AcceptedType ==
    ASSUME MemoryTypeOK, ListTypeOK, NEW w \in linked, SubmitNext(w),
           Accepted(w), UNCHANGED <<charge, packets, lists>>
    PROVE  MemoryTypeOK' /\ ListTypeOK'
<1> DEFINE q == aio_watches[w].fd
<1>1. q \in Fd
  BY WatchFd DEF ListTypeOK
<1>2. queue[q] \in Seq(Mbuf) /\ queue[q] # <<>>
  BY <1>1 DEF MemoryTypeOK, SubmitNext, ToSubmit, IsFirst
<1>3. Head(queue[q]) \in Mbuf /\ Tail(queue[q]) \in Seq(Mbuf)
  BY <1>2, HeadTailProperties
<1>4. MemoryTypeOK'
  BY <1>1, <1>3 DEF MemoryTypeOK, Accepted
<1>5. ListTypeOK'
  BY <1>3, PendingType DEF Accepted
<1> QED BY <1>4, <1>5

\* A completion on the ring refers to a watch.
LEMMA RingType ==
    ASSUME KernelTypeOK, NEW w \in 1..Len(aio_watches), NEW res \in Results,
           ring' = Append(ring, [obj |-> w, res |-> res]), UNCHANGED aio_watches
    PROVE  ring' \in Seq([obj : 1..Len(aio_watches'), res : Results])
<1> DEFINE R == [obj : 1..Len(aio_watches), res : Results]
           r == [obj |-> w, res |-> res]
<1>1. r \in R /\ ring \in Seq(R) /\ ring' = Append(ring, r)
  BY DEF KernelTypeOK
<1>2. ring' \in Seq(R)
  <2> HIDE DEF R, r
  <2> QED BY <1>1, AppendProperties
<1> QED BY <1>2

-----------------------------------------------------------------------------
(* Type correctness of the steps of the loop.                              *)

\* The DMs are finitely many descriptors.
LEMMA DmFinite == IsFiniteSet(Dm) /\ Dm \subseteq Fd
<1>1. IsFiniteSet(Client \cup {Usb})
  BY RouterAssumption, FS_AddElement
<1> QED BY <1>1, RouterAssumption DEF Dm

\* The DMs a broadcast reaches are finitely many descriptors.
LEMMA ListenersFinite ==
    ASSUME DmTypeOK
    PROVE  Listeners \in SUBSET Dm /\ Listeners \in SUBSET Fd /\ IsFiniteSet(Listeners)
<1>1. Listeners \in SUBSET Dm
  BY DEF Listeners, DmTypeOK
<1> QED BY <1>1, DmFinite, FS_Subset

\* Spending budget keeps it natural.
LEMMA SpendType ==
    ASSUME EnvTypeOK, NEW k \in Kinds, Spend(k)
    PROVE  budget' \in [Kinds -> Nat]
BY DEF EnvTypeOK, Spend

\* Submission steps.
LEMMA SubmitTypeOK ==
    ASSUME TypeOK, NEW w \in linked,
           \/ \E res \in Results : SubmitSocket(w, res)
           \/ SubmitEndpoint(w)
           \/ SubmitFailed(w)
    PROVE  TypeOK'
<1> USE DEF TypeOK
<1>w. w \in 1..Len(aio_watches) /\ w \in Nat
  BY DEF ListTypeOK
<1>1. ASSUME NEW res \in Results, SubmitSocket(w, res)
      PROVE  TypeOK'
  <2>1. SubmitSync(w, res)
    BY <1>1 DEF SubmitSocket
  <2>2. MemoryTypeOK' /\ ListTypeOK'
    BY <2>1, AcceptedType DEF SubmitSync
  <2>3. ring' \in Seq([obj : 1..Len(aio_watches'), res : Results])
    BY <1>w, <2>1, RingType DEF SubmitSync, lists
  <2>4. KernelTypeOK'
    BY <2>1, <2>3 DEF KernelTypeOK, SubmitSync, lists
  <2>5. LoopTypeOK'
    BY <1>w, <2>1 DEF LoopTypeOK, SubmitSync, SubmitNext
  <2>6. DmTypeOK' /\ EnvTypeOK'
    BY <1>1 DEF SubmitSocket, DmTypeOK, EnvTypeOK, dmVars
  <2> QED BY <2>2, <2>4, <2>5, <2>6
<1>2. ASSUME SubmitEndpoint(w)
      PROVE  TypeOK'
  <2>1. SubmitAsync(w)
    BY <1>2 DEF SubmitEndpoint
  <2>2. MemoryTypeOK' /\ ListTypeOK'
    BY <2>1, AcceptedType DEF SubmitAsync
  <2>3. KernelTypeOK'
    BY <1>w, <2>1 DEF KernelTypeOK, SubmitAsync, lists
  <2>4. LoopTypeOK'
    BY <1>w, <2>1 DEF LoopTypeOK, SubmitAsync, SubmitNext
  <2>5. DmTypeOK' /\ EnvTypeOK'
    BY <1>2 DEF SubmitEndpoint, DmTypeOK, EnvTypeOK, dmVars, envVars
  <2> QED BY <2>2, <2>3, <2>4, <2>5
<1>3. ASSUME SubmitFailed(w)
      PROVE  TypeOK'
  <2>1. MemoryTypeOK' /\ ListTypeOK' /\ KernelTypeOK'
    BY <1>3 DEF SubmitFailed, SubmitRefused, MemoryTypeOK, ListTypeOK,
                KernelTypeOK, memory, lists, kernel
  <2>2. LoopTypeOK'
    BY <1>3, <1>w DEF SubmitFailed, SubmitRefused, SubmitNext, LoopTypeOK
  <2>3. DmTypeOK' /\ EnvTypeOK'
    <3>1. budget' \in [Kinds -> Nat]
      BY <1>3, SpendType DEF SubmitFailed, Kinds
    <3> QED BY <1>3, <3>1 DEF SubmitFailed, DmTypeOK, EnvTypeOK, dmVars
  <2> QED BY <2>1, <2>2, <2>3
<1> QED BY <1>1, <1>2, <1>3

\* io_getevents.
LEMMA GetEventsTypeOK ==
    ASSUME TypeOK, LoopGetEvents
    PROVE  TypeOK'
<1> USE DEF TypeOK
<1> DEFINE n == IF Len(ring) < MaxEvents THEN Len(ring) ELSE MaxEvents
           E == [fd : Fd, res : Results]
           R == [obj : 1..Len(aio_watches), res : Results]
<1>1. GetEvents
  BY DEF LoopGetEvents
<1>2. PICK g \in [1..n -> Fd] :
          events' = [i \in 1..n |-> [fd |-> g[i], res |-> ring[i].res]]
  BY <1>1 DEF GetEvents
<1>3. ring \in Seq(R)
  BY DEF KernelTypeOK
<1>4. Len(ring) \in Nat /\ MaxEvents \in Nat /\ n \in Nat /\ n <= Len(ring)
  <2>1. Len(ring) \in Nat
    <3> HIDE DEF R
    <3> QED BY <1>3, LenProperties
  <2> QED BY <2>1, WatchAssumption
<1>5. \A i \in 1..Len(ring) : ring[i] \in R
  <2> HIDE DEF R
  <2> QED BY <1>3, ElementOfSeq
<1>6. \A i \in 1..n : ring[i].res \in Results
  BY <1>4, <1>5
<1>7. \A i \in 1..n : [fd |-> g[i], res |-> ring[i].res] \in E
  BY <1>6
<1>8. events' \in Seq(E)
  <2>1. events' \in [1..n -> E]
    BY <1>2, <1>7
  <2> HIDE DEF n, E
  <2> QED BY <1>4, <2>1, SeqDef
<1>9. ring' \in Seq(R)
  <2>1. ring' = SubSeq(ring, n + 1, Len(ring))
    BY <1>1 DEF GetEvents
  <2>2. \A i \in (n + 1)..Len(ring) : ring[i] \in R
    BY <1>4, <1>5
  <2> HIDE DEF n, R
  <2> QED BY <1>4, <2>1, <2>2, SubSeqProperties
<1>10. MemoryTypeOK' /\ ListTypeOK'
  BY <1>1 DEF GetEvents, MemoryTypeOK, ListTypeOK, memory, lists
<1>11. KernelTypeOK'
  BY <1>1, <1>9 DEF GetEvents, KernelTypeOK, lists
<1>12. LoopTypeOK'
  BY <1>1, <1>8 DEF GetEvents, LoopTypeOK, PC
<1>13. DmTypeOK' /\ EnvTypeOK'
  BY DEF LoopGetEvents, DmTypeOK, EnvTypeOK, dmVars, envVars
<1> QED BY <1>10, <1>11, <1>12, <1>13

\* The steps of the loop that run no callback and touch no list.
LEMMA LoopStepTypeOK ==
    ASSUME TypeOK,
           \/ LoopSelect \/ LoopReadEventfd \/ LoopCompleteDone
           \/ LoopDispatchDone
           \/ \E w \in linked : LoopAbort(w) \/ LoopEagain(w)
    PROVE  TypeOK'
<1> USE DEF TypeOK, MemoryTypeOK, ListTypeOK, DmTypeOK, EnvTypeOK, LoopTypeOK,
            memory, lists, dmVars, envVars, PC
<1>1. CASE LoopSelect
  BY <1>1 DEF LoopSelect, Select, KernelTypeOK, kernel
<1>2. CASE LoopReadEventfd
  BY <1>2 DEF LoopReadEventfd, ReadEventfd, KernelTypeOK
<1>3. CASE LoopCompleteDone
  <2>1. <<>> \in Seq([fd : Fd, res : Results])
    OBVIOUS
  <2> QED BY <1>3, <2>1 DEF LoopCompleteDone, CompleteDone, KernelTypeOK, kernel
<1>4. CASE LoopDispatchDone
  BY <1>4 DEF LoopDispatchDone, DispatchDone, KernelTypeOK, kernel
<1>5. CASE \E w \in linked : LoopAbort(w) \/ LoopEagain(w)
  <2>1. PICK w \in linked : LoopAbort(w) \/ LoopEagain(w)
    BY <1>5
  <2>2. w \in Nat
    OBVIOUS
  <2> QED BY <2>1, <2>2 DEF LoopAbort, LoopEagain, CompleteAbort, CompleteEagain,
                            CompleteNext, KernelTypeOK, kernel
<1> QED BY <1>1, <1>2, <1>3, <1>4, <1>5

\* watch_flow_dec stops at zero.
LEMMA FlowDecType ==
    ASSUME MemoryTypeOK, NEW f
    PROVE  flow_dec(f) \in [Flow -> Nat]
<1>1. CASE f \in Flow /\ packets[f] > 0
  <2>1. packets[f] \in Nat /\ packets[f] - 1 \in Nat
    BY <1>1 DEF MemoryTypeOK
  <2> QED BY <1>1, <2>1 DEF MemoryTypeOK, flow_dec
<1>2. CASE ~(f \in Flow /\ packets[f] > 0)
  BY <1>2 DEF MemoryTypeOK, flow_dec
<1> QED BY <1>1, <1>2

\* Completion of a write frees its buffer.
LEMMA WriteTypeOK ==
    ASSUME TypeOK, NEW w \in linked, LoopWrite(w)
    PROVE  TypeOK'
<1> USE DEF TypeOK
<1>1. CompleteWrite(w)
  BY DEF LoopWrite
<1>2. w \in Nat
  BY DEF ListTypeOK
<1>3. MemoryTypeOK'
  <2>1. packets' \in [Flow -> Nat]
    BY <1>1, FlowDecType DEF CompleteWrite
  <2> QED BY <1>1, <2>1 DEF CompleteWrite, MemoryTypeOK
<1>4. ListTypeOK'
  BY <1>1, PendingType DEF CompleteWrite
<1>5. KernelTypeOK' /\ LoopTypeOK'
  BY <1>1, <1>2 DEF CompleteWrite, CompleteNext, KernelTypeOK, LoopTypeOK, lists,
                    kernel
<1>6. DmTypeOK' /\ EnvTypeOK'
  BY DEF LoopWrite, DmTypeOK, EnvTypeOK, dmVars, envVars
<1> QED BY <1>3, <1>4, <1>5, <1>6

\* The queues a command is put on.
LEMMA TargetsType ==
    ASSUME DmTypeOK, NEW d \in Dm, NEW c \in Command
    PROVE  CommandTargets(d, c) \in SUBSET Fd
BY DmFinite, RouterAssumption DEF CommandTargets

\* A buffer that watch w has pending.
LEMMA PendingMbuf ==
    ASSUME ListTypeOK, NEW w \in linked, ~Asserts(w)
    PROVE  pending[w] \in Mbuf
<1>1. w \in 1..Len(pending) /\ pending \in Seq(Mbuf \cup {NoMbuf})
  BY DEF ListTypeOK
<1>2. pending[w] \in Mbuf \cup {NoMbuf}
  BY <1>1, ElementOfSeq
<1> QED BY <1>2 DEF Asserts

\* Completion of a read on bulk_out.
LEMMA FfsTypeOK ==
    ASSUME TypeOK, NEW w \in linked, diag_ffs_recv(w)
    PROVE  TypeOK'
<1> USE DEF TypeOK
<1>1. pending[w] \in Mbuf
  BY PendingMbuf DEF diag_ffs_recv
<1>2. PICK D \in {{}} \cup {CommandTargets(Usb, c) : c \in Command} :
        /\ Allocations(D) # {}
        /\ queue' = [q \in Fd |->
               IF q \in D THEN Append(queue[q], (CHOOSE f \in Allocations(D) : TRUE)[q])
               ELSE IF q = BulkOut THEN Append(queue[q], pending[w])
               ELSE queue[q]]
        /\ charge' = [m \in Mbuf |->
               IF \E q \in D : (CHOOSE f \in Allocations(D) : TRUE)[q] = m
               THEN NoFlow ELSE charge[m]]
  BY DEF diag_ffs_recv
<1> DEFINE f == CHOOSE g \in Allocations(D) : TRUE
<1>3. f \in [D -> FreeMbufs]
  BY <1>2, AllocationChoice
<1>4. queue' = [q \in Fd |-> IF q \in D THEN Append(queue[q], f[q])
                             ELSE IF q = BulkOut THEN Append(queue[q], pending[w])
                             ELSE queue[q]]
  BY <1>2
<1> HIDE DEF f
<1>5. queue' \in [Fd -> Seq(Mbuf)]
  <2>1. \A q \in Fd : queue[q] \in Seq(Mbuf)
    BY DEF MemoryTypeOK
  <2>2. \A q \in Fd : q \in D => Append(queue[q], f[q]) \in Seq(Mbuf)
    <3>1. \A q \in D : f[q] \in Mbuf
      BY <1>3 DEF FreeMbufs
    <3> QED BY <2>1, <3>1, AppendProperties
  <2>3. \A q \in Fd : Append(queue[q], pending[w]) \in Seq(Mbuf)
    BY <1>1, <2>1, AppendProperties
  <2> QED BY <1>4, <2>1, <2>2, <2>3
<1>6. charge' \in [Mbuf -> Flow \cup {NoFlow, Unallocated}]
  BY <1>2 DEF MemoryTypeOK
<1>7. MemoryTypeOK'
  BY <1>5, <1>6 DEF MemoryTypeOK, diag_ffs_recv
<1>8. ListTypeOK'
  BY PendingType DEF diag_ffs_recv
<1>9. w \in Nat
  BY DEF ListTypeOK
<1>10. KernelTypeOK' /\ LoopTypeOK'
  BY <1>9 DEF diag_ffs_recv, CompleteNext, KernelTypeOK, LoopTypeOK, lists, kernel
<1>11. DmTypeOK' /\ EnvTypeOK'
  BY DEF diag_ffs_recv, DmTypeOK, EnvTypeOK, dmVars, envVars
<1> QED BY <1>7, <1>8, <1>10, <1>11

-----------------------------------------------------------------------------
(* Type correctness of the callbacks.                                      *)

\* Removing watches shortens nothing: positions stay.
LEMMA RemoveType ==
    ASSUME ListTypeOK, UNCHANGED <<read_watches, aio_watches, pending>>,
           rlinked' \subseteq rlinked, linked' \subseteq linked
    PROVE  ListTypeOK'
BY DEF ListTypeOK

\* The callbacks of UNIX clients.
LEMMA ClientTypeOK ==
    ASSUME TypeOK, NEW c \in Client,
           \/ unix_listen(c) \/ DmRecv(c) \/ DmRecvCommand(c)
           \/ DmRecvEagain(c) \/ DmRecvEof(c) \/ DmRecvError(c)
    PROVE  TypeOK'
<1> USE DEF TypeOK
<1>c. c \in Fd /\ c \in Dm
  BY RouterAssumption DEF Dm
<1>1. CASE unix_listen(c)
  <2>1. read_watches' \in Seq(Fd) /\ rlinked' \subseteq 1..Len(read_watches')
    BY <1>1, <1>c, AddReadType DEF unix_listen
  <2>2. ListTypeOK' /\ KernelTypeOK'
    BY <1>1, <1>c, <2>1, AddAioType DEF unix_listen
  <2>3. MemoryTypeOK' /\ LoopTypeOK'
    BY <1>1 DEF unix_listen, MemoryTypeOK, LoopTypeOK, memory
  <2>4. DmTypeOK'
    <3>1. diag_clients' \in Seq(Dm)
      BY <1>1, <1>c, AppendProperties DEF unix_listen, DmTypeOK
    <3> QED BY <1>1, <1>c, <3>1 DEF unix_listen, DmTypeOK
  <2>5. EnvTypeOK'
    BY <1>1 DEF unix_listen, EnvTypeOK
  <2> QED BY <2>2, <2>3, <2>4, <2>5
<1>2. CASE DmRecv(c)
  BY <1>2 DEF DmRecv, MemoryTypeOK, ListTypeOK, KernelTypeOK, LoopTypeOK, DmTypeOK,
              EnvTypeOK, memory, lists, kernel, envVars, PC
<1>3. CASE DmRecvCommand(c)
  <2>1. rx[c] \in Seq(Command) /\ rx[c] # <<>>
    BY <1>3 DEF DmRecvCommand, EnvTypeOK
  <2>2. Head(rx[c]) \in Command /\ Tail(rx[c]) \in Seq(Command)
    BY <2>1, HeadTailProperties
  <2>3. CommandTargets(c, Head(rx[c])) \in SUBSET Fd
    BY <1>c, <2>2, TargetsType
  <2>4. MemoryTypeOK'
    BY <1>3, <2>3, PushType, WatchAssumption
       DEF DmRecvCommand, diag_client_handle_command
  <2>5. EnvTypeOK'
    BY <1>3, <2>2 DEF DmRecvCommand, EnvTypeOK
  <2>6. ListTypeOK' /\ KernelTypeOK' /\ LoopTypeOK' /\ DmTypeOK'
    BY <1>3 DEF DmRecvCommand, ListTypeOK, KernelTypeOK, LoopTypeOK, DmTypeOK,
                lists, kernel, loop, dmVars
  <2> QED BY <2>4, <2>5, <2>6
<1>4. CASE DmRecvEagain(c)
  BY <1>4 DEF DmRecvEagain, Returns, MemoryTypeOK, ListTypeOK, KernelTypeOK,
              LoopTypeOK, DmTypeOK, EnvTypeOK, memory, lists, kernel, envVars, PC
<1>5. CASE DmRecvEof(c)
  <2>1. ListTypeOK'
    BY <1>5, RemoveType DEF DmRecvEof, watch_remove_read, watch_remove_aio
  <2> QED BY <1>5, <2>1 DEF DmRecvEof, Returns, MemoryTypeOK, KernelTypeOK,
              LoopTypeOK, DmTypeOK, EnvTypeOK, memory, kernel, envVars, PC
<1>6. CASE DmRecvError(c)
  <2>1. ListTypeOK'
    BY <1>6, RemoveType DEF DmRecvError, watch_remove_read
  <2> QED BY <1>6, <2>1 DEF DmRecvError, Returns, MemoryTypeOK, KernelTypeOK,
              LoopTypeOK, DmTypeOK, EnvTypeOK, memory, kernel, PC
<1> QED BY <1>1, <1>2, <1>3, <1>4, <1>5, <1>6

\* The callback of ep0.
LEMMA Ep0TypeOK ==
    ASSUME TypeOK, ep0_recv
    PROVE  TypeOK'
<1> USE DEF TypeOK
<1>1. BulkOut \in Fd /\ Usb \in Dm
  BY RouterAssumption DEF Dm
<1>2. ListTypeOK' /\ KernelTypeOK'
  <2>1. ListTypeOK!1' /\ ListTypeOK!2'
    BY DEF ep0_recv, ListTypeOK
  <2>2. CASE ep0 = "enable"
    BY <1>1, <2>1, <2>2, AddAioType DEF ep0_recv
  <2>3. CASE ep0 # "enable"
    BY <2>3 DEF ep0_recv, ListTypeOK, KernelTypeOK, kernel
  <2> QED BY <2>2, <2>3
<1>3. MemoryTypeOK' /\ LoopTypeOK' /\ DmTypeOK' /\ EnvTypeOK'
  BY <1>1 DEF ep0_recv, MemoryTypeOK, LoopTypeOK, DmTypeOK, EnvTypeOK, memory
<1> QED BY <1>2, <1>3

\* Taking a packet from a peripheral's socket.
LEMMA ReceiveType ==
    ASSUME TypeOK, NEW f \in Perif \cup CmdFd, NEW k, Receive(f, k)
    PROVE  EnvTypeOK' /\ LoopTypeOK'
<1> USE DEF TypeOK
<1>1. inbox[f] \in Seq(Packets) /\ inbox[f] # <<>>
  BY DEF Receive, EnvTypeOK
<1>2. Tail(inbox[f]) \in Seq(Packets)
  BY <1>1, HeadTailProperties
<1>3. EnvTypeOK'
  BY <1>2 DEF Receive, EnvTypeOK
<1>4. LoopTypeOK'
  BY DEF Receive, LoopTypeOK
<1> QED BY <1>3, <1>4

\* The callbacks of a peripheral's sockets.
LEMMA PerifTypeOK ==
    ASSUME TypeOK, NEW p \in Perif, qrtr_data_recv(p) \/ qrtr_cmd_recv(p)
    PROVE  TypeOK'
<1> USE DEF TypeOK
<1>p. p \in Fd /\ cmd_fd[p] \in Fd /\ cmd_fd[p] \in CmdFd /\ p \in Flow
  BY RouterAssumption DEF CmdFd
<1>l. Listeners \in SUBSET Fd /\ IsFiniteSet(Listeners)
  BY ListenersFinite
<1>1. CASE qrtr_data_recv(p)
  <2>1. PICK k \in Packets :
          /\ Receive(p, k)
          /\ \/ qrtr_data_recv_data(p, k)
             \/ qrtr_data_recv_bye(p, k)
             \/ /\ k \notin {"data", "bad", "bye", "error"}
                /\ UNCHANGED <<memory, rlinked, aio_watches, linked, pending,
                               data_open>>
             \/ /\ k = "error"
                /\ watch_remove_read(p)
                /\ UNCHANGED <<memory, aio_watches, linked, pending, data_open>>
    BY <1>1 DEF qrtr_data_recv
  <2>2. EnvTypeOK' /\ LoopTypeOK'
    BY <2>1, ReceiveType
  <2>3. /\ UNCHANGED <<kernel, diag_clients, enabled, serving, read_watches>>
    BY <2>1 DEF Receive
  <2>4. CASE qrtr_data_recv_data(p, k)
    <3>1. ListTypeOK!1' /\ ListTypeOK!2'
      BY <2>3, <2>4 DEF qrtr_data_recv_data, ListTypeOK
    <3>2. ListTypeOK' /\ KernelTypeOK'
      <4>1. CASE p \in data_open
        BY <2>3, <2>4, <4>1 DEF qrtr_data_recv_data, ListTypeOK, KernelTypeOK, kernel
      <4>2. CASE p \notin data_open
        BY <1>p, <2>3, <2>4, <3>1, <4>2, AddAioType DEF qrtr_data_recv_data
      <4> QED BY <4>1, <4>2
    <3>3. MemoryTypeOK'
      <4>1. CASE k = "data"
        BY <1>p, <1>l, <2>4, <4>1, PushType DEF qrtr_data_recv_data, dm_broadcast
      <4>2. CASE k # "data"
        BY <2>4, <4>2 DEF qrtr_data_recv_data, MemoryTypeOK, memory
      <4> QED BY <4>1, <4>2
    <3>4. DmTypeOK'
      BY <2>3, <2>4 DEF qrtr_data_recv_data, DmTypeOK
    <3> QED BY <2>2, <3>2, <3>3, <3>4
  <2>5. CASE ~qrtr_data_recv_data(p, k)
    <3>1. ListTypeOK'
      BY <2>1, <2>3, <2>5, RemoveType DEF qrtr_data_recv_bye, watch_remove_aio,
                                          watch_remove_read
    <3>2. MemoryTypeOK' /\ KernelTypeOK' /\ DmTypeOK'
      BY <2>1, <2>3, <2>5 DEF qrtr_data_recv_bye, MemoryTypeOK, KernelTypeOK,
                              DmTypeOK, memory, kernel
    <3> QED BY <2>2, <3>1, <3>2
  <2> QED BY <2>4, <2>5
<1>2. CASE qrtr_cmd_recv(p)
  <2>1. PICK k \in Packets :
          /\ Receive(cmd_fd[p], k)
          /\ UNCHANGED data_open
          /\ \/ /\ k = "data"
                /\ dm_broadcast(NoFlow)
                /\ UNCHANGED <<rlinked, aio_watches, linked, pending>>
             \/ /\ k = "new_server"
                /\ watch_add_aio(cmd_fd[p], TRUE)
                /\ UNCHANGED <<memory, rlinked>>
             \/ /\ k = "del_server"
                /\ watch_remove_aio(cmd_fd[p])
                /\ UNCHANGED <<memory, rlinked, aio_watches, pending>>
             \/ /\ k \in {"bad", "other", "bye"}
                /\ UNCHANGED <<memory, rlinked, aio_watches, linked, pending>>
             \/ /\ k = "error"
                /\ watch_remove_read(cmd_fd[p])
                /\ UNCHANGED <<memory, aio_watches, linked, pending>>
    BY <1>2 DEF qrtr_cmd_recv
  <2>2. EnvTypeOK' /\ LoopTypeOK'
    BY <1>p, <2>1, ReceiveType
  <2>3. UNCHANGED <<kernel, diag_clients, enabled, serving, read_watches>>
    BY <2>1 DEF Receive
  <2>4. DmTypeOK'
    BY <2>1, <2>3 DEF DmTypeOK
  <2>5. MemoryTypeOK'
    <3>1. CASE k = "data"
      BY <1>l, <2>1, <3>1, PushType, WatchAssumption DEF dm_broadcast
    <3>2. CASE k # "data"
      BY <2>1, <3>2 DEF MemoryTypeOK, memory
    <3> QED BY <3>1, <3>2
  <2>6. ListTypeOK' /\ KernelTypeOK'
    <3>1. CASE k = "new_server"
      <4>1. ListTypeOK!1' /\ ListTypeOK!2'
        BY <2>1, <2>3, <3>1 DEF ListTypeOK
      <4>2. watch_add_aio(cmd_fd[p], TRUE)
        BY <2>1, <3>1
      <4> QED BY <1>p, <2>3, <4>1, <4>2, AddAioType
    <3>2. CASE k # "new_server"
      <4>1. ListTypeOK'
        BY <2>1, <2>3, <3>2, RemoveType DEF watch_remove_aio, watch_remove_read
      <4> QED BY <2>1, <2>3, <3>2, <4>1 DEF KernelTypeOK, kernel
    <3> QED BY <3>1, <3>2
  <2> QED BY <2>2, <2>4, <2>5, <2>6
<1> QED BY <1>1, <1>2

\* Only the environment's own variables matter to a step that leaves the
\* router alone.
LEMMA QuietTypeOK ==
    ASSUME TypeOK, EnvTypeOK', UNCHANGED <<watchVars, dmVars>>
    PROVE  TypeOK'
BY DEF TypeOK, MemoryTypeOK, ListTypeOK, KernelTypeOK, LoopTypeOK, DmTypeOK,
       watchVars, memory, lists, kernel, loop, dmVars

\* A packet arrives on a socket.
LEMMA ArrivalType ==
    ASSUME EnvTypeOK, NEW f \in Perif \cup CmdFd, NEW k \in Packets,
           inbox' = [inbox EXCEPT ![f] = Append(@, k)]
    PROVE  inbox' \in [Perif \cup CmdFd -> Seq(Packets)]
<1>1. inbox[f] \in Seq(Packets)
  BY DEF EnvTypeOK
<1>2. Append(inbox[f], k) \in Seq(Packets)
  BY <1>1, AppendProperties
<1> QED BY <1>2 DEF EnvTypeOK

\* The steps of clients.
LEMMA ClientEnvTypeOK ==
    ASSUME TypeOK, NEW c \in Client,
           \/ ClientConnect(c) \/ ClientClose(c)
           \/ \E cmd \in Command : ClientSend(c, cmd)
    PROVE  TypeOK'
<1> USE DEF TypeOK
<1>1. CASE ClientConnect(c)
  <2>1. EnvTypeOK'
    BY <1>1 DEF ClientConnect, EnvTypeOK
  <2> QED BY <1>1, <2>1, QuietTypeOK DEF ClientConnect
<1>2. CASE ClientClose(c)
  <2>1. budget' \in [Kinds -> Nat]
    BY <1>2, SpendType DEF ClientClose, Kinds
  <2>2. EnvTypeOK'
    BY <1>2, <2>1 DEF ClientClose, EnvTypeOK
  <2> QED BY <1>2, <2>2, QuietTypeOK DEF ClientClose
<1>3. ASSUME NEW cmd \in Command, ClientSend(c, cmd)
      PROVE  TypeOK'
  <2>1. budget' \in [Kinds -> Nat]
    BY <1>3, SpendType DEF ClientSend, Kinds
  <2>2. Append(rx[c], cmd) \in Seq(Command)
    BY AppendProperties DEF EnvTypeOK
  <2>3. EnvTypeOK'
    BY <1>3, <2>1, <2>2 DEF ClientSend, EnvTypeOK
  <2> QED BY <1>3, <2>3, QuietTypeOK DEF ClientSend
<1> QED BY <1>1, <1>2, <1>3

\* The steps of peripherals.
LEMMA PerifEnvTypeOK ==
    ASSUME TypeOK, NEW p \in Perif,
           PerifSend(p) \/ PerifCommandSocket(p) \/ ServerUpDown(p)
    PROVE  TypeOK'
<1> USE DEF TypeOK
<1>p. cmd_fd[p] \in CmdFd
  BY DEF CmdFd
<1>1. CASE PerifSend(p)
  <2>1. PICK k \in {"data", "bad", "other", "bye", "error"} :
          /\ IF k = "data" THEN UNCHANGED budget ELSE Spend("fault")
          /\ inbox' = [inbox EXCEPT ![p] = Append(@, k)]
    BY <1>1 DEF PerifSend
  <2>2. inbox' \in [Perif \cup CmdFd -> Seq(Packets)]
    BY <2>1, ArrivalType DEF Packets
  <2>3. budget' \in [Kinds -> Nat]
    BY <2>1, SpendType DEF Kinds, EnvTypeOK
  <2>4. EnvTypeOK'
    BY <1>1, <2>2, <2>3 DEF PerifSend, EnvTypeOK
  <2> QED BY <1>1, <2>4, QuietTypeOK DEF PerifSend
<1>2. CASE PerifCommandSocket(p)
  <2>1. PICK k \in {"data", "bad", "other", "bye", "error"} :
          /\ Spend(IF k = "data" THEN "answer" ELSE "fault")
          /\ inbox' = [inbox EXCEPT ![cmd_fd[p]] = Append(@, k)]
    BY <1>2 DEF PerifCommandSocket
  <2>2. inbox' \in [Perif \cup CmdFd -> Seq(Packets)]
    BY <1>p, <2>1, ArrivalType DEF Packets
  <2>3. budget' \in [Kinds -> Nat]
    BY <2>1, SpendType DEF Kinds
  <2>4. EnvTypeOK'
    BY <1>2, <2>2, <2>3 DEF PerifCommandSocket, EnvTypeOK
  <2> QED BY <1>2, <2>4, QuietTypeOK DEF PerifCommandSocket
<1>3. CASE ServerUpDown(p)
  <2>1. inbox' \in [Perif \cup CmdFd -> Seq(Packets)] /\ announced' \subseteq Perif
    BY <1>p, <1>3, ArrivalType DEF ServerUpDown, Packets, EnvTypeOK
  <2>2. budget' \in [Kinds -> Nat]
    BY <1>3, SpendType DEF ServerUpDown, Kinds
  <2>3. EnvTypeOK'
    BY <1>3, <2>1, <2>2 DEF ServerUpDown, EnvTypeOK
  <2> QED BY <1>3, <2>3, QuietTypeOK DEF ServerUpDown
<1> QED BY <1>1, <1>2, <1>3

\* The steps of the USB host and of its endpoints.
LEMMA HostTypeOK ==
    ASSUME TypeOK,
           Plug \/ Unplug \/ \E w \in inflight : EndpointComplete(w)
    PROVE  TypeOK'
<1> USE DEF TypeOK
<1>1. CASE Plug
  <2>1. budget' \in [Kinds -> Nat]
    BY <1>1, SpendType DEF Plug, Kinds
  <2>2. EnvTypeOK'
    BY <1>1, <2>1 DEF Plug, EnvTypeOK
  <2> QED BY <1>1, <2>2, QuietTypeOK DEF Plug
<1>2. CASE Unplug
  <2>1. EnvTypeOK'
    BY <1>2 DEF Unplug, EnvTypeOK
  <2> QED BY <1>2, <2>1, QuietTypeOK DEF Unplug
<1>3. ASSUME NEW w \in inflight, EndpointComplete(w)
      PROVE  TypeOK'
  <2>1. PICK res \in {"ok", "err"} :
          /\ KernelComplete(w, res)
          /\ IF res = "err" THEN ~plugged /\ UNCHANGED budget
             ELSE /\ plugged
                  /\ IF aio_watches[w].fd = BulkOut THEN Spend("command")
                                                    ELSE UNCHANGED budget
    BY <1>3 DEF EndpointComplete
  <2>2. res \in Results /\ w \in 1..Len(aio_watches)
    BY DEF Results, KernelTypeOK
  <2>3. ring' \in Seq([obj : 1..Len(aio_watches'), res : Results])
    BY <2>1, <2>2, RingType DEF KernelComplete, lists
  <2>4. KernelTypeOK'
    BY <2>1, <2>3 DEF KernelComplete, KernelTypeOK, lists
  <2>5. budget' \in [Kinds -> Nat]
    BY <2>1, SpendType DEF Kinds, EnvTypeOK
  <2>6. EnvTypeOK' /\ DmTypeOK'
    BY <1>3, <2>5 DEF EndpointComplete, EnvTypeOK, DmTypeOK, dmVars
  <2>7. MemoryTypeOK' /\ ListTypeOK' /\ LoopTypeOK'
    BY <2>1 DEF KernelComplete, MemoryTypeOK, ListTypeOK, LoopTypeOK, memory, lists,
                loop
  <2> QED BY <2>4, <2>6, <2>7
<1> QED BY <1>1, <1>2, <1>3

-----------------------------------------------------------------------------
(* Type correctness.                                                       *)

\* main leaves a well-typed state behind.
LEMMA InitTypeOK == Init => TypeOK
<1> SUFFICES ASSUME Init PROVE TypeOK
  OBVIOUS
<1> USE DEF Init, WatchInit
<1> DEFINE reads  == (IF UseUsb THEN <<Ep0, Listen>> ELSE <<Listen>>) \o QrtrSockets
           writes == IF UseUsb THEN <<Usb>> ELSE <<>>
<1>1. reads \in Seq(Fd)
  <2>1. QrtrSockets \in Seq(Fd)
    <3>1. Perif \cup CmdFd \subseteq Fd
      BY RouterAssumption
    <3> QED BY <3>1, RouterAssumption, SeqMonotonic
  <2>2. (IF UseUsb THEN <<Ep0, Listen>> ELSE <<Listen>>) \in Seq(Fd)
    <3>1. Ep0 \in Fd /\ Listen \in Fd
      BY RouterAssumption
    <3>2. <<Ep0, Listen>> \in Seq(Fd) /\ <<Listen>> \in Seq(Fd)
      BY <3>1
    <3> QED BY <3>2
  <2> QED BY <2>1, <2>2, ConcatProperties
<1>2. writes \in Seq(Fd) /\ writes \in Seq(Dm)
  <2>1. Usb \in Fd /\ Usb \in Dm
    BY RouterAssumption DEF Dm
  <2>2. <<Usb>> \in Seq(Fd) /\ <<Usb>> \in Seq(Dm)
    BY <2>1
  <2>3. <<>> \in Seq(Fd) /\ <<>> \in Seq(Dm)
    OBVIOUS
  <2> QED BY <2>2, <2>3
<1>3. Len(writes) \in Nat /\ \A i \in 1..Len(writes) : writes[i] \in Fd
  BY <1>2, LenProperties, ElementOfSeq
<1>4. MemoryTypeOK
  <2>1. queue \in [Fd -> Seq(Mbuf)]
    BY RouterAssumption
  <2>2. charge \in [Mbuf -> Flow \cup {NoFlow, Unallocated}]
    OBVIOUS
  <2> QED BY <2>1, <2>2 DEF MemoryTypeOK
<1>5. ListTypeOK
  <2> DEFINE W == [fd : Fd, is_write : BOOLEAN]
  <2>1. aio_watches \in [1..Len(writes) -> W]
    BY <1>3
  <2>2. aio_watches \in Seq(W) /\ Len(aio_watches) = Len(writes)
    <3>1. aio_watches \in Seq(W)
      <4> HIDE DEF W, writes
      <4> QED BY <1>3, <2>1, SeqDef
    <3>2. DOMAIN aio_watches = 1..Len(writes) /\ DOMAIN aio_watches = 1..Len(aio_watches)
      <4> HIDE DEF W, writes
      <4> QED BY <2>1, <3>1, LenProperties
    <3>3. Len(aio_watches) \in Nat
      <4> HIDE DEF W, writes
      <4> QED BY <3>1, LenProperties
    <3> HIDE DEF writes
    <3> QED BY <1>3, <3>1, <3>2, <3>3
  <2>3. pending \in [1..Len(writes) -> Mbuf \cup {NoMbuf}]
    OBVIOUS
  <2>4. pending \in Seq(Mbuf \cup {NoMbuf}) /\ Len(pending) = Len(writes)
    <3>1. pending \in Seq(Mbuf \cup {NoMbuf})
      <4> HIDE DEF writes
      <4> QED BY <1>3, <2>3, SeqDef
    <3>2. DOMAIN pending = 1..Len(writes) /\ DOMAIN pending = 1..Len(pending)
      <4> HIDE DEF writes
      <4> QED BY <2>3, <3>1, LenProperties
    <3>3. Len(pending) \in Nat
      BY <3>1, LenProperties
    <3> HIDE DEF writes
    <3> QED BY <1>3, <3>1, <3>2, <3>3
  <2>5. read_watches = reads /\ rlinked = 1..Len(reads) /\ linked = 1..Len(writes)
    OBVIOUS
  <2> HIDE DEF reads, writes
  <2> QED BY <1>1, <2>2, <2>4, <2>5 DEF ListTypeOK
<1>6. KernelTypeOK
  <2>1. raced \in BOOLEAN
    BY Zenon
  <2>2. inflight = {} /\ ring = <<>> /\ evfd = 0
    OBVIOUS
  <2> QED BY <2>1, <2>2 DEF KernelTypeOK
<1>9. LoopTypeOK
  BY DEF LoopTypeOK, PC
<1>7. DmTypeOK
  BY <1>2 DEF DmTypeOK
<1>8. EnvTypeOK
  <2>1. budget \in [Kinds -> Nat]
    BY RouterAssumption
  <2>2. rx \in [Client -> Seq(Command)]
    OBVIOUS
  <2>3. inbox \in [Perif \cup CmdFd -> Seq(Packets)]
    OBVIOUS
  <2> QED BY <2>1, <2>2, <2>3 DEF EnvTypeOK
<1> QED BY <1>4, <1>5, <1>6, <1>9, <1>7, <1>8 DEF TypeOK

\* Every step of the loop and of the environment preserves the types.
LEMMA NextTypeOK == TypeOK /\ [Next]_vars => TypeOK'
<1> SUFFICES ASSUME TypeOK, [Next]_vars PROVE TypeOK'
  OBVIOUS
<1>1. CASE Loop
  <2>1. ASSUME NEW w \in linked,
               \/ \E res \in Results : SubmitSocket(w, res)
               \/ SubmitEndpoint(w)
               \/ SubmitFailed(w)
        PROVE  TypeOK'
    BY <2>1, SubmitTypeOK
  <2>2. ASSUME NEW w \in linked, LoopWrite(w)
        PROVE  TypeOK'
    BY <2>2, WriteTypeOK
  <2>3. ASSUME NEW w \in linked, diag_ffs_recv(w)
        PROVE  TypeOK'
    BY <2>3, FfsTypeOK
  <2>4. CASE \/ LoopSelect \/ LoopReadEventfd \/ LoopCompleteDone
             \/ LoopDispatchDone
             \/ \E w \in linked : LoopAbort(w) \/ LoopEagain(w)
    BY <2>4, LoopStepTypeOK
  <2>5. CASE LoopGetEvents
    BY <2>5, GetEventsTypeOK
  <2>6. CASE Handlers
    <3>1. ASSUME NEW c \in Client,
                 \/ unix_listen(c) \/ DmRecv(c) \/ DmRecvCommand(c)
                 \/ DmRecvEagain(c) \/ DmRecvEof(c) \/ DmRecvError(c)
          PROVE  TypeOK'
      BY <3>1, ClientTypeOK
    <3>2. ASSUME NEW p \in Perif, qrtr_data_recv(p) \/ qrtr_cmd_recv(p)
          PROVE  TypeOK'
      BY <3>2, PerifTypeOK
    <3> QED BY <2>6, <3>1, <3>2, Ep0TypeOK DEF Handlers
  <2> QED BY <1>1, <2>1, <2>2, <2>3, <2>4, <2>5, <2>6 DEF Loop
<1>2. CASE Environment
  <2>1. ASSUME NEW c \in Client,
               \/ ClientConnect(c) \/ ClientClose(c)
               \/ \E cmd \in Command : ClientSend(c, cmd)
        PROVE  TypeOK'
    BY <2>1, ClientEnvTypeOK
  <2>2. ASSUME NEW p \in Perif,
               PerifSend(p) \/ PerifCommandSocket(p) \/ ServerUpDown(p)
        PROVE  TypeOK'
    BY <2>2, PerifEnvTypeOK
  <2>3. CASE Plug \/ Unplug \/ \E w \in inflight : EndpointComplete(w)
    BY <2>3, HostTypeOK
  <2> QED BY <1>2, <2>1, <2>2, <2>3 DEF Environment
<1>3. CASE UNCHANGED vars
  <2>1. EnvTypeOK'
    BY <1>3 DEF TypeOK, EnvTypeOK, vars, envVars
  <2> QED BY <1>3, <2>1, QuietTypeOK DEF vars
<1> QED BY <1>1, <1>2, <1>3 DEF Next

\* Every reachable state of the router is well typed: in particular completions
\* on the ring always refer to a watch that was allocated, and the flow counters
\* never become negative.
THEOREM TypeCorrect == Spec => []TypeOK
BY InitTypeOK, NextTypeOK, PTL DEF Spec

-----------------------------------------------------------------------------
(* The steps that touch charges and counters.                              *)

\* Charges and flow counters change in three ways only: a completion, a push
\* that is charged to nobody, and a broadcast charged to a peripheral that
\* select() reported and that is served by this step.
LEMMA MemorySteps ==
    ASSUME TypeOK, [Next]_vars
    PROVE  \/ UNCHANGED <<charge, packets>> /\ (rfds' \subseteq rfds \/ LoopSelect)
           \/ \E w \in linked : LoopWrite(w) \/ diag_ffs_recv(w)
           \/ \E D \in SUBSET Fd : queue_push_flow(D, NoFlow) /\ rfds' \subseteq rfds
           \/ \E p \in Perif : /\ p \in rfds
                               /\ queue_push_flow(Listeners, p)
                               /\ rfds' = rfds \ {p}
<1> DEFINE Quiet == UNCHANGED <<charge, packets>>
                    /\ (rfds' \subseteq rfds \/ LoopSelect)
<1>1. CASE Loop
  <2>1. ASSUME NEW w \in linked,
               \/ \E res \in Results : SubmitSocket(w, res)
               \/ SubmitEndpoint(w) \/ SubmitFailed(w)
               \/ LoopAbort(w) \/ LoopEagain(w)
        PROVE  Quiet
    BY <2>1 DEF SubmitSocket, SubmitSync, SubmitEndpoint, SubmitAsync, SubmitFailed,
                SubmitRefused, LoopAbort, CompleteAbort, LoopEagain, CompleteEagain,
                memory
  <2>2. CASE LoopSelect \/ LoopReadEventfd \/ LoopGetEvents \/ LoopCompleteDone
             \/ LoopDispatchDone
    BY <2>2 DEF LoopSelect, Select, LoopReadEventfd, ReadEventfd, LoopGetEvents,
                GetEvents, LoopCompleteDone, CompleteDone, LoopDispatchDone,
                DispatchDone, memory
  <2>3. ASSUME NEW c \in Client,
               \/ unix_listen(c) \/ DmRecv(c) \/ DmRecvEagain(c)
               \/ DmRecvEof(c) \/ DmRecvError(c)
        PROVE  Quiet
    BY <2>3 DEF unix_listen, DmRecv, DmRecvEagain, DmRecvEof, DmRecvError, memory
  <2>4. ASSUME NEW c \in Client, DmRecvCommand(c)
        PROVE  \E D \in SUBSET Fd : queue_push_flow(D, NoFlow) /\ rfds' \subseteq rfds
    <3>1. rx[c] \in Seq(Command) /\ rx[c] # <<>>
      BY <2>4 DEF DmRecvCommand, EnvTypeOK, TypeOK
    <3>2. Head(rx[c]) \in Command
      BY <3>1, HeadTailProperties
    <3>3. CommandTargets(c, Head(rx[c])) \in SUBSET Fd
      BY <3>2, TargetsType DEF TypeOK, Dm
    <3> QED BY <2>4, <3>3 DEF DmRecvCommand, diag_client_handle_command, loop
  <2>5. CASE ep0_recv
    BY <2>5 DEF ep0_recv, memory
  <2>6. ASSUME NEW p \in Perif, qrtr_data_recv(p)
        PROVE  \/ Quiet
               \/ p \in rfds /\ queue_push_flow(Listeners, p) /\ rfds' = rfds \ {p}
    <3>1. PICK k \in Packets :
            /\ Receive(p, k)
            /\ \/ qrtr_data_recv_data(p, k)
               \/ qrtr_data_recv_bye(p, k)
               \/ UNCHANGED memory
      BY <2>6 DEF qrtr_data_recv
    <3>2. p \in rfds /\ rfds' = rfds \ {p}
      BY <3>1 DEF Receive, Dispatch, ToDispatch
    <3> QED BY <3>1, <3>2 DEF qrtr_data_recv_data, qrtr_data_recv_bye, dm_broadcast,
                              memory
  <2>7. ASSUME NEW p \in Perif, qrtr_cmd_recv(p)
        PROVE  \/ Quiet
               \/ \E D \in SUBSET Fd :
                      queue_push_flow(D, NoFlow) /\ rfds' \subseteq rfds
    <3>1. PICK k \in Packets :
            Receive(cmd_fd[p], k) /\ (dm_broadcast(NoFlow) \/ UNCHANGED memory)
      BY <2>7 DEF qrtr_cmd_recv
    <3>2. rfds' \subseteq rfds
      BY <3>1 DEF Receive
    <3>3. Listeners \in SUBSET Fd
      BY ListenersFinite DEF TypeOK
    <3> QED BY <3>1, <3>2, <3>3 DEF dm_broadcast, memory
  <2>8. CASE Handlers
    BY <2>3, <2>4, <2>5, <2>6, <2>7, <2>8 DEF Handlers
  <2> QED BY <1>1, <2>1, <2>2, <2>8 DEF Loop
<1>2. CASE Environment
  BY <1>2 DEF Environment, ClientConnect, ClientClose, ClientSend, PerifSend,
              PerifCommandSocket, ServerUpDown, Plug, Unplug, EndpointComplete,
              KernelComplete, watchVars, memory, loop
<1>3. CASE UNCHANGED vars
  BY <1>3 DEF vars, watchVars, memory, loop
<1> QED BY <1>1, <1>2, <1>3 DEF Next

-----------------------------------------------------------------------------
(* Balance of the flow counters.                                           *)

\* watch_free_write_aio takes one buffer off the count it is charged to.
LEMMA WriteBalanced ==
    ASSUME TypeOK, FlowBalanced, NEW w \in linked, LoopWrite(w)
    PROVE  FlowBalanced'
<1> DEFINE m == pending[w]
<1>1. m \in Mbuf
  BY PendingMbuf DEF TypeOK, LoopWrite, CompleteWrite
<1>2. /\ charge' = [charge EXCEPT ![m] = Unallocated]
      /\ packets' = flow_dec(charge[m])
  BY DEF LoopWrite, CompleteWrite
<1>3. charge \in [Mbuf -> Flow \cup {NoFlow, Unallocated}]
      /\ packets \in [Flow -> Nat]
  BY DEF TypeOK, MemoryTypeOK
<1> HIDE DEF m
<1> SUFFICES ASSUME NEW p \in Flow
             PROVE  packets'[p] = Cardinality(Charged(p)')
  BY DEF FlowBalanced
<1>4. packets[p] = Cardinality(Charged(p)) /\ IsFiniteSet(Charged(p))
  BY WatchAssumption, FS_Subset DEF FlowBalanced, Charged
<1>5. Unallocated # p
  BY WatchAssumption
<1>6. Charged(p)' = Charged(p) \ {m}
  BY <1>1, <1>2, <1>3, <1>5 DEF Charged
<1>7. Cardinality(Charged(p)') = IF m \in Charged(p) THEN packets[p] - 1
                                                     ELSE packets[p]
  <2>1. Cardinality(Charged(p) \ {m}) = IF m \in Charged(p)
                                         THEN Cardinality(Charged(p)) - 1
                                         ELSE Cardinality(Charged(p))
    BY <1>4, FS_RemoveElement, ZenonT(30)
  <2> QED BY <1>4, <1>6, <2>1, ZenonT(30)
<1>8. CASE charge[m] = p
  <2>1. m \in Charged(p)
    BY <1>1, <1>8 DEF Charged
  <2>2. packets[p] # 0
    BY <1>4, <2>1, FS_EmptySet
  <2>3. packets'[p] = packets[p] - 1
    BY <1>2, <1>3, <1>8, <2>2 DEF flow_dec
  <2> QED BY <1>7, <2>1, <2>3
<1>9. CASE charge[m] # p
  <2>1. m \notin Charged(p)
    BY <1>9 DEF Charged
  <2>2. packets'[p] = packets[p]
    BY <1>2, <1>3, <1>9 DEF flow_dec
  <2> QED BY <1>7, <2>1, <2>2
<1> QED BY <1>8, <1>9

\* diag_ffs_recv charges what it queues to no flow.
LEMMA FfsBalanced ==
    ASSUME TypeOK, FlowBalanced, NEW w \in linked, diag_ffs_recv(w)
    PROVE  FlowBalanced'
<1>1. PICK D \in {{}} \cup {CommandTargets(Usb, c) : c \in Command} :
        /\ Allocations(D) # {}
        /\ charge' = [m \in Mbuf |->
               IF \E q \in D : (CHOOSE f \in Allocations(D) : TRUE)[q] = m
               THEN NoFlow ELSE charge[m]]
  BY DEF diag_ffs_recv
<1> DEFINE f == CHOOSE g \in Allocations(D) : TRUE
<1>2. f \in [D -> FreeMbufs]
  BY <1>1, AllocationChoice
<1>3. charge' = [m \in Mbuf |-> IF \E q \in D : f[q] = m THEN NoFlow ELSE charge[m]]
  BY <1>1
<1> HIDE DEF f
<1>4. \A p \in Flow : Charged(p)' = Charged(p)
  BY <1>2, <1>3, WatchAssumption DEF Charged, FreeMbufs
<1>5. packets' = packets
  BY DEF diag_ffs_recv
<1> QED BY <1>4, <1>5 DEF FlowBalanced

\* Every step preserves the balance of the counters.
LEMMA NextFlowBalanced == TypeOK /\ FlowBalanced /\ [Next]_vars => FlowBalanced'
<1> SUFFICES ASSUME TypeOK, FlowBalanced, [Next]_vars PROVE FlowBalanced'
  OBVIOUS
<1>1. CASE UNCHANGED <<charge, packets>>
  BY <1>1 DEF FlowBalanced, Charged
<1>2. CASE \E w \in linked : LoopWrite(w) \/ diag_ffs_recv(w)
  BY <1>2, WriteBalanced, FfsBalanced
<1>3. CASE \E D \in SUBSET Fd : queue_push_flow(D, NoFlow)
  BY <1>3, PushBalanced, WatchAssumption DEF TypeOK
<1>4. ASSUME NEW p \in Perif, queue_push_flow(Listeners, p)
      PROVE  FlowBalanced'
  <2>1. p \in Flow
    BY RouterAssumption
  <2>2. Listeners \in SUBSET Fd /\ IsFiniteSet(Listeners)
    BY ListenersFinite DEF TypeOK
  <2> QED BY <1>4, <2>1, <2>2, PushBalanced DEF TypeOK
<1> QED BY <1>1, <1>2, <1>3, <1>4, MemorySteps

\* The counter of a flow is the number of buffers charged to it, always: every
\* increment of queue_push_flow is matched by the decrement of the completion
\* that frees the buffer, whatever clients, hosts and peripherals do meanwhile.
THEOREM FlowCountersBalanced == Spec => []FlowBalanced
<1>1. Init => FlowBalanced
  <2> SUFFICES ASSUME Init, NEW p \in Flow
               PROVE  packets[p] = Cardinality(Charged(p))
    BY DEF FlowBalanced
  <2>1. Charged(p) = {}
    BY WatchAssumption DEF Init, Charged
  <2>2. packets[p] = 0
    BY DEF Init, WatchInit
  <2> QED BY <2>1, <2>2, FS_EmptySet
<1> QED BY <1>1, NextFlowBalanced, TypeCorrect, PTL DEF Spec

-----------------------------------------------------------------------------
(* The bound on a peripheral's backlog.                                    *)

\* FlowBound alone is not inductive: that a socket in rfds is still under the
\* watermark when its callback runs is what makes it so.
FlowInv == FlowReady /\ FlowBound

\* Every step preserves the inductive strengthening of FlowBound.
LEMMA NextFlowInv == TypeOK /\ FlowInv /\ [Next]_vars => FlowInv'
<1> SUFFICES ASSUME TypeOK, FlowInv, [Next]_vars PROVE FlowInv'
  OBVIOUS
<1> USE DEF FlowInv
<1>t. /\ \A g \in Flow : packets[g] \in Nat
      /\ FLOW_WATERMARK \in Nat
      /\ Cardinality(Dm) \in Nat
  BY WatchAssumption, DmFinite, FS_CardinalityType DEF TypeOK, MemoryTypeOK
<1>1. ASSUME \A g \in Flow : packets'[g] <= packets[g],
             \A g \in Flow : packets'[g] \in Nat,
             rfds' \subseteq rfds
      PROVE  FlowInv'
  BY <1>t, <1>1 DEF FlowReady, FlowBound
<1>2. CASE UNCHANGED <<charge, packets>> /\ rfds' \subseteq rfds
  BY <1>t, <1>1, <1>2
<1>3. CASE LoopSelect
  <2>1. UNCHANGED packets
    BY <1>3 DEF LoopSelect, Select, memory
  <2>2. \A g \in Flow \cap rfds' : ~watch_flow_blocked(WatchFlow[g])
    BY <1>3 DEF LoopSelect, Select
  <2>3. \A g \in Flow : WatchFlow[g] = g
    BY RouterAssumption DEF WatchFlow
  <2>4. \A g \in Flow \cap rfds' : packets[g] <= FLOW_WATERMARK
    BY <1>t, <2>2, <2>3 DEF watch_flow_blocked
  <2> QED BY <2>1, <2>4 DEF FlowReady, FlowBound
<1>4. ASSUME NEW w \in linked, LoopWrite(w)
      PROVE  FlowInv'
  <2>1. packets' = flow_dec(charge[pending[w]]) /\ UNCHANGED rfds
    BY <1>4 DEF LoopWrite, CompleteWrite
  <2>2. \A g \in Flow : packets'[g] <= packets[g] /\ packets'[g] \in Nat
    BY <1>t, <2>1 DEF flow_dec, TypeOK, MemoryTypeOK
  <2> QED BY <1>1, <2>1, <2>2
<1>5. ASSUME NEW w \in linked, diag_ffs_recv(w)
      PROVE  FlowInv'
  BY <1>t, <1>1, <1>5 DEF diag_ffs_recv
<1>6. ASSUME NEW D \in SUBSET Fd, queue_push_flow(D, NoFlow), rfds' \subseteq rfds
      PROVE  FlowInv'
  <2>1. \A g \in Flow : packets'[g] = packets[g]
    BY <1>6, WatchAssumption DEF queue_push_flow
  <2> QED BY <1>t, <1>1, <1>6, <2>1
<1>7. ASSUME NEW p \in Perif, p \in rfds, queue_push_flow(Listeners, p),
             rfds' = rfds \ {p}
      PROVE  FlowInv'
  <2>1. p \in Flow
    BY RouterAssumption
  <2>2. Cardinality(Listeners) \in Nat /\ Cardinality(Listeners) <= Cardinality(Dm)
    BY ListenersFinite, DmFinite, FS_Subset, FS_CardinalityType DEF TypeOK
  <2>3. \A g \in Flow : packets'[g] = IF g = p
                                      THEN packets[g] + Cardinality(Listeners)
                                      ELSE packets[g]
    BY <1>7 DEF queue_push_flow
  <2>4. packets[p] <= FLOW_WATERMARK
    BY <1>7, <2>1 DEF FlowReady
  <2>5. FlowBound'
    BY <1>t, <2>2, <2>3, <2>4 DEF FlowBound
  <2>6. FlowReady'
    BY <1>7, <2>3 DEF FlowReady
  <2> QED BY <2>5, <2>6
<1> QED BY <1>2, <1>3, <1>4, <1>5, <1>6, <1>7, MemorySteps

\* FlowInv holds in every reachable state.
LEMMA FlowInvAlways == Spec => []FlowInv
<1>1. Init => FlowInv
  <2>1. FLOW_WATERMARK \in Nat /\ Cardinality(Dm) \in Nat
    BY WatchAssumption, DmFinite, FS_CardinalityType
  <2> QED BY <2>1 DEF Init, WatchInit, FlowInv, FlowReady, FlowBound
<1> QED BY <1>1, NextFlowInv, TypeCorrect, PTL DEF Spec

\* A peripheral never has more than FLOW_WATERMARK packets and one broadcast on
\* their way, however many DMs there are and however slow they read.
THEOREM BacklogBounded == Spec => []FlowBound
<1>1. FlowInv => FlowBound
  BY DEF FlowInv
<1> QED BY <1>1, FlowInvAlways, PTL

-----------------------------------------------------------------------------
(* The inductive form of Ownership, without cardinalities.                 *)

\* Buffer m is on a queue, or pending on a watch.
Queued(m) == \E f \in Fd : \E i \in 1..Len(queue[f]) : queue[f][i] = m
Held(m)   == \E w \in 1..Len(pending) : pending[w] = m

\* No two places of the queues hold the same buffer.
QueuesDisjoint ==
    \A f, g \in Fd : \A i \in 1..Len(queue[f]), j \in 1..Len(queue[g]) :
        queue[f][i] = queue[g][j] => f = g /\ i = j

\* No two watches hold the same buffer.
HoldersDisjoint ==
    \A v, w \in 1..Len(pending) :
        pending[v] = pending[w] /\ pending[v] # NoMbuf => v = w

\* A buffer is in a place exactly while it is allocated, and never in a queue
\* and on a watch.
OwnedOnce ==
    \A m \in Mbuf : /\ charge[m] # Unallocated <=> Queued(m) \/ Held(m)
                    /\ ~(Queued(m) /\ Held(m))

OwnInv == QueuesDisjoint /\ HoldersDisjoint /\ OwnedOnce

-----------------------------------------------------------------------------
(* Steps on sequences.                                                     *)

\* Appending adds one element and keeps the others.
LEMMA AppendAt ==
    ASSUME NEW S, NEW s \in Seq(S), NEW e \in S
    PROVE  /\ Len(s) \in Nat
           /\ Len(Append(s, e)) = Len(s) + 1
           /\ \A i \in 1..Len(s) : Append(s, e)[i] = s[i]
           /\ Append(s, e)[Len(s) + 1] = e
BY AppendProperties, LenProperties

\* Taking the head off moves every element by one.
LEMMA TailAt ==
    ASSUME NEW S, NEW s \in Seq(S), s # <<>>
    PROVE  /\ Len(s) \in Nat \ {0}
           /\ Len(Tail(s)) = Len(s) - 1
           /\ \A i \in 1..Len(Tail(s)) : Tail(s)[i] = s[i + 1]
           /\ Head(s) = s[1]
<1>1. Len(s) \in Nat /\ Len(s) # 0
  BY LenProperties, EmptySeq
<1> QED BY <1>1, HeadTailProperties

\* Buffers that are in no queue are appended to the queues of P, each once:
\* queue_push_flow with fresh buffers, diag_ffs_recv also with its own.
Pushes(P, x) ==
    /\ P \in SUBSET Fd /\ x \in [P -> Mbuf]
    /\ \A d, e \in P : x[d] = x[e] => d = e
    /\ \A d \in P : ~Queued(x[d])
    /\ queue' = [q \in Fd |-> IF q \in P THEN Append(queue[q], x[q]) ELSE queue[q]]
    /\ \A m \in Mbuf : charge'[m] # Unallocated
                         <=> charge[m] # Unallocated \/ \E d \in P : x[d] = m
    /\ HoldersDisjoint'
    /\ \A m \in Mbuf : Held(m)' <=> Held(m) /\ ~\E d \in P : x[d] = m

\* Such a push keeps one owner per buffer.
LEMMA PushOwned ==
    ASSUME MemoryTypeOK, OwnInv, MemoryTypeOK', NEW P, NEW x, Pushes(P, x)
    PROVE  OwnInv'
<1> USE DEF Pushes
<1>1. \A q \in Fd : queue[q] \in Seq(Mbuf) /\ Len(queue[q]) \in Nat
  BY LenProperties DEF MemoryTypeOK
<1>2. \A q \in Fd : q \in P =>
        /\ Len(queue'[q]) = Len(queue[q]) + 1
        /\ \A i \in 1..Len(queue[q]) : queue'[q][i] = queue[q][i]
        /\ queue'[q][Len(queue[q]) + 1] = x[q]
  <2> SUFFICES ASSUME NEW q \in Fd, q \in P
               PROVE  /\ Len(queue'[q]) = Len(queue[q]) + 1
                      /\ \A i \in 1..Len(queue[q]) : queue'[q][i] = queue[q][i]
                      /\ queue'[q][Len(queue[q]) + 1] = x[q]
    OBVIOUS
  <2>1. queue'[q] = Append(queue[q], x[q]) /\ x[q] \in Mbuf
    OBVIOUS
  <2> QED BY <1>1, <2>1, AppendAt
<1>3. \A q \in Fd : q \notin P => queue'[q] = queue[q]
  OBVIOUS
<1>4. \A q \in Fd : \A i \in 1..Len(queue'[q]) :
        \/ i \in 1..Len(queue[q]) /\ queue'[q][i] = queue[q][i]
        \/ q \in P /\ i = Len(queue[q]) + 1 /\ queue'[q][i] = x[q]
  BY <1>1, <1>2, <1>3
<1>5. \A q \in Fd : \A i \in 1..Len(queue[q]) : 
        i \in 1..Len(queue'[q]) /\ queue'[q][i] = queue[q][i]
  BY <1>1, <1>2, <1>3
<1>6. \A q \in P : \A f \in Fd : \A i \in 1..Len(queue[f]) : queue[f][i] # x[q]
  BY DEF Queued
<1>7. QueuesDisjoint'
  <2> SUFFICES ASSUME NEW f \in Fd, NEW g \in Fd, NEW i \in 1..Len(queue'[f]),
                      NEW j \in 1..Len(queue'[g]), queue'[f][i] = queue'[g][j]
               PROVE  f = g /\ i = j
    BY DEF QueuesDisjoint
  <2>1. CASE i \in 1..Len(queue[f]) /\ queue'[f][i] = queue[f][i]
    <3>1. j \in 1..Len(queue[g]) /\ queue'[g][j] = queue[g][j]
      BY <1>4, <1>6, <2>1
    <3> QED BY <2>1, <3>1 DEF OwnInv, QueuesDisjoint
  <2>2. CASE f \in P /\ i = Len(queue[f]) + 1 /\ queue'[f][i] = x[f]
    <3>1. g \in P /\ j = Len(queue[g]) + 1 /\ queue'[g][j] = x[g]
      BY <1>4, <1>6, <2>2
    <3> QED BY <2>2, <3>1
  <2> QED BY <1>4, <2>1, <2>2
<1>8. \A m \in Mbuf : Queued(m)' <=> Queued(m) \/ \E d \in P : x[d] = m
  <2> SUFFICES ASSUME NEW m \in Mbuf
               PROVE  Queued(m)' <=> Queued(m) \/ \E d \in P : x[d] = m
    OBVIOUS
  <2>1. Queued(m)' => Queued(m) \/ \E d \in P : x[d] = m
    BY <1>4 DEF Queued
  <2>2. Queued(m) => Queued(m)'
    BY <1>5 DEF Queued
  <2>3. ASSUME NEW d \in P, x[d] = m
        PROVE  Queued(m)'
    <3>1. Len(queue[d]) + 1 \in 1..Len(queue'[d])
      BY <1>1, <1>2
    <3> QED BY <1>2, <2>3, <3>1 DEF Queued
  <2> QED BY <2>1, <2>2, <2>3
<1>9. OwnedOnce'
  BY <1>8 DEF OwnInv, OwnedOnce
<1> QED BY <1>7, <1>9 DEF OwnInv

-----------------------------------------------------------------------------
(* The steps that move a buffer.                                           *)

\* What a watch has pending is a buffer or nothing.
LEMMA PendingAt ==
    ASSUME ListTypeOK
    PROVE  /\ Len(pending) \in Nat
           /\ DOMAIN pending = 1..Len(pending)
           /\ \A w \in 1..Len(pending) : pending[w] \in Mbuf \cup {NoMbuf}
           /\ linked \subseteq 1..Len(pending)
           /\ Len(pending) = Len(aio_watches)
BY LenProperties, ElementOfSeq DEF ListTypeOK

\* pending_aio of watch w is set, the others keep theirs.
LEMMA PendingSet ==
    ASSUME ListTypeOK, NEW w \in linked, NEW m,
           pending' = [pending EXCEPT ![w] = m]
    PROVE  /\ Len(pending') = Len(pending)
           /\ pending'[w] = m
           /\ \A v \in 1..Len(pending) : v # w => pending'[v] = pending[v]
<1>1. /\ DOMAIN pending = 1..Len(pending) /\ Len(pending) \in Nat
      /\ w \in 1..Len(pending)
  BY PendingAt
<1>2. pending \in Seq(Mbuf \cup {NoMbuf, m})
  <2>1. pending \in Seq(Mbuf \cup {NoMbuf})
    BY DEF ListTypeOK
  <2> QED BY <2>1, SeqMonotonic
<1>3. pending' \in Seq(Mbuf \cup {NoMbuf, m}) /\ Len(pending') = Len(pending)
  BY <1>1, <1>2, ExceptSeq
<1> QED BY <1>1, <1>3

\* io_submit takes the head of a queue: it changes place.
LEMMA AcceptedOwned ==
    ASSUME MemoryTypeOK, ListTypeOK, OwnInv, NEW w \in linked, SubmitNext(w),
           Accepted(w), UNCHANGED charge
    PROVE  OwnInv'
<1> DEFINE q == aio_watches[w].fd
           m == Head(queue[q])
<1>1. q \in Fd
  BY WatchFd DEF ListTypeOK
<1>2. queue[q] \in Seq(Mbuf) /\ queue[q] # <<>> /\ pending[w] = NoMbuf
  BY <1>1 DEF MemoryTypeOK, SubmitNext, ToSubmit, IsFirst
<1>3. /\ Len(queue[q]) \in Nat \ {0}
      /\ Len(Tail(queue[q])) = Len(queue[q]) - 1
      /\ \A i \in 1..Len(Tail(queue[q])) : Tail(queue[q])[i] = queue[q][i + 1]
      /\ m = queue[q][1]
  BY <1>2, TailAt
<1>4. m \in Mbuf /\ Queued(m)
  BY <1>1, <1>2, <1>3, HeadTailProperties DEF Queued
<1>5. ~Held(m)
  BY <1>4 DEF OwnInv, OwnedOnce
<1>6. /\ pending' = [pending EXCEPT ![w] = m]
      /\ queue' = [queue EXCEPT ![q] = Tail(@)]
      /\ queue \in [Fd -> Seq(Mbuf)]
  BY DEF Accepted, MemoryTypeOK
<1>7. /\ queue'[q] = Tail(queue[q])
      /\ \A f \in Fd : f # q => queue'[f] = queue[f]
  BY <1>1, <1>6
<1> HIDE DEF q, m
<1>8. /\ Len(pending') = Len(pending) /\ pending'[w] = m
      /\ \A v \in 1..Len(pending) : v # w => pending'[v] = pending[v]
      /\ w \in 1..Len(pending)
  BY <1>6, PendingSet, PendingAt
<1>9. /\ \A i \in 1..Len(queue'[q]) :
            i + 1 \in 1..Len(queue[q]) /\ queue'[q][i] = queue[q][i + 1]
      /\ \A f \in Fd : f # q => \A i \in 1..Len(queue'[f]) :
            i \in 1..Len(queue[f]) /\ queue'[f][i] = queue[f][i]
  <2>1. \A i \in 1..Len(queue'[q]) :
            i + 1 \in 1..Len(queue[q]) /\ queue'[q][i] = queue[q][i + 1]
    BY <1>3, <1>7
  <2> QED BY <1>7, <2>1
<1>10. QueuesDisjoint'
  <2> SUFFICES ASSUME NEW f \in Fd, NEW g \in Fd, NEW i \in 1..Len(queue'[f]),
                      NEW j \in 1..Len(queue'[g]), queue'[f][i] = queue'[g][j]
               PROVE  f = g /\ i = j
    BY DEF QueuesDisjoint
  <2>1. i \in Int /\ j \in Int
    OBVIOUS
  <2>2. CASE f = q /\ g = q
    <3>1. queue[q][i + 1] = queue[q][j + 1]
      BY <1>9, <2>2
    <3>2. i + 1 \in 1..Len(queue[q]) /\ j + 1 \in 1..Len(queue[q])
      BY <1>9, <2>2
    <3>3. i + 1 = j + 1
      BY <1>1, <3>1, <3>2 DEF OwnInv, QueuesDisjoint
    <3> QED BY <2>1, <2>2, <3>3
  <2>3. CASE f = q /\ g # q
    <3>1. queue[q][i + 1] = queue[g][j] /\ i + 1 \in 1..Len(queue[q])
          /\ j \in 1..Len(queue[g])
      BY <1>9, <2>3
    <3> QED BY <1>1, <2>3, <3>1 DEF OwnInv, QueuesDisjoint
  <2>4. CASE f # q /\ g = q
    <3>1. queue[f][i] = queue[q][j + 1] /\ j + 1 \in 1..Len(queue[q])
          /\ i \in 1..Len(queue[f])
      BY <1>9, <2>4
    <3> QED BY <1>1, <2>4, <3>1 DEF OwnInv, QueuesDisjoint
  <2>5. CASE f # q /\ g # q
    BY <1>9, <2>5 DEF OwnInv, QueuesDisjoint
  <2> QED BY <2>2, <2>3, <2>4, <2>5
<1>11. HoldersDisjoint'
  BY <1>5, <1>8 DEF OwnInv, HoldersDisjoint, Held
<1>12. \A n \in Mbuf : Held(n)' <=> Held(n) \/ n = m
  <2>1. \A n \in Mbuf : n # NoMbuf
    BY WatchAssumption
  <2> QED BY <1>2, <1>8, <2>1 DEF Held
<1>13. \A n \in Mbuf : Queued(n)' <=> Queued(n) /\ n # m
  <2> SUFFICES ASSUME NEW n \in Mbuf PROVE Queued(n)' <=> Queued(n) /\ n # m
    OBVIOUS
  <2>1. ASSUME Queued(n)' PROVE Queued(n) /\ n # m
    <3>1. PICK f \in Fd : \E i \in 1..Len(queue'[f]) : queue'[f][i] = n
      BY <2>1 DEF Queued
    <3>2. PICK i \in 1..Len(queue'[f]) : queue'[f][i] = n
      BY <3>1
    <3>3. CASE f = q
      <4>1. i + 1 \in 1..Len(queue[q]) /\ n = queue[q][i + 1] /\ i + 1 # 1
        BY <1>9, <3>2, <3>3
      <4>2. 1 \in 1..Len(queue[q])
        BY <1>3
      <4> QED BY <1>1, <1>3, <4>1, <4>2 DEF Queued, OwnInv, QueuesDisjoint
    <3>4. CASE f # q
      <4>1. 1 \in 1..Len(queue[q])
        BY <1>3
      <4> QED BY <1>1, <1>3, <1>9, <3>2, <3>4, <4>1 DEF Queued, OwnInv, QueuesDisjoint
    <3> QED BY <3>3, <3>4
  <2>2. ASSUME Queued(n), n # m PROVE Queued(n)'
    <3>1. PICK f \in Fd : \E i \in 1..Len(queue[f]) : queue[f][i] = n
      BY <2>2 DEF Queued
    <3>2. PICK i \in 1..Len(queue[f]) : queue[f][i] = n
      BY <3>1
    <3>3. CASE f = q
      <4>1. i # 1
        BY <1>3, <2>2, <3>2, <3>3
      <4>2. i - 1 \in 1..Len(queue'[q])
        BY <1>3, <1>7, <3>2, <3>3, <4>1
      <4>3. queue'[q][i - 1] = queue[q][(i - 1) + 1]
        BY <1>1, <1>9, <4>2
      <4>4. (i - 1) + 1 = i
        OBVIOUS
      <4> QED BY <1>1, <3>2, <3>3, <4>2, <4>3, <4>4 DEF Queued
    <3>4. CASE f # q
      BY <1>7, <3>2, <3>4 DEF Queued
    <3> QED BY <3>3, <3>4
  <2> QED BY <2>1, <2>2
<1>14. OwnedOnce'
  BY <1>4, <1>12, <1>13 DEF OwnInv, OwnedOnce
<1> QED BY <1>10, <1>11, <1>14 DEF OwnInv

\* A watch gives up its buffer: nobody else holds it.
LEMMA Released ==
    ASSUME ListTypeOK, HoldersDisjoint, NEW w \in linked, pending[w] \in Mbuf,
           pending' = [pending EXCEPT ![w] = NoMbuf]
    PROVE  /\ HoldersDisjoint'
           /\ \A m \in Mbuf : Held(m)' <=> Held(m) /\ m # pending[w]
<1>1. /\ Len(pending') = Len(pending) /\ pending'[w] = NoMbuf
      /\ \A v \in 1..Len(pending) : v # w => pending'[v] = pending[v]
      /\ w \in 1..Len(pending)
  BY PendingSet, PendingAt
<1>2. \A m \in Mbuf : m # NoMbuf
  BY WatchAssumption
<1> QED BY <1>1, <1>2 DEF HoldersDisjoint, Held

\* watch_free_write_aio frees the buffer of its watch, which is nowhere else.
LEMMA WriteOwned ==
    ASSUME TypeOK, OwnInv, NEW w \in linked, LoopWrite(w)
    PROVE  OwnInv'
<1> USE DEF TypeOK
<1>1. pending[w] \in Mbuf
  BY PendingMbuf DEF LoopWrite, CompleteWrite
<1>2. /\ charge' = [charge EXCEPT ![pending[w]] = Unallocated]
      /\ pending' = [pending EXCEPT ![w] = NoMbuf]
      /\ queue' = queue
  BY DEF LoopWrite, CompleteWrite
<1>3. /\ HoldersDisjoint'
      /\ \A m \in Mbuf : Held(m)' <=> Held(m) /\ m # pending[w]
  BY <1>1, <1>2, Released DEF OwnInv
<1>4. QueuesDisjoint' /\ \A m \in Mbuf : Queued(m)' <=> Queued(m)
  BY <1>2 DEF OwnInv, QueuesDisjoint, Queued
<1>5. Held(pending[w])
  BY PendingAt DEF Held
<1>6. \A m \in Mbuf : charge'[m] = IF m = pending[w] THEN Unallocated ELSE charge[m]
  BY <1>1, <1>2 DEF MemoryTypeOK
<1>7. OwnedOnce'
  BY <1>1, <1>3, <1>4, <1>5, <1>6 DEF OwnInv, OwnedOnce
<1> QED BY <1>3, <1>4, <1>7 DEF OwnInv

\* The buffers mbuf_alloc hands out are nowhere.
LEMMA FreeNowhere ==
    ASSUME OwnInv, NEW m \in FreeMbufs
    PROVE  ~Queued(m) /\ ~Held(m)
BY DEF OwnInv, OwnedOnce, FreeMbufs

\* queue_push_flow.
LEMMA FlowPushOwned ==
    ASSUME MemoryTypeOK, OwnInv, MemoryTypeOK', NEW D \in SUBSET Fd,
           NEW fl \in Flow \cup {NoFlow}, queue_push_flow(D, fl),
           HoldersDisjoint', \A m \in Mbuf : Held(m)' <=> Held(m)
    PROVE  OwnInv'
<1> DEFINE f == CHOOSE g \in Allocations(D) : TRUE
<1>1. f \in [D -> FreeMbufs] /\ \A d, e \in D : f[d] = f[e] => d = e
  BY AllocationChoice DEF queue_push_flow
<1>2. /\ queue' = [q \in Fd |-> IF q \in D THEN Append(queue[q], f[q]) ELSE queue[q]]
      /\ charge' = [m \in Mbuf |-> IF m \in {f[d] : d \in D} THEN fl ELSE charge[m]]
  BY DEF queue_push_flow
<1> HIDE DEF f
<1>3. f \in [D -> Mbuf] /\ \A d \in D : ~Queued(f[d]) /\ ~Held(f[d])
  BY <1>1, FreeNowhere DEF FreeMbufs
<1>4. \A m \in Mbuf : charge'[m] # Unallocated
                        <=> charge[m] # Unallocated \/ \E d \in D : f[d] = m
  BY <1>2, WatchAssumption
<1>5. \A m \in Mbuf : Held(m)' <=> Held(m) /\ ~\E d \in D : f[d] = m
  BY <1>3
<1>6. Pushes(D, f)
  BY <1>1, <1>2, <1>3, <1>4, <1>5 DEF Pushes
<1> QED BY <1>6, PushOwned

\* A command goes to command sockets or back to the DM.
LEMMA TargetsWithin ==
    ASSUME NEW d, NEW c \in Command
    PROVE  CommandTargets(d, c) \subseteq CmdFd \cup {d}
<1>1. Route[c] \subseteq Perif
  BY RouterAssumption
<1> QED BY <1>1 DEF CommandTargets, CmdFd

\* diag_ffs_recv queues what the command asks for and, on bulk_out, its buffer.
LEMMA FfsOwned ==
    ASSUME TypeOK, TypeOK', OwnInv, NEW w \in linked, diag_ffs_recv(w)
    PROVE  OwnInv'
<1> USE DEF TypeOK
<1>1. pending[w] \in Mbuf
  BY PendingMbuf DEF diag_ffs_recv
<1>2. PICK D \in {{}} \cup {CommandTargets(Usb, c) : c \in Command} :
        /\ Allocations(D) # {}
        /\ queue' = [q \in Fd |->
               IF q \in D THEN Append(queue[q], (CHOOSE f \in Allocations(D) : TRUE)[q])
               ELSE IF q = BulkOut THEN Append(queue[q], pending[w])
               ELSE queue[q]]
        /\ charge' = [m \in Mbuf |->
               IF \E q \in D : (CHOOSE f \in Allocations(D) : TRUE)[q] = m
               THEN NoFlow ELSE charge[m]]
  BY DEF diag_ffs_recv
<1>3. D \in SUBSET Fd /\ BulkOut \notin D /\ BulkOut \in Fd
  <2>1. D \subseteq CmdFd \cup {Usb}
    BY TargetsWithin
  <2> QED BY <2>1, RouterAssumption
<1> DEFINE f == CHOOSE g \in Allocations(D) : TRUE
<1>4. f \in [D -> FreeMbufs] /\ \A d, e \in D : f[d] = f[e] => d = e
  BY <1>2, AllocationChoice
<1>5. /\ queue' = [q \in Fd |-> IF q \in D THEN Append(queue[q], f[q])
                                ELSE IF q = BulkOut THEN Append(queue[q], pending[w])
                                ELSE queue[q]]
      /\ charge' = [m \in Mbuf |-> IF \E q \in D : f[q] = m
                                   THEN NoFlow ELSE charge[m]]
  BY <1>2
<1> HIDE DEF f
<1>6. Held(pending[w]) /\ ~Queued(pending[w]) /\ charge[pending[w]] # Unallocated
  <2>1. Held(pending[w])
    BY PendingAt DEF Held
  <2> QED BY <1>1, <2>1 DEF OwnInv, OwnedOnce
<1>7. \A d \in D : ~Queued(f[d]) /\ ~Held(f[d]) /\ f[d] \in Mbuf
  BY <1>4, FreeNowhere DEF FreeMbufs
<1> DEFINE P == D \cup {BulkOut}
           x == [q \in P |-> IF q \in D THEN f[q] ELSE pending[w]]
<1>8. x \in [P -> Mbuf] /\ P \in SUBSET Fd
  BY <1>1, <1>3, <1>7
<1>9. \A d, e \in P : x[d] = x[e] => d = e
  <2>1. \A d \in D : f[d] # pending[w]
    BY <1>6, <1>7
  <2> QED BY <1>3, <1>4, <2>1
<1>10. \A d \in P : ~Queued(x[d])
  BY <1>6, <1>7
<1>11. queue' = [q \in Fd |-> IF q \in P THEN Append(queue[q], x[q]) ELSE queue[q]]
  BY <1>3, <1>5
<1>12. \A m \in Mbuf : (\E d \in P : x[d] = m)
                         <=> (\E d \in D : f[d] = m) \/ m = pending[w]
  BY <1>3
<1>13. \A m \in Mbuf : charge'[m] # Unallocated
                         <=> charge[m] # Unallocated \/ \E d \in P : x[d] = m
  <2>1. NoFlow # Unallocated
    BY WatchAssumption
  <2> QED BY <1>5, <1>6, <1>12, <2>1
<1>14. /\ HoldersDisjoint'
       /\ \A m \in Mbuf : Held(m)' <=> Held(m) /\ m # pending[w]
  BY <1>1, Released DEF OwnInv, diag_ffs_recv
<1>15. \A m \in Mbuf : Held(m)' <=> Held(m) /\ ~\E d \in P : x[d] = m
  BY ZenonT(30), <1>7, <1>12, <1>14
<1>16. MemoryTypeOK /\ MemoryTypeOK'
  OBVIOUS
<1> HIDE DEF P, x, TypeOK
<1>17. Pushes(P, x)
  BY <1>8, <1>9, <1>10, <1>11, <1>13, <1>14, <1>15 DEF Pushes
<1> QED BY <1>16, <1>17, PushOwned

-----------------------------------------------------------------------------
(* Every step of the router is one of these.                               *)

\* Watches keep what they have pending; one may be added, with nothing.
PendingKept == pending' = pending \/ pending' = Append(pending, NoMbuf)

\* Queues, charges and pending buffers change in four ways: not at all, by an
\* accepted submission, by a completion, or by a push.
LEMMA BufferSteps ==
    ASSUME TypeOK, [Next]_vars
    PROVE  \/ UNCHANGED <<queue, charge>> /\ PendingKept
           \/ \E w \in linked : SubmitNext(w) /\ Accepted(w) /\ UNCHANGED charge
           \/ \E w \in linked : LoopWrite(w) \/ diag_ffs_recv(w)
           \/ \E D \in SUBSET (Dm \cup CmdFd), fl \in Flow \cup {NoFlow} :
                  queue_push_flow(D, fl) /\ PendingKept
<1> DEFINE Quiet == UNCHANGED <<queue, charge>> /\ PendingKept
           Push  == \E D \in SUBSET (Dm \cup CmdFd), fl \in Flow \cup {NoFlow} :
                        queue_push_flow(D, fl) /\ PendingKept
<1>l. Listeners \in SUBSET (Dm \cup CmdFd)
  BY ListenersFinite DEF TypeOK
<1>1. CASE Loop
  <2>1. ASSUME NEW w \in linked,
               (\E res \in Results : SubmitSocket(w, res)) \/ SubmitEndpoint(w)
        PROVE  SubmitNext(w) /\ Accepted(w) /\ UNCHANGED charge
    BY <2>1 DEF SubmitSocket, SubmitSync, SubmitEndpoint, SubmitAsync
  <2>2. ASSUME NEW w \in linked, SubmitFailed(w) \/ LoopAbort(w) \/ LoopEagain(w)
        PROVE  Quiet
    BY <2>2 DEF SubmitFailed, SubmitRefused, LoopAbort, CompleteAbort, LoopEagain,
                CompleteEagain, memory, PendingKept
  <2>3. CASE LoopSelect \/ LoopReadEventfd \/ LoopGetEvents \/ LoopCompleteDone
             \/ LoopDispatchDone
    BY <2>3 DEF LoopSelect, Select, LoopReadEventfd, ReadEventfd, LoopGetEvents,
                GetEvents, LoopCompleteDone, CompleteDone, LoopDispatchDone,
                DispatchDone, memory, PendingKept
  <2>4. ASSUME NEW c \in Client,
               \/ unix_listen(c) \/ DmRecv(c) \/ DmRecvEagain(c)
               \/ DmRecvEof(c) \/ DmRecvError(c)
        PROVE  Quiet
    BY <2>4 DEF unix_listen, watch_add_aio, DmRecv, DmRecvEagain, DmRecvEof,
                DmRecvError, memory, PendingKept
  <2>5. ASSUME NEW c \in Client, DmRecvCommand(c)
        PROVE  Push
    <3>1. rx[c] \in Seq(Command) /\ rx[c] # <<>>
      BY <2>5 DEF DmRecvCommand, EnvTypeOK, TypeOK
    <3>2. Head(rx[c]) \in Command
      BY <3>1, HeadTailProperties
    <3>3. CommandTargets(c, Head(rx[c])) \in SUBSET (Dm \cup CmdFd)
      BY <3>2, TargetsWithin DEF Dm
    <3> QED BY <2>5, <3>3 DEF DmRecvCommand, diag_client_handle_command, PendingKept
  <2>6. CASE ep0_recv
    BY <2>6 DEF ep0_recv, watch_add_aio, memory, PendingKept
  <2>7. ASSUME NEW p \in Perif, qrtr_data_recv(p)
        PROVE  Quiet \/ Push
    <3>0. p \in Flow
      BY RouterAssumption
    <3>1. PICK k \in Packets :
            \/ qrtr_data_recv_data(p, k)
            \/ qrtr_data_recv_bye(p, k)
            \/ UNCHANGED <<memory, pending>>
      BY <2>7 DEF qrtr_data_recv
    <3> QED BY <1>l, <3>0, <3>1 DEF qrtr_data_recv_data, qrtr_data_recv_bye,
                 watch_add_aio, dm_broadcast, memory, PendingKept
  <2>8. ASSUME NEW p \in Perif, qrtr_cmd_recv(p)
        PROVE  Quiet \/ Push
    <3>1. \/ dm_broadcast(NoFlow) /\ UNCHANGED pending
          \/ watch_add_aio(cmd_fd[p], TRUE) /\ UNCHANGED memory
          \/ UNCHANGED <<memory, pending>>
      BY <2>8 DEF qrtr_cmd_recv
    <3> QED BY <1>l, <3>1 DEF dm_broadcast, watch_add_aio, memory, PendingKept
  <2>9. CASE Handlers
    BY <2>4, <2>5, <2>6, <2>7, <2>8, <2>9 DEF Handlers
  <2> QED BY <1>1, <2>1, <2>2, <2>3, <2>9 DEF Loop
<1>2. CASE Environment
  BY <1>2 DEF Environment, ClientConnect, ClientClose, ClientSend, PerifSend,
              PerifCommandSocket, ServerUpDown, Plug, Unplug, EndpointComplete,
              KernelComplete, watchVars, memory, PendingKept
<1>3. CASE UNCHANGED vars
  BY <1>3 DEF vars, watchVars, memory, PendingKept
<1> QED BY <1>1, <1>2, <1>3 DEF Next

\* A watch that is added holds nothing.
LEMMA KeptHolders ==
    ASSUME ListTypeOK, HoldersDisjoint, PendingKept
    PROVE  HoldersDisjoint' /\ \A m \in Mbuf : Held(m)' <=> Held(m)
<1>1. CASE pending' = pending
  BY <1>1 DEF HoldersDisjoint, Held
<1>2. CASE pending' = Append(pending, NoMbuf)
  <2>1. /\ Len(pending) \in Nat /\ Len(pending') = Len(pending) + 1
        /\ \A w \in 1..Len(pending) : pending'[w] = pending[w]
        /\ pending'[Len(pending) + 1] = NoMbuf
    BY <1>2, AppendAt DEF ListTypeOK
  <2>2. \A w \in 1..Len(pending') : w \in 1..Len(pending) \/ pending'[w] = NoMbuf
    BY <2>1
  <2>3. \A w \in 1..Len(pending) : w \in 1..Len(pending')
    BY <2>1
  <2>4. \A m \in Mbuf : m # NoMbuf
    BY WatchAssumption
  <2> HIDE <1>2
  <2>5. HoldersDisjoint'
    BY <2>1, <2>2 DEF HoldersDisjoint
  <2> QED BY <2>1, <2>2, <2>3, <2>4, <2>5 DEF Held
<1> QED BY <1>1, <1>2 DEF PendingKept

\* Every step preserves one owner per buffer.
LEMMA NextOwnInv == TypeOK /\ TypeOK' /\ OwnInv /\ [Next]_vars => OwnInv'
<1> SUFFICES ASSUME TypeOK, TypeOK', OwnInv, [Next]_vars PROVE OwnInv'
  OBVIOUS
<1>t. MemoryTypeOK /\ ListTypeOK /\ MemoryTypeOK'
  BY DEF TypeOK
<1>1. CASE UNCHANGED <<queue, charge>> /\ PendingKept
  <2>1. HoldersDisjoint' /\ \A m \in Mbuf : Held(m)' <=> Held(m)
    BY <1>1, <1>t, KeptHolders DEF OwnInv
  <2>2. QueuesDisjoint' /\ \A m \in Mbuf : Queued(m)' <=> Queued(m)
    BY <1>1 DEF OwnInv, QueuesDisjoint, Queued
  <2> QED BY <1>1, <2>1, <2>2 DEF OwnInv, OwnedOnce
<1>2. ASSUME NEW w \in linked, SubmitNext(w), Accepted(w), UNCHANGED charge
      PROVE  OwnInv'
  BY <1>2, <1>t, AcceptedOwned
<1>3. ASSUME NEW w \in linked, LoopWrite(w) \/ diag_ffs_recv(w)
      PROVE  OwnInv'
  BY <1>3, WriteOwned, FfsOwned
<1>4. ASSUME NEW D \in SUBSET (Dm \cup CmdFd), NEW fl \in Flow \cup {NoFlow},
             queue_push_flow(D, fl), PendingKept
      PROVE  OwnInv'
  <2>0. D \in SUBSET Fd
    BY DmFinite, RouterAssumption
  <2>1. HoldersDisjoint' /\ \A m \in Mbuf : Held(m)' <=> Held(m)
    BY <1>4, <1>t, KeptHolders DEF OwnInv
  <2> QED BY <1>4, <1>t, <2>0, <2>1, FlowPushOwned
<1> QED BY <1>1, <1>2, <1>3, <1>4, BufferSteps

\* main leaves one buffer, the one diag_usb_open queued for bulk_out.
LEMMA InitOwnInv == Init => OwnInv
<1> SUFFICES ASSUME Init PROVE OwnInv
  OBVIOUS
<1>1. /\ queue = [f \in Fd |-> IF UseUsb /\ f = BulkOut THEN <<OutBuf>> ELSE <<>>]
      /\ charge = [m \in Mbuf |-> IF UseUsb /\ m = OutBuf THEN NoFlow ELSE Unallocated]
  BY DEF Init
<1>2. \A w \in 1..Len(pending) : pending[w] = NoMbuf
  <2>1. ListTypeOK
    BY InitTypeOK DEF TypeOK
  <2>2. DOMAIN pending = 1..Len(pending)
    BY <2>1, PendingAt
  <2>3. \A w \in DOMAIN pending : pending[w] = NoMbuf
    BY DEF Init, WatchInit
  <2> QED BY <2>2, <2>3
<1>3. \A f \in Fd : \A i \in 1..Len(queue[f]) :
        UseUsb /\ f = BulkOut /\ i = 1 /\ queue[f][i] = OutBuf
  <2>1. Len(<<OutBuf>>) = 1 /\ <<OutBuf>>[1] = OutBuf /\ Len(<<>>) = 0
    OBVIOUS
  <2> QED BY <1>1, <2>1
<1>4. UseUsb => Queued(OutBuf)
  <2>1. BulkOut \in Fd
    BY RouterAssumption
  <2>2. UseUsb => queue[BulkOut] = <<OutBuf>>
    BY <1>1, <2>1
  <2>3. Len(<<OutBuf>>) = 1 /\ <<OutBuf>>[1] = OutBuf
    OBVIOUS
  <2> QED BY <2>1, <2>2, <2>3 DEF Queued
<1>5. \A m \in Mbuf : Queued(m) => UseUsb /\ m = OutBuf
  BY <1>3 DEF Queued
<1>6. \A m \in Mbuf : ~Held(m)
  BY <1>2, WatchAssumption DEF Held
<1>7. \A m \in Mbuf : charge[m] # Unallocated <=> UseUsb /\ m = OutBuf
  BY <1>1, WatchAssumption
<1>8. OwnedOnce
  BY <1>4, <1>5, <1>6, <1>7 DEF OwnedOnce
<1>9. QueuesDisjoint /\ HoldersDisjoint
  BY <1>2, <1>3 DEF QueuesDisjoint, HoldersDisjoint
<1> QED BY <1>8, <1>9 DEF OwnInv

\* With one owner per buffer, the set of its places is empty or a singleton.
LEMMA OwnedPlaces == TypeOK /\ OwnInv => OneOwner
<1> SUFFICES ASSUME TypeOK, OwnInv PROVE OneOwner
  OBVIOUS
<1>t. linked \subseteq 1..Len(pending) /\ pending \in Seq(Mbuf \cup {NoMbuf})
  BY DEF TypeOK, ListTypeOK
<1>e. \A w \in 1..Len(pending) : pending[w] \in Mbuf \cup {NoMbuf}
  BY <1>t
<1>1. \A w \in Leaks : charge[pending[w]] # Unallocated
  <2> SUFFICES ASSUME NEW w \in 1..Len(pending), pending[w] # NoMbuf
               PROVE  charge[pending[w]] # Unallocated
    BY DEF Leaks
  <2>1. pending[w] \in Mbuf /\ Held(pending[w])
    BY <1>e DEF Held
  <2> QED BY <2>1 DEF OwnInv, OwnedOnce
<1>2. ASSUME NEW m \in Mbuf
      PROVE  Cardinality(Places(m)) =
                 IF charge[m] = Unallocated \/ \E w \in Leaks : pending[w] = m
                 THEN 0 ELSE 1
  <2>0. NoMbuf # m
    BY WatchAssumption
  <2>1. \A pl : pl \in Places(m) <=>
          \/ \E f \in Fd : \E i \in 1..Len(queue[f]) : pl = <<f, i>> /\ queue[f][i] = m
          \/ \E w \in linked : pl = <<"pending", w>> /\ pending[w] = m
    BY DEF Places
  <2>2. CASE charge[m] = Unallocated
    <3>1. ~Queued(m) /\ ~Held(m)
      BY <2>2 DEF OwnInv, OwnedOnce
    <3>2. Places(m) = {}
      BY <1>t, <2>1, <3>1 DEF Queued, Held
    <3> QED BY <2>2, <3>2, FS_EmptySet
  <2>3. CASE charge[m] # Unallocated /\ Queued(m)
    <3>1. ~Held(m)
      BY <2>3 DEF OwnInv, OwnedOnce
    <3>2. PICK f \in Fd : \E i \in 1..Len(queue[f]) : queue[f][i] = m
      BY <2>3 DEF Queued
    <3>3. PICK i \in 1..Len(queue[f]) : queue[f][i] = m
      BY <3>2
    <3>4. \A g \in Fd : \A j \in 1..Len(queue[g]) : queue[g][j] = m => g = f /\ j = i
      BY <3>3 DEF OwnInv, QueuesDisjoint
    <3>5. Places(m) = {<<f, i>>}
      BY <1>t, <2>1, <3>1, <3>3, <3>4 DEF Held
    <3>6. ~\E w \in Leaks : pending[w] = m
      BY <3>1 DEF Leaks, Held
    <3> QED BY <2>3, <3>5, <3>6, FS_Singleton
  <2>4. CASE charge[m] # Unallocated /\ Held(m)
    <3>1. ~Queued(m)
      BY <2>4 DEF OwnInv, OwnedOnce
    <3>2. PICK w \in 1..Len(pending) : pending[w] = m
      BY <2>4 DEF Held
    <3>3. \A v \in 1..Len(pending) : pending[v] = m => v = w
      BY <2>0, <3>2 DEF OwnInv, HoldersDisjoint
    <3>4. CASE w \in linked
      <4>1. Places(m) = {<<"pending", w>>}
        BY <1>t, <2>1, <3>1, <3>2, <3>3, <3>4 DEF Queued
      <4>2. ~\E v \in Leaks : pending[v] = m
        BY <3>3, <3>4 DEF Leaks
      <4> QED BY <2>4, <4>1, <4>2, FS_Singleton
    <3>5. CASE w \notin linked
      <4>1. Places(m) = {}
        BY <1>t, <2>1, <3>1, <3>3, <3>5 DEF Queued
      <4>2. w \in Leaks
        BY <2>0, <3>2, <3>5 DEF Leaks
      <4> QED BY <3>2, <4>1, <4>2, FS_EmptySet
    <3> QED BY <3>4, <3>5
  <2> QED BY <2>2, <2>3, <2>4 DEF OwnInv, OwnedOnce
<1> QED BY <1>1, <1>2 DEF OneOwner

\* OwnInv holds in every reachable state.
LEMMA OwnInvAlways == Spec => []OwnInv
BY InitOwnInv, NextOwnInv, TypeCorrect, PTL DEF Spec

\* Every buffer is in one queue or pending on one watch of the lists while it is
\* allocated, unless its watch was freed under it, and nowhere once it is freed,
\* whatever clients, hosts and peripherals do: watch_free_write_aio frees no buffer
\* twice, and queue_push_flow and diag_ffs_recv put none on two lists.
THEOREM OneOwnerAlways == Spec => []OneOwner
BY OwnInvAlways, OwnedPlaces, TypeCorrect, PTL
=============================================================================
