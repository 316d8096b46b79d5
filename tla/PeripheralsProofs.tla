-------------------------- MODULE PeripheralsProofs --------------------------
(***************************************************************************)
(* Proofs about Peripherals.tla, for every set of peripherals, every       *)
(* script of control packets and any number of restarts: type correctness, *)
(* nothing refers to a peripheral that was freed, requests are queued for  *)
(* open channels, a process keeps the diag id it was told, router and      *)
(* subsystem agree on the features, and the command table is exactly what  *)
(* was registered.                                                         *)
(***************************************************************************)
EXTENDS Peripherals, TLAPS, FiniteSetTheorems, SequenceTheorems, WellFoundedInduction

-----------------------------------------------------------------------------
(* The inductive form of TypeOK.                                           *)

\* The command table is a finite bag of entries.
TableOK ==
    /\ DOMAIN diag_cmds \subseteq Entry
    /\ IsFiniteSet(DOMAIN diag_cmds)
    /\ \A e \in DOMAIN diag_cmds : diag_cmds[e] \in Nat \ {0}

\* Features and diag ids.
AgreedOK ==
    /\ features \in [Perif -> SUBSET Feature]
    /\ diag_ids \in Seq(DiagId)
    /\ diag_id \in Nat

QueuesOK ==
    /\ cntlq \in [Perif -> Seq(ControlPacket)]
    /\ cmdq \in [Perif -> Seq(DmCommand)]
    /\ dataq \in [Perif -> Seq(DmCommand)]

TransportOK ==
    /\ peripherals \subseteq Perif
    /\ fds \in [Perif -> SUBSET AllChannels]
    /\ cntl_open \subseteq Qrtr
    /\ deaf \subseteq Qrtr
    /\ timer \subseteq Rpmsg
    /\ devnodes \subseteq Rpmsg \X AllChannels
    /\ rfds \subseteq (Perif \X AllChannels) \cup {Monitor}
    /\ parsing \in [Perif -> Seq(ControlCommand)]
    /\ crashed \in BOOLEAN

\* What a control socket delivers, and what udev does.
Arrival == Seq(ControlCommand) \cup {Bye, Ignored, Failed}
UdevEvent == [action : {"add", "remove"}, rproc : Rpmsg, channel : AllChannels]

OutsideOK ==
    /\ up \subseteq Perif
    /\ boots \in [Perif -> Nat]
    /\ sent \in [Perif -> Nat]
    /\ inbox \in [Perif -> Seq(Arrival)]
    /\ \A p \in Rpmsg : inbox[p] \in Seq(Seq(ControlCommand))
    /\ dead \subseteq Rpmsg
    /\ udev \in Seq(UdevEvent)
    /\ missed \subseteq Rpmsg
    /\ agreed \in [Perif -> (SUBSET Feature) \cup {NoAnswer}]
    /\ told \in [Name \cup {Garbage} -> SUBSET Nat]
    /\ commands \in Nat
    /\ notices \in Nat

\* What select() found ready stays so until its callback: an event, an open channel
\* of an RPMSG peripheral, a packet unless the channel was lost since.
ReadyStays ==
    /\ Monitor \in rfds => udev # <<>>
    /\ \A p \in Rpmsg : \A c \in AllChannels : <<p, c>> \in rfds => c \in fds[p]
    /\ \A p \in Perif : <<p, "cntl">> \in rfds /\ p \notin dead => inbox[p] # <<>>

TypeInv == TableOK /\ AgreedOK /\ QueuesOK /\ TransportOK /\ OutsideOK /\ ReadyStays

-----------------------------------------------------------------------------
(* The command table.                                                      *)

\* A set of numbers up to a bound that has a member.
LEMMA CountedSome ==
    ASSUME NEW n \in Nat, NEW T \in SUBSET (1..n)
    PROVE  /\ Cardinality(T) \in Nat
           /\ T # {} => Cardinality(T) # 0
<1>1. IsFiniteSet(1..n)
  BY FS_Interval
<1>2. IsFiniteSet(T)
  BY <1>1, FS_Subset
<1> QED BY <1>2, FS_CardinalityType, FS_EmptySet

\* The entries of a packet are finitely many and belong to its sender.
LEMMA EntriesOK ==
    ASSUME NEW p \in Perif, NEW c \in ControlCommand, c.op \in {"register", "deregister"}
    PROVE  /\ Len(c.ranges) \in Nat
           /\ Entries(p, c) \subseteq Entry
           /\ \A e \in Entries(p, c) : e.peripheral = p
           /\ IsFiniteSet(Entries(p, c))
<1>1. /\ c.cmd \in Nat /\ c.subsys \in Nat
      /\ c.ranges \in Seq([first : Nat, last : Nat])
  BY DEF ControlCommand
<1>2. Len(c.ranges) \in Nat
  BY <1>1, LenProperties
<1>3. \A i \in 1..Len(c.ranges) : c.ranges[i] \in [first : Nat, last : Nat]
  BY <1>1, ElementOfSeq
<1>4. \A i \in 1..Len(c.ranges) : EntryOf(p, c, i) \in Entry /\ EntryOf(p, c, i).peripheral = p
  BY <1>1, <1>3 DEF EntryOf, Entry, RegisteredCmd, DIAG_CMD_SUBSYS_DISPATCH
<1>5. Entries(p, c) \subseteq Entry /\ \A e \in Entries(p, c) : e.peripheral = p
  BY <1>4 DEF Entries
<1>6. IsFiniteSet(Entries(p, c))
  <2> DEFINE f == [i \in 1..Len(c.ranges) |-> EntryOf(p, c, i)]
  <2>1. f \in Surjection(1..Len(c.ranges), Entries(p, c))
    BY DEF Surjection, Entries
  <2>2. IsFiniteSet(1..Len(c.ranges))
    BY <1>2, FS_Interval
  <2> HIDE DEF f
  <2> QED BY <2>1, <2>2, FS_Surjection
<1> QED BY <1>2, <1>5, <1>6

LEMMA RegisterTable ==
    ASSUME TableOK, NEW p \in Perif, NEW c \in ControlCommand,
           c.op = "register", diag_cntl_register(p, c)
    PROVE  /\ TableOK'
           /\ \A e \in DOMAIN diag_cmds' : e \in DOMAIN diag_cmds \/ e.peripheral = p
<1> DEFINE Spots(e) == {i \in 1..Len(c.ranges) : EntryOf(p, c, i) = e}
<1>1. /\ Len(c.ranges) \in Nat
      /\ Entries(p, c) \subseteq Entry
      /\ \A e \in Entries(p, c) : e.peripheral = p
      /\ IsFiniteSet(Entries(p, c))
  BY EntriesOK
<1>2. DOMAIN diag_cmds' = DOMAIN diag_cmds \cup Entries(p, c)
  BY DEF diag_cntl_register
<1>3. \A e \in DOMAIN diag_cmds' : diag_cmds'[e] = Times(e) + Cardinality(Spots(e))
  BY DEF diag_cntl_register
<1>4. ASSUME NEW e \in DOMAIN diag_cmds' PROVE diag_cmds'[e] \in Nat \ {0}
  <2>1. /\ Cardinality(Spots(e)) \in Nat
        /\ Spots(e) # {} => Cardinality(Spots(e)) # 0
    BY <1>1, CountedSome
  <2>2. e \notin DOMAIN diag_cmds => Spots(e) # {}
    BY <1>2 DEF Entries
  <2>3. /\ Times(e) \in Nat
        /\ e \in DOMAIN diag_cmds => Times(e) # 0
    BY DEF Times, TableOK
  <2> HIDE DEF Spots
  <2> QED BY <1>3, <2>1, <2>2, <2>3
<1>5. IsFiniteSet(DOMAIN diag_cmds')
  BY <1>1, <1>2, FS_Union DEF TableOK
<1> QED BY <1>1, <1>2, <1>4, <1>5 DEF TableOK

\* Deregistering and closing only remove entries.
LEMMA RestrictedTable ==
    ASSUME TableOK, NEW D \in SUBSET DOMAIN diag_cmds,
           diag_cmds' = [e \in D |-> diag_cmds[e]]
    PROVE  TableOK' /\ DOMAIN diag_cmds' = D
<1>1. IsFiniteSet(D)
  BY FS_Subset DEF TableOK
<1> QED BY <1>1 DEF TableOK

\* A command goes finitely often to a peripheral, and not at all to one without
\* entries.
LEMMA CopiesOK ==
    ASSUME TableOK, NEW p \in Perif, NEW m
    PROVE  /\ Copies(p, m) \in Nat
           /\ (\A e \in DOMAIN diag_cmds : e.peripheral # p) => Copies(p, m) = 0
<1> DEFINE D == {d \in DOMAIN diag_cmds : d.peripheral = p /\ Matches(d, m)}
           Spots(e) == {<<e, i>> : i \in 1..diag_cmds[e]}
           f == [e \in D |-> Spots(e)]
           g(e) == [i \in 1..diag_cmds[e] |-> <<e, i>>]
<1>1. Copies(p, m) = Cardinality(UNION {Spots(e) : e \in D})
  BY DEF Copies
<1>2. IsFiniteSet(D)
  BY FS_Subset DEF TableOK
<1>3. IsFiniteSet({Spots(e) : e \in D})
  <2>1. f \in Surjection(D, {Spots(e) : e \in D})
    BY DEF Surjection
  <2> HIDE DEF D, f
  <2> QED BY <1>2, <2>1, FS_Surjection
<1>4. ASSUME NEW e \in D PROVE IsFiniteSet(Spots(e))
  <2>1. g(e) \in Surjection(1..diag_cmds[e], Spots(e))
    BY DEF Surjection
  <2>2. IsFiniteSet(1..diag_cmds[e])
    BY FS_Interval DEF TableOK
  <2> HIDE DEF g, Spots
  <2> QED BY <2>1, <2>2, FS_Surjection
<1>5. IsFiniteSet(UNION {Spots(e) : e \in D})
  BY <1>3, <1>4, FS_UNION
<1>6. (\A e \in DOMAIN diag_cmds : e.peripheral # p) => UNION {Spots(e) : e \in D} = {}
  OBVIOUS
<1> HIDE DEF Spots, D
<1> QED BY <1>1, <1>5, <1>6, FS_CardinalityType, FS_EmptySet

-----------------------------------------------------------------------------
(* The operations of the control channel keep the types.                   *)

LEMMA ConstantSeq ==
    ASSUME NEW S, NEW e \in S, NEW n \in Nat
    PROVE  [i \in 1..n |-> e] \in Seq(S)
OBVIOUS

LEMMA LeastExists ==
    ASSUME NEW T \in SUBSET Nat, T # {}
    PROVE  \E x \in T : \A y \in T : x <= y
<1> DEFINE R == {ss \in Nat \X Nat : ss[1] < ss[2]}
<1>1. IsWellFoundedOn(R, Nat)
  BY NatLessThanWellFounded, Zenon DEF OpToRel
<1> HIDE DEF R
<1>2. PICK x \in T : \A y \in T : ~(<<y, x>> \in R)
  BY <1>1, WFMin, Zenon
<1>3. \A y \in T : ~(y < x)
  BY <1>2 DEF R
<1> QED BY <1>3

\* find_diag_id finds an entry of that name.
LEMMA FirstKnown ==
    ASSUME diag_ids \in Seq(DiagId), NEW n, Known(n) # {}
    PROVE  /\ FirstOf(Known(n)) \in 1..Len(diag_ids)
           /\ diag_ids[FirstOf(Known(n))].name = n
           /\ diag_ids[FirstOf(Known(n))].id \in Nat
<1>1. Len(diag_ids) \in Nat /\ \A i \in 1..Len(diag_ids) : diag_ids[i] \in DiagId
  BY LenProperties, ElementOfSeq
<1>2. Known(n) \in SUBSET (1..Len(diag_ids)) /\ \A i \in Known(n) : diag_ids[i].name = n
  BY DEF Known
<1>3. \E x \in Known(n) : \A y \in Known(n) : x <= y
  BY <1>1, <1>2, LeastExists
<1>4. FirstOf(Known(n)) \in Known(n)
  BY <1>3 DEF FirstOf
<1> QED BY <1>1, <1>2, <1>4 DEF DiagId

\* Packets are appended to one queue.
LEMMA Pushed ==
    ASSUME NEW S, NEW q \in [Perif -> Seq(S)], NEW p \in Perif, NEW s \in Seq(S)
    PROVE  /\ Push(q, p, s) \in [Perif -> Seq(S)]
           /\ Push(q, p, s)[p] = q[p] \o s
           /\ \A x \in Perif \ {p} : Push(q, p, s)[x] = q[x]
BY ConcatProperties DEF Push

LEMMA ControlPackets ==
    /\ \A m \in SUBSET Feature : [op |-> "feature", mask |-> m] \in ControlPacket
    /\ \A k \in {"msg_mask", "log_mask", "event_mask", "diag_mode", "buffering_mode"} :
          [op |-> k] \in ControlPacket
    /\ \A i \in Nat, n \in Name \cup {Garbage} :
          [op |-> "diag_id", id |-> i, name |-> n] \in ControlPacket
    /\ MaskPackets \in Seq(ControlPacket)
<1>1. /\ \A m \in SUBSET Feature : [op |-> "feature", mask |-> m] \in ControlPacket
      /\ \A k \in {"msg_mask", "log_mask", "event_mask", "diag_mode", "buffering_mode"} :
            [op |-> k] \in ControlPacket
      /\ \A i \in Nat, n \in Name \cup {Garbage} :
            [op |-> "diag_id", id |-> i, name |-> n] \in ControlPacket
  BY DEF ControlPacket
<1>2. MSG_MASK_TBL_CNT \in Nat
  BY CntlAssumption
<1>3. [op |-> "msg_mask"] \in ControlPacket
  BY <1>1
<1>4. MaskPackets \in Seq(ControlPacket)
  BY <1>2, <1>3, ConstantSeq DEF MaskPackets
<1> QED BY <1>1, <1>4

\* The answer to a feature mask.
FeatureAnswer(mask) ==
    <<[op |-> "feature", mask |-> mask]>> \o MaskPackets
    \o <<[op |-> "diag_mode"], [op |-> "buffering_mode"]>>

LEMMA FeatureAnswerOK ==
    ASSUME NEW mask \in SUBSET Feature
    PROVE  FeatureAnswer(mask) \in Seq(ControlPacket)
<1>1. /\ [op |-> "feature", mask |-> mask] \in ControlPacket
      /\ [op |-> "diag_mode"] \in ControlPacket
      /\ [op |-> "buffering_mode"] \in ControlPacket
      /\ MaskPackets \in Seq(ControlPacket)
  BY ControlPackets
<1>2. /\ <<[op |-> "feature", mask |-> mask]>> \in Seq(ControlPacket)
      /\ <<[op |-> "diag_mode"], [op |-> "buffering_mode"]>> \in Seq(ControlPacket)
  BY <1>1
<1> QED BY <1>1, <1>2, ConcatProperties DEF FeatureAnswer

LEMMA FeatureMaskOK ==
    ASSUME AgreedOK, QueuesOK, NEW p \in Perif, NEW c \in ControlCommand,
           NEW channels, NEW sockets \in BOOLEAN,
           diag_cntl_feature_mask(p, c, channels, sockets)
    PROVE  /\ features' \in [Perif -> SUBSET Feature]
           /\ features'[p] = c.mask \cap local_mask(channels, sockets)
           /\ \A x \in Perif \ {p} : features'[x] = features[x]
           /\ cntlq' = Push(cntlq, p, FeatureAnswer(c.mask \cap local_mask(channels, sockets)))
           /\ cntlq' \in [Perif -> Seq(ControlPacket)]
<1> DEFINE both == c.mask \cap local_mask(channels, sockets)
<1>1. both \in SUBSET Feature
  BY DEF local_mask, Feature
<1>2. /\ features' = [features EXCEPT ![p] = both]
      /\ cntlq' = Push(cntlq, p, FeatureAnswer(both))
  BY DEF diag_cntl_feature_mask, diag_cntl_send_feature_mask, FeatureAnswer
<1> HIDE DEF both
<1>3. cntlq' \in [Perif -> Seq(ControlPacket)]
  BY <1>1, <1>2, FeatureAnswerOK, Pushed DEF QueuesOK
<1>4. /\ features' \in [Perif -> SUBSET Feature]
      /\ features'[p] = both
      /\ \A x \in Perif \ {p} : features'[x] = features[x]
  BY <1>1, <1>2 DEF AgreedOK
<1> QED BY <1>2, <1>3, <1>4 DEF both

LEMMA DiagIdOK ==
    ASSUME AgreedOK, QueuesOK, NEW p \in Perif, NEW c \in ControlCommand,
           c.op = "diag_id", diag_cntl_process_diag_id(p, c)
    PROVE  /\ diag_ids' \in Seq(DiagId)
           /\ diag_id' \in Nat
           /\ cntlq' \in [Perif -> Seq(ControlPacket)]
           /\ \A x \in Perif \ {p} : cntlq'[x] = cntlq[x]
<1> DEFINE n == process_name(p, c)
<1>1. /\ c.version \in Nat /\ c.id \in Nat /\ c.name \in Name
      /\ n \in Name \cup {Garbage}
  BY DEF ControlCommand, process_name
<1>2. NewId(c) \in Nat /\ IdModulus \in Nat \ {0}
  BY <1>1, CntlAssumption DEF NewId, AgreedOK
<1>3. NewId(c) % IdModulus \in Nat
  BY <1>2
<1>4. ASSUME NEW i \in Nat, DiagIdAnswer(p, i, n)
      PROVE  /\ cntlq' \in [Perif -> Seq(ControlPacket)]
             /\ \A x \in Perif \ {p} : cntlq'[x] = cntlq[x]
  <2>1. [op |-> "diag_id", id |-> i, name |-> n] \in ControlPacket
    BY <1>1, ControlPackets
  <2>2. <<[op |-> "diag_id", id |-> i, name |-> n]>> \in Seq(ControlPacket)
    BY <2>1
  <2>3. PICK s \in Seq(ControlPacket) : s = <<[op |-> "diag_id", id |-> i, name |-> n]>>
    BY <2>2
  <2>4. cntlq' = Push(cntlq, p, s)
    BY <1>4, <2>3 DEF DiagIdAnswer
  <2>5. cntlq \in [Perif -> Seq(ControlPacket)]
    BY DEF QueuesOK
  <2>6. /\ Push(cntlq, p, s) \in [Perif -> Seq(ControlPacket)]
        /\ \A x \in Perif \ {p} : Push(cntlq, p, s)[x] = cntlq[x]
    BY <2>5, Pushed
  <2> QED BY <2>4, <2>6
<1>5. CASE ProcessKnownId(p, c)
  <2>1. /\ Known(n) # {} /\ diag_id' = diag_ids[FirstOf(Known(n))].id
        /\ DiagIdAnswer(p, diag_ids[FirstOf(Known(n))].id, n)
        /\ diag_ids' = diag_ids
    BY <1>5 DEF ProcessKnownId
  <2>2. diag_ids[FirstOf(Known(n))].id \in Nat
    BY <2>1, FirstKnown DEF AgreedOK
  <2> QED BY <1>4, <2>1, <2>2 DEF AgreedOK
<1>6. CASE ProcessNewId(p, c)
  <2>1. /\ diag_id' = NewId(c)
        /\ diag_ids' = Append(diag_ids, [id |-> NewId(c) % IdModulus, name |-> n])
        /\ DiagIdAnswer(p, NewId(c), n)
    BY <1>6 DEF ProcessNewId
  <2>2. [id |-> NewId(c) % IdModulus, name |-> n] \in DiagId
    BY <1>1, <1>3 DEF DiagId
  <2> QED BY <1>2, <1>4, <2>1, <2>2, AppendProperties DEF AgreedOK
<1>7. CASE ProcessIdRefused(p, c)
  BY <1>2, <1>7 DEF ProcessIdRefused, AgreedOK, QueuesOK
<1> QED BY <1>5, <1>6, <1>7 DEF diag_cntl_process_diag_id

\* The commands of a packet keep the types.
LEMMA HandleOK ==
    ASSUME TableOK, AgreedOK, QueuesOK, NEW p \in Perif, NEW c \in ControlCommand,
           Handle(p, c), UNCHANGED <<cmdq, dataq>>
    PROVE  TableOK' /\ AgreedOK' /\ QueuesOK'
<1>1. CASE c.op = "register" /\ diag_cntl_register(p, c)
           /\ UNCHANGED <<features, diag_ids, diag_id, cntlq>>
  BY <1>1, RegisterTable DEF AgreedOK, QueuesOK
<1>2. CASE c.op = "deregister" /\ diag_cntl_deregister(p, c)
           /\ UNCHANGED <<features, diag_ids, diag_id, cntlq>>
  <2>1. PICK D \in SUBSET DOMAIN diag_cmds : D = DOMAIN diag_cmds \ Entries(p, c)
    OBVIOUS
  <2>2. diag_cmds' = [e \in D |-> diag_cmds[e]]
    BY <1>2, <2>1 DEF diag_cntl_deregister
  <2> QED BY <1>2, <2>2, RestrictedTable DEF AgreedOK, QueuesOK
<1>3. CASE c.op = "feature" /\ diag_cntl_feature_mask(p, c, fds[p], p \in Qrtr)
           /\ UNCHANGED <<diag_cmds, diag_ids, diag_id>>
  <2>1. (p \in Qrtr) \in BOOLEAN
    OBVIOUS
  <2>2. diag_cntl_feature_mask(p, c, fds[p], p \in Qrtr)
    BY <1>3
  <2>3. /\ features' \in [Perif -> SUBSET Feature]
        /\ cntlq' \in [Perif -> Seq(ControlPacket)]
    BY <2>1, <2>2, FeatureMaskOK, Zenon
  <2> QED BY <1>3, <2>3 DEF TableOK, AgreedOK, QueuesOK
<1>4. CASE c.op = "diag_id" /\ diag_cntl_process_diag_id(p, c)
           /\ UNCHANGED <<diag_cmds, features>>
  BY <1>4, DiagIdOK DEF TableOK, AgreedOK, QueuesOK
<1>5. CASE UNCHANGED <<diag_cmds, features, diag_ids, diag_id, cntlq>>
  BY <1>5 DEF TableOK, AgreedOK, QueuesOK
<1> QED BY <1>1, <1>2, <1>3, <1>4, <1>5 DEF Handle

\* Handing out a DM's command keeps the types of the queues.
LEMMA DispatchOK ==
    ASSUME TableOK, QueuesOK, NEW m \in DmCommand, NEW P, NEW R,
           DispatchCommon(m, P) \/ (DispatchForward(m, R) /\ UNCHANGED cntlq)
    PROVE  QueuesOK'
<1>1. CASE DispatchCommon(m, P)
  <2>1. PICK k \in {"msg_mask", "log_mask", "event_mask", "none"} :
          cntlq' = [p \in Perif |-> IF p \in P /\ k # "none"
                                    THEN Append(cntlq[p], [op |-> k])
                                    ELSE cntlq[p]]
    BY <1>1 DEF DispatchCommon
  <2>2. k # "none" => [op |-> k] \in ControlPacket
    BY ControlPackets
  <2>3. \A p \in Perif : k # "none" => Append(cntlq[p], [op |-> k]) \in Seq(ControlPacket)
    BY <2>2, AppendProperties DEF QueuesOK
  <2> QED BY <1>1, <2>1, <2>3 DEF DispatchCommon, QueuesOK
<1>2. CASE DispatchForward(m, R)
  <2>1. \A p \in Perif : Sent(p, m) \in Seq(DmCommand)
    BY CopiesOK, ConstantSeq DEF Sent
  <2>2. \A p \in Perif : /\ cmdq[p] \o Sent(p, m) \in Seq(DmCommand)
                         /\ dataq[p] \o Sent(p, m) \in Seq(DmCommand)
    BY <2>1, ConcatProperties DEF QueuesOK
  <2> QED BY <1>2, <2>2 DEF DispatchForward, QueuesOK
<1> QED BY <1>1, <1>2

-----------------------------------------------------------------------------
(* Every step keeps the types.                                             *)

LEMMA Given ==
    /\ Qrtr \subseteq Perif /\ Rpmsg \subseteq Perif
    /\ Perif = Qrtr \cup Rpmsg /\ Qrtr \cap Rpmsg = {}
    /\ Script \in [Perif -> Seq(Seq(ControlCommand))]
    /\ \A p \in Rpmsg, a \in {"add", "remove"} : Events(p, a) \in Seq(UdevEvent)
<1>1. Qrtr \subseteq Perif /\ Script \in [Perif -> Seq(Seq(ControlCommand))]
  BY PeripheralsAssumption
<1>2. /\ Rpmsg \subseteq Perif /\ Perif = Qrtr \cup Rpmsg /\ Qrtr \cap Rpmsg = {}
  BY <1>1 DEF Rpmsg
<1>3. ASSUME NEW p \in Rpmsg, NEW a \in {"add", "remove"}
      PROVE  Events(p, a) \in Seq(UdevEvent)
  <2> DEFINE order == IF Channels[p] = AllChannels THEN <<"data", "cntl", "cmd">>
                                                   ELSE <<"data", "cntl">>
  <2>1. order \in Seq(AllChannels)
    <3>1. <<"data", "cntl", "cmd">> \in Seq(AllChannels)
      BY DEF AllChannels
    <3>2. <<"data", "cntl">> \in Seq(AllChannels)
      BY DEF AllChannels
    <3> QED BY <3>1, <3>2
  <2>2. Events(p, a) = [i \in 1..Len(order) |->
                          [action |-> a, rproc |-> p, channel |-> order[i]]]
    BY DEF Events
  <2> HIDE DEF order
  <2>3. Len(order) \in Nat /\ \A i \in 1..Len(order) : order[i] \in AllChannels
    BY <2>1, LenProperties, ElementOfSeq
  <2>4. \A i \in 1..Len(order) :
          [action |-> a, rproc |-> p, channel |-> order[i]] \in UdevEvent
    BY <2>3 DEF UdevEvent
  <2> QED BY <2>2, <2>3, <2>4
<1> QED BY <1>1, <1>2, <1>3

LEMMA CntlKept ==
    ASSUME TableOK, AgreedOK, QueuesOK, UNCHANGED cntlVars
    PROVE  TableOK' /\ AgreedOK' /\ QueuesOK'
BY DEF TableOK, AgreedOK, QueuesOK, cntlVars

\* Descriptors of channels are not that of the monitor.
LEMMA MonitorApart == \A p, c : <<p, c>> # Monitor
<1> SUFFICES ASSUME NEW p, NEW c, <<p, c>> = Monitor PROVE FALSE
  OBVIOUS
<1>1. Len(<<p, c>>) = Len(<<"udev">>)
  BY DEF Monitor
<1> QED BY <1>1

LEMMA InitTypes == Init => TypeInv
<1> SUFFICES ASSUME Init PROVE TypeInv
  OBVIOUS
<1>1. TableOK
  BY FS_EmptySet DEF Init, CntlInit, TableOK
<1>2. AgreedOK /\ QueuesOK
  BY CntlAssumption DEF Init, CntlInit, AgreedOK, QueuesOK
<1>3. TransportOK
  <2>1. \A S : <<>> \in Seq(S)
    BY EmptySeq
  <2>2. fds \in [Perif -> SUBSET AllChannels]
    BY DEF Init
  <2> QED BY <2>1, <2>2, Given DEF Init, TransportOK
<1>4. OutsideOK
  <2>1. \A S : <<>> \in Seq(S)
    BY EmptySeq
  <2> QED BY <2>1, Given DEF Init, OutsideOK
<1>5. ReadyStays
  BY DEF Init, ReadyStays
<1> QED BY <1>1, <1>2, <1>3, <1>4, <1>5 DEF TypeInv

LEMMA SelectTypes ==
    ASSUME TypeInv, Select
    PROVE  TypeInv'
<1>1. TableOK' /\ AgreedOK' /\ QueuesOK'
  BY CntlKept DEF TypeInv, Select
<1>2. Ready \subseteq (Perif \X AllChannels) \cup {Monitor}
  BY Given DEF Ready, TypeInv, OutsideOK, AllChannels
<1>3. TransportOK'
  BY <1>2 DEF TypeInv, TransportOK, Select
<1>4. OutsideOK'
  BY DEF TypeInv, OutsideOK, Select, outside
<1>5. /\ Monitor \in Ready => udev # <<>>
      /\ \A p \in Rpmsg : \A c \in AllChannels : <<p, c>> \in Ready => c \in fds[p]
      /\ \A p \in Perif : <<p, "cntl">> \in Ready /\ p \notin dead => inbox[p] # <<>>
  BY Given, MonitorApart DEF Ready, AllChannels
<1>6. ReadyStays'
  BY <1>5 DEF ReadyStays, Select, outside
<1> QED BY <1>1, <1>3, <1>4, <1>6 DEF TypeInv

\* The packet a callback takes from the control channel.
LEMMA Arrived ==
    ASSUME TypeInv, NEW p \in Perif, <<p, "cntl">> \in rfds, p \notin dead
    PROVE  /\ inbox[p] # <<>>
           /\ Head(inbox[p]) \in Arrival
           /\ Head(inbox[p]) \notin {Bye, Ignored, Failed} => Head(inbox[p]) \in Seq(ControlCommand)
           /\ p \in Rpmsg => Head(inbox[p]) \in Seq(ControlCommand)
           /\ \A S : inbox[p] \in Seq(S) => Tail(inbox[p]) \in Seq(S)
<1>1. inbox[p] # <<>>
  BY DEF TypeInv, ReadyStays
<1>2. inbox[p] \in Seq(Arrival) /\ (p \in Rpmsg => inbox[p] \in Seq(Seq(ControlCommand)))
  BY DEF TypeInv, OutsideOK
<1>3. Head(inbox[p]) \in Arrival
  BY <1>1, <1>2, HeadTailProperties
<1>4. p \in Rpmsg => Head(inbox[p]) \in Seq(ControlCommand)
  BY <1>1, <1>2, HeadTailProperties
<1>5. \A S : inbox[p] \in Seq(S) => Tail(inbox[p]) \in Seq(S)
  BY <1>1, HeadTailProperties
<1> QED BY <1>1, <1>3, <1>4, <1>5 DEF Arrival

LEMMA QrtrRecvTypes ==
    ASSUME TypeInv, NEW p \in Perif, qrtr_cntl_recv(p)
    PROVE  TypeInv'
<1>1. TableOK' /\ AgreedOK' /\ QueuesOK'
  BY CntlKept DEF TypeInv, qrtr_cntl_recv
<1>2. p \in Qrtr /\ p \notin Rpmsg /\ p \notin dead /\ <<p, "cntl">> \in rfds
  BY Given DEF qrtr_cntl_recv, Callback, TypeInv, OutsideOK
<1>3. /\ Head(inbox[p]) \notin {Bye, Ignored, Failed} => Head(inbox[p]) \in Seq(ControlCommand)
      /\ Tail(inbox[p]) \in Seq(Arrival)
  BY <1>2, Arrived DEF TypeInv, OutsideOK
<1>4. /\ rfds' = rfds \ {<<p, "cntl">>}
      /\ inbox' = [inbox EXCEPT ![p] = Tail(@)]
      /\ cntl_open' \subseteq cntl_open \cup {p}
      /\ deaf' \subseteq deaf \cup {p}
      /\ \/ parsing' = parsing
         \/ /\ Head(inbox[p]) \notin {Bye, Ignored, Failed}
            /\ parsing' = [parsing EXCEPT ![p] = Head(inbox[p])]
      /\ UNCHANGED <<peripherals, fds, timer, devnodes, crashed, up, boots, sent, dead,
                     udev, missed, agreed, told, commands, notices>>
  BY DEF qrtr_cntl_recv, Callback
<1>5. TransportOK'
  BY <1>2, <1>3, <1>4 DEF TypeInv, TransportOK
<1>6. OutsideOK'
  BY <1>2, <1>3, <1>4, Given DEF TypeInv, OutsideOK
<1>7. ReadyStays'
  BY <1>4, MonitorApart DEF TypeInv, ReadyStays, OutsideOK
<1> QED BY <1>1, <1>5, <1>6, <1>7 DEF TypeInv

LEMMA RpmsgRecvTypes ==
    ASSUME TypeInv, NEW p \in Perif, rpmsg_perif_cntl_recv(p)
    PROVE  TypeInv'
<1>1. TableOK' /\ AgreedOK' /\ QueuesOK'
  BY CntlKept DEF TypeInv, rpmsg_perif_cntl_recv
<1>2. p \in Rpmsg /\ p \notin dead /\ <<p, "cntl">> \in rfds
  BY DEF rpmsg_perif_cntl_recv, Callback
<1>3. /\ Head(inbox[p]) \in Seq(ControlCommand)
      /\ Tail(inbox[p]) \in Seq(Arrival)
      /\ Tail(inbox[p]) \in Seq(Seq(ControlCommand))
  BY <1>2, Arrived DEF TypeInv, OutsideOK
<1>4. /\ rfds' = rfds \ {<<p, "cntl">>}
      /\ inbox' = [inbox EXCEPT ![p] = Tail(@)]
      /\ parsing' = [parsing EXCEPT ![p] = Head(inbox[p])]
      /\ UNCHANGED <<peripherals, fds, cntl_open, deaf, timer, devnodes, crashed, up,
                     boots, sent, dead, udev, missed, agreed, told, commands, notices>>
  BY DEF rpmsg_perif_cntl_recv, Callback
<1>5. TransportOK'
  BY <1>2, <1>3, <1>4 DEF TypeInv, TransportOK
<1>6. OutsideOK'
  BY <1>2, <1>3, <1>4, Given DEF TypeInv, OutsideOK
<1>7. ReadyStays'
  BY <1>4, MonitorApart DEF TypeInv, ReadyStays, OutsideOK
<1> QED BY <1>1, <1>5, <1>6, <1>7 DEF TypeInv

\* The command diag_cntl_recv looks at, and those that are left.
LEMMA Parsed ==
    ASSUME TypeInv, NEW p \in Perif, parsing[p] # <<>>
    PROVE  Head(parsing[p]) \in ControlCommand /\ Rest(parsing[p]) \in Seq(ControlCommand)
<1>1. parsing[p] \in Seq(ControlCommand)
  BY DEF TypeInv, TransportOK
<1> QED BY <1>1, HeadTailProperties, EmptySeq DEF Rest

LEMMA ParseTypes ==
    ASSUME TypeInv, NEW p \in Perif, diag_cntl_recv(p)
    PROVE  TypeInv'
<1>1. Head(parsing[p]) \in ControlCommand /\ Rest(parsing[p]) \in Seq(ControlCommand)
  BY Parsed DEF diag_cntl_recv
<1>2. TableOK' /\ AgreedOK' /\ QueuesOK'
  BY <1>1, HandleOK DEF TypeInv, diag_cntl_recv
<1>3. TransportOK'
  BY <1>1 DEF TypeInv, TransportOK, diag_cntl_recv
<1>4. OutsideOK' /\ ReadyStays'
  BY DEF TypeInv, OutsideOK, ReadyStays, diag_cntl_recv, outside
<1> QED BY <1>2, <1>3, <1>4 DEF TypeInv

LEMMA UdevTypes ==
    ASSUME TypeInv, peripheral_udev_update
    PROVE  TypeInv'
<1>1. TableOK' /\ AgreedOK' /\ QueuesOK'
  BY CntlKept DEF TypeInv, peripheral_udev_update
<1> DEFINE e == Head(udev)
<1>2. udev # <<>> /\ udev \in Seq(UdevEvent) /\ Monitor \in rfds
  BY DEF peripheral_udev_update, Callback, TypeInv, ReadyStays, OutsideOK
<1>3. e \in UdevEvent /\ Tail(udev) \in Seq(UdevEvent)
  BY <1>2, HeadTailProperties
<1>4. e.rproc \in Rpmsg /\ e.channel \in AllChannels
  BY <1>3 DEF UdevEvent
<1>5. /\ rfds' = rfds \ {Monitor} /\ udev' = Tail(udev)
      /\ peripherals' \subseteq peripherals \cup {e.rproc}
      /\ timer' \subseteq timer \cup {e.rproc}
      /\ devnodes' \subseteq devnodes \cup {<<e.rproc, e.channel>>}
      /\ UNCHANGED <<fds, cntl_open, deaf, parsing, crashed, up, boots, sent,
                     inbox, dead, missed, agreed, told, commands, notices>>
  BY DEF peripheral_udev_update, Callback, devnode_add, devnode_remove, peripheral_create
<1> HIDE DEF e
<1>6. TransportOK'
  BY <1>4, <1>5, Given DEF TypeInv, TransportOK
<1>7. OutsideOK'
  BY <1>3, <1>5 DEF TypeInv, OutsideOK
<1>8. ReadyStays'
  BY <1>5 DEF TypeInv, ReadyStays
<1> QED BY <1>1, <1>6, <1>7, <1>8 DEF TypeInv

LEMMA OpenTypes ==
    ASSUME TypeInv, NEW p \in Perif, peripheral_open(p)
    PROVE  TypeInv'
<1>1. p \in Rpmsg /\ rfds' = {}
  BY DEF peripheral_open, Quiet, TypeInv, TransportOK
<1>2. fds' \in [Perif -> SUBSET AllChannels]
  BY DEF peripheral_open, TypeInv, TransportOK
<1>3. cntlq \in [Perif -> Seq(ControlPacket)] /\ MaskPackets \in Seq(ControlPacket)
  BY ControlPackets DEF TypeInv, QueuesOK
<1>4. Push(cntlq, p, MaskPackets) \in [Perif -> Seq(ControlPacket)]
  BY <1>3, Pushed
<1>5. TableOK' /\ AgreedOK' /\ QueuesOK'
  BY <1>3, <1>4 DEF TypeInv, TableOK, AgreedOK, QueuesOK, peripheral_open
<1>6. TransportOK'
  BY <1>1, <1>2 DEF TypeInv, TransportOK, peripheral_open
<1>7. OutsideOK' /\ ReadyStays'
  BY <1>1 DEF TypeInv, OutsideOK, ReadyStays, peripheral_open
<1> QED BY <1>5, <1>6, <1>7 DEF TypeInv

LEMMA ErrorTypes ==
    ASSUME TypeInv, NEW p \in Perif, NEW c \in AllChannels, ChannelError(p, c)
    PROVE  TypeInv'
<1>1. PICK D \in SUBSET DOMAIN diag_cmds :
        D = {d \in DOMAIN diag_cmds : d.peripheral # p}
  OBVIOUS
<1>2. diag_cmds' = [e \in D |-> diag_cmds[e]]
  BY <1>1 DEF ChannelError, perif_rpmsg_close, diag_cntl_close
<1>3. TableOK'
  BY <1>2, RestrictedTable DEF TypeInv
<1>4. \A S : <<>> \in Seq(S)
  BY EmptySeq
<1>5. AgreedOK' /\ QueuesOK'
  BY <1>4 DEF TypeInv, AgreedOK, QueuesOK, ChannelError, perif_rpmsg_close
<1>6. crashed' \in BOOLEAN
  BY DEF ChannelError
<1>7. TransportOK'
  BY <1>6 DEF TypeInv, TransportOK, ChannelError, perif_rpmsg_close
<1>8. OutsideOK'
  BY DEF TypeInv, OutsideOK, ChannelError, perif_rpmsg_close
<1>9. ReadyStays'
  <2>1. /\ rfds' = rfds \ ({p} \X AllChannels) /\ dead' = dead \ {p}
        /\ fds' = [fds EXCEPT ![p] = {}]
        /\ UNCHANGED <<inbox, udev>>
    BY DEF ChannelError, perif_rpmsg_close
  <2>2. \A x \in Perif, a \in AllChannels : <<x, a>> \in rfds' => x # p
    BY <2>1
  <2>3. "cntl" \in AllChannels
    BY DEF AllChannels
  <2> QED BY <2>1, <2>2, <2>3, Given DEF TypeInv, ReadyStays, TransportOK
<1> QED BY <1>3, <1>5, <1>7, <1>8, <1>9 DEF TypeInv

LEMMA DispatchTypes ==
    ASSUME TypeInv, NEW m \in DmCommand, diag_cmd_dispatch(m)
    PROVE  TypeInv'
<1>1. DispatchCommon(m, HasCntl) \/ (DispatchForward(m, ReqRsp) /\ UNCHANGED cntlq)
  BY DEF diag_cmd_dispatch, DispatchForward
<1>2. QueuesOK'
  BY <1>1, DispatchOK DEF TypeInv
<1>3. TableOK' /\ AgreedOK'
  BY DEF TypeInv, TableOK, AgreedOK, diag_cmd_dispatch
<1>4. TransportOK' /\ OutsideOK' /\ ReadyStays'
  BY DEF TypeInv, TransportOK, OutsideOK, ReadyStays, diag_cmd_dispatch, transport
<1> QED BY <1>2, <1>3, <1>4 DEF TypeInv

\* Writing takes packets off the queues.
LEMMA Popped ==
    ASSUME NEW S, NEW q \in [Perif -> Seq(S)], NEW p \in Perif, q[p] # <<>>
    PROVE  [q EXCEPT ![p] = Tail(@)] \in [Perif -> Seq(S)]
BY HeadTailProperties

LEMMA CntlWriteTypes ==
    ASSUME TypeInv, NEW p \in Perif, CntlWrite(p)
    PROVE  TypeInv'
<1>1. cntlq \in [Perif -> Seq(ControlPacket)] /\ cntlq[p] # <<>>
  BY DEF TypeInv, QueuesOK, CntlWrite
<1>2. cntlq' \in [Perif -> Seq(ControlPacket)]
  BY <1>1, Popped DEF CntlWrite
<1>3. TableOK' /\ AgreedOK' /\ QueuesOK'
  BY <1>2 DEF TypeInv, TableOK, AgreedOK, QueuesOK, CntlWrite
<1>4. TransportOK' /\ ReadyStays'
  BY DEF TypeInv, TransportOK, ReadyStays, CntlWrite, transport
<1> DEFINE k == Head(cntlq[p])
<1>5. k \in ControlPacket
  BY <1>1, HeadTailProperties
<1>6. /\ k.op = "feature" => k.mask \in SUBSET Feature
      /\ k.op = "diag_id" => k.id \in Nat /\ k.name \in Name \cup {Garbage}
  BY <1>5 DEF ControlPacket
<1>7. /\ agreed' = agreed \/ (k.op = "feature" /\ agreed' = [agreed EXCEPT ![p] = k.mask])
      /\ told' = told \/ (k.op = "diag_id" /\ told' = [told EXCEPT ![k.name] = @ \cup {k.id}])
      /\ UNCHANGED <<up, boots, sent, inbox, dead, udev, missed, commands, notices>>
  BY DEF CntlWrite
<1> HIDE DEF k
<1>8. agreed' \in [Perif -> (SUBSET Feature) \cup {NoAnswer}]
  BY <1>6, <1>7 DEF TypeInv, OutsideOK
<1>9. told' \in [Name \cup {Garbage} -> SUBSET Nat]
  <2>1. told \in [Name \cup {Garbage} -> SUBSET Nat]
    BY DEF TypeInv, OutsideOK
  <2>2. PICK N : N = Name \cup {Garbage}
    OBVIOUS
  <2>3. CASE k.op = "diag_id" /\ told' = [told EXCEPT ![k.name] = @ \cup {k.id}]
    <3>1. k.name \in N /\ k.id \in Nat /\ told \in [N -> SUBSET Nat]
      BY <1>6, <2>1, <2>2, <2>3
    <3>2. told[k.name] \cup {k.id} \in SUBSET Nat
      BY <3>1
    <3> QED BY <2>2, <2>3, <3>1, <3>2
  <2> QED BY <1>7, <2>1, <2>3
<1>10. OutsideOK'
  BY <1>7, <1>8, <1>9 DEF TypeInv, OutsideOK
<1> QED BY <1>3, <1>4, <1>10 DEF TypeInv

LEMMA RequestWriteTypes ==
    ASSUME TypeInv, NEW p \in Perif, RequestWrite(p)
    PROVE  TypeInv'
<1>1. cmdq \in [Perif -> Seq(DmCommand)] /\ dataq \in [Perif -> Seq(DmCommand)]
  BY DEF TypeInv, QueuesOK
<1>2. cmdq' \in [Perif -> Seq(DmCommand)] /\ dataq' \in [Perif -> Seq(DmCommand)]
  <2>1. CASE cmdq[p] # <<>> /\ cmdq' = [cmdq EXCEPT ![p] = Tail(@)] /\ dataq' = dataq
    BY <1>1, <2>1, Popped
  <2>2. CASE dataq[p] # <<>> /\ dataq' = [dataq EXCEPT ![p] = Tail(@)] /\ cmdq' = cmdq
    BY <1>1, <2>2, Popped
  <2> QED BY <2>1, <2>2 DEF RequestWrite
<1>3. TableOK' /\ AgreedOK' /\ QueuesOK'
  BY <1>2 DEF TypeInv, TableOK, AgreedOK, QueuesOK, RequestWrite
<1>4. TransportOK' /\ OutsideOK' /\ ReadyStays'
  BY DEF TypeInv, TransportOK, OutsideOK, ReadyStays, RequestWrite, transport, outside
<1> QED BY <1>3, <1>4 DEF TypeInv

LEMMA BootTypes ==
    ASSUME TypeInv, NEW p \in Perif, Boot(p)
    PROVE  TypeInv'
<1>1. TableOK' /\ AgreedOK' /\ QueuesOK' /\ TransportOK'
  BY CntlKept DEF TypeInv, TransportOK, Boot, transport
<1>2. udev \in Seq(UdevEvent)
  BY DEF TypeInv, OutsideOK
<1>3. p \in Rpmsg => Events(p, "add") \in Seq(UdevEvent)
  BY Given
<1>4. udev' \in Seq(UdevEvent) /\ (udev # <<>> => udev' # <<>>)
  <2>1. CASE p \in Rpmsg
    <3>1. udev' = udev \o Events(p, "add")
      BY <2>1 DEF Boot
    <3> QED BY <1>2, <1>3, <2>1, <3>1, ConcatProperties, ConcatEqualIffEmpty
  <2>2. CASE p \notin Rpmsg
    BY <1>2, <2>2 DEF Boot
  <2> QED BY <2>1, <2>2
<1>5. boots' \in [Perif -> Nat] /\ sent' \in [Perif -> Nat]
  BY DEF TypeInv, OutsideOK, Boot
<1>6. agreed' \in [Perif -> (SUBSET Feature) \cup {NoAnswer}]
  BY DEF TypeInv, OutsideOK, Boot
<1>7. OutsideOK'
  BY <1>4, <1>5, <1>6 DEF TypeInv, OutsideOK, Boot
<1>8. ReadyStays'
  BY <1>4 DEF TypeInv, ReadyStays, Boot, transport
<1> QED BY <1>1, <1>7, <1>8 DEF TypeInv

LEMMA GoDownTypes ==
    ASSUME TypeInv, NEW p \in Perif, GoDown(p)
    PROVE  TypeInv'
<1>1. TableOK' /\ AgreedOK' /\ QueuesOK' /\ TransportOK'
  BY CntlKept DEF TypeInv, TransportOK, GoDown, transport
<1>2. /\ udev \in Seq(UdevEvent) /\ inbox \in [Perif -> Seq(Arrival)]
      /\ \A x \in Rpmsg : inbox[x] \in Seq(Seq(ControlCommand))
      /\ dead \subseteq Rpmsg
  BY DEF TypeInv, OutsideOK
<1>3. CASE p \in Qrtr
  <2>1. inbox' = [inbox EXCEPT ![p] = Append(@, Bye)] /\ udev' = udev /\ dead' = dead
    BY <1>3 DEF GoDown
  <2>2. Append(inbox[p], Bye) \in Seq(Arrival) /\ Append(inbox[p], Bye) # <<>>
    BY <1>2, AppendProperties DEF Arrival
  <2>3. p \notin Rpmsg
    BY <1>3, Given
  <2>4. OutsideOK'
    BY <1>2, <2>1, <2>2, <2>3, Given DEF TypeInv, OutsideOK, GoDown
  <2>5. ReadyStays'
    BY <1>2, <2>1, <2>2 DEF TypeInv, ReadyStays, GoDown, transport
  <2> QED BY <1>1, <2>4, <2>5 DEF TypeInv
<1>4. CASE p \notin Qrtr
  <2>1. p \in Rpmsg
    BY <1>4, Given
  <2>2. /\ inbox' = [inbox EXCEPT ![p] = <<>>] /\ udev' = udev \o Events(p, "remove")
        /\ dead' = IF fds[p] # {} THEN dead \cup {p} ELSE dead
    BY <1>4 DEF GoDown
  <2>3. Events(p, "remove") \in Seq(UdevEvent)
    BY <2>1, Given
  <2>4. udev' \in Seq(UdevEvent) /\ (udev # <<>> => udev' # <<>>)
    BY <1>2, <2>2, <2>3, ConcatProperties, ConcatEqualIffEmpty
  <2>5. inbox' \in [Perif -> Seq(Arrival)] /\ \A x \in Rpmsg : inbox'[x] \in Seq(Seq(ControlCommand))
    <3>1. \A S : <<>> \in Seq(S)
      BY EmptySeq
    <3> QED BY <1>2, <2>2, <3>1, Given
  <2>6. OutsideOK'
    BY <1>2, <2>1, <2>2, <2>4, <2>5 DEF TypeInv, OutsideOK, GoDown
  <2>7. \A c \in AllChannels : <<p, c>> \in rfds => p \in dead'
    BY <2>1, <2>2 DEF TypeInv, ReadyStays
  <2>8. "cntl" \in AllChannels
    BY DEF AllChannels
  <2>9. ReadyStays'
    BY <1>2, <2>2, <2>4, <2>7, <2>8 DEF TypeInv, ReadyStays, GoDown, transport
  <2> QED BY <1>1, <2>6, <2>9 DEF TypeInv
<1> QED BY <1>3, <1>4

\* A packet arrives on a control channel.
LEMMA ArrivalTypes ==
    ASSUME TypeInv, NEW p \in Perif, NEW k \in Arrival,
           p \in Rpmsg => k \in Seq(ControlCommand),
           inbox' = [inbox EXCEPT ![p] = Append(@, k)],
           sent' \in [Perif -> Nat], notices' \in Nat,
           UNCHANGED <<cntlVars, transport, up, boots, dead, udev, missed, agreed, told,
                       commands>>
    PROVE  TypeInv'
<1>1. TableOK' /\ AgreedOK' /\ QueuesOK' /\ TransportOK'
  BY CntlKept DEF TypeInv, TransportOK, transport
<1>2. /\ inbox \in [Perif -> Seq(Arrival)]
      /\ \A x \in Rpmsg : inbox[x] \in Seq(Seq(ControlCommand))
  BY DEF TypeInv, OutsideOK
<1>3. /\ Append(inbox[p], k) \in Seq(Arrival) /\ Append(inbox[p], k) # <<>>
      /\ p \in Rpmsg => Append(inbox[p], k) \in Seq(Seq(ControlCommand))
  BY <1>2, AppendProperties
<1>4. /\ inbox' \in [Perif -> Seq(Arrival)]
      /\ \A x \in Rpmsg : inbox'[x] \in Seq(Seq(ControlCommand))
  BY <1>2, <1>3, Given
<1>5. OutsideOK'
  BY <1>4 DEF TypeInv, OutsideOK
<1>6. ReadyStays'
  BY <1>2, <1>3 DEF TypeInv, ReadyStays, transport
<1> QED BY <1>1, <1>5, <1>6 DEF TypeInv

LEMMA SubsystemSendTypes ==
    ASSUME TypeInv, NEW p \in Perif, SubsystemSend(p)
    PROVE  TypeInv'
<1>1. sent[p] \in Nat /\ sent[p] < Len(Script[p]) /\ sent' \in [Perif -> Nat]
  BY DEF TypeInv, OutsideOK, SubsystemSend
<1>2. Script[p] \in Seq(Seq(ControlCommand)) /\ Len(Script[p]) \in Nat
  BY Given, LenProperties
<1>3. PICK k : k = Script[p][sent[p] + 1]
  OBVIOUS
<1>4. sent[p] + 1 \in 1..Len(Script[p])
  BY <1>1, <1>2
<1>5. k \in Seq(ControlCommand)
  BY <1>2, <1>3, <1>4, ElementOfSeq
<1>6. k \in Arrival
  BY <1>5 DEF Arrival
<1>7. inbox' = [inbox EXCEPT ![p] = Append(@, k)]
  BY <1>3 DEF SubsystemSend
<1> QED BY <1>1, <1>5, <1>6, <1>7, ArrivalTypes DEF SubsystemSend, TypeInv, OutsideOK

LEMMA NoticeTypes ==
    ASSUME TypeInv, NEW p \in Perif, Notice(p)
    PROVE  TypeInv'
<1>1. PICK k \in {Ignored, Failed} : inbox' = [inbox EXCEPT ![p] = Append(@, k)]
  BY DEF Notice
<1>2. k \in Arrival /\ p \notin Rpmsg /\ notices' \in Nat
  BY <1>1, Given DEF Arrival, Notice, TypeInv, OutsideOK
<1> QED BY <1>1, <1>2, ArrivalTypes DEF Notice, TypeInv, OutsideOK

LEMMA NextTypes == TypeInv /\ [Next]_vars => TypeInv'
<1> SUFFICES ASSUME TypeInv, [Next]_vars PROVE TypeInv'
  OBVIOUS
<1>1. CASE UNCHANGED vars
  <2>1. UNCHANGED <<cntlVars, transport, outside>>
    BY <1>1 DEF vars
  <2> QED BY <2>1, CntlKept DEF TypeInv, TransportOK, OutsideOK, ReadyStays, transport, outside
<1>2. CASE RouterStep
  BY <1>2, QrtrRecvTypes, RpmsgRecvTypes, ParseTypes, OpenTypes, ErrorTypes, CntlWriteTypes,
     RequestWriteTypes, SelectTypes, UdevTypes DEF RouterStep
<1>3. CASE Environment
  BY <1>3, BootTypes, GoDownTypes, SubsystemSendTypes, NoticeTypes, DispatchTypes
     DEF Environment
<1> QED BY <1>1, <1>2, <1>3 DEF Next

LEMMA TypeInvAlways == Spec => []TypeInv
BY InitTypes, NextTypes, PTL DEF Spec

\* The tables of the router, its transports and the subsystems stay well typed,
\* whatever the subsystems send and however often they restart.
THEOREM PeripheralsTypes == Spec => []TypeOK
<1>1. TypeInv => TypeOK
  BY DEF TypeInv, TypeOK, TableOK, AgreedOK, QueuesOK, TransportOK, OutsideOK
<1> QED BY <1>1, TypeInvAlways, PTL

-----------------------------------------------------------------------------
(* Sessions: what the router keeps of a peripheral while it has a channel. *)

\* Nothing is registered by p, and nothing is under way to or from it.
Idle(p) ==
    /\ \A e \in DOMAIN diag_cmds : e.peripheral # p
    /\ parsing[p] = <<>>
    /\ cntlq[p] = <<>> /\ cmdq[p] = <<>> /\ dataq[p] = <<>>

\* The inductive invariant behind NoStale and QueueHasChannel.  Channels are open
\* only for peripherals on the list, control and data together; one that waits for
\* its timer has none yet; without a channel there is nothing else either; and
\* REQ_RSP was agreed only if there is a command channel.
SessionInv ==
    /\ Qrtr \subseteq peripherals
    /\ \A p \in Qrtr : fds[p] = AllChannels
    /\ \A p \in Perif : fds[p] # {} => p \in peripherals /\ {"cntl", "data"} \subseteq fds[p]
    /\ \A p \in timer : p \in peripherals /\ fds[p] = {}
    /\ \A p \in Perif : fds[p] = {} => Idle(p)
    /\ \A p \in Rpmsg : "REQ_RSP" \in features[p] => "cmd" \in fds[p]
    /\ \A p \in Perif : cmdq[p] # <<>> => "cmd" \in fds[p]

LEMMA InitSessions == Init => SessionInv
<1> SUFFICES ASSUME Init PROVE SessionInv
  OBVIOUS
<1>1. /\ DOMAIN diag_cmds = {} /\ peripherals = Qrtr /\ timer = {}
      /\ \A p \in Perif : /\ fds[p] = IF p \in Qrtr THEN AllChannels ELSE {}
                          /\ features[p] = {} /\ parsing[p] = <<>>
                          /\ cntlq[p] = <<>> /\ cmdq[p] = <<>> /\ dataq[p] = <<>>
  BY DEF Init, CntlInit
<1> QED BY <1>1, Given DEF SessionInv, Idle, AllChannels

\* A step that leaves the channels alone.
LEMMA SessionKept ==
    ASSUME SessionInv, UNCHANGED <<peripherals, fds, timer>>,
           \A p \in Perif : fds[p] = {} => Idle(p)',
           \A p \in Rpmsg : "REQ_RSP" \in features'[p] => "cmd" \in fds[p],
           \A p \in Perif : cmdq'[p] # <<>> => "cmd" \in fds[p]
    PROVE  SessionInv'
BY DEF SessionInv

\* The same if nothing of a session changes.
LEMMA SessionUntouched ==
    ASSUME SessionInv,
           UNCHANGED <<peripherals, fds, timer, diag_cmds, features, parsing, cntlq, cmdq,
                       dataq>>
    PROVE  SessionInv'
BY SessionKept DEF SessionInv, Idle

\* A callback runs on an open channel.
LEMMA CallbackOpen ==
    ASSUME TypeInv, SessionInv, NEW p \in Perif, <<p, "cntl">> \in rfds
    PROVE  fds[p] # {}
<1>1. CASE p \in Qrtr
  BY <1>1 DEF SessionInv, AllChannels
<1>2. CASE p \in Rpmsg
  BY <1>2 DEF TypeInv, ReadyStays, AllChannels
<1> QED BY <1>1, <1>2, Given

LEMMA RecvSessions ==
    ASSUME TypeInv, SessionInv, NEW p \in Perif,
           qrtr_cntl_recv(p) \/ rpmsg_perif_cntl_recv(p)
    PROVE  SessionInv'
<1>1. /\ <<p, "cntl">> \in rfds
      /\ UNCHANGED <<peripherals, fds, timer, cntlVars>>
      /\ parsing' = parsing \/ \E x : parsing' = [parsing EXCEPT ![p] = x]
  BY DEF qrtr_cntl_recv, rpmsg_perif_cntl_recv, Callback
<1>2. fds[p] # {}
  BY <1>1, CallbackOpen
<1>3. \A x \in Perif : fds[x] = {} => Idle(x)'
  BY <1>1, <1>2 DEF SessionInv, Idle, cntlVars, TypeInv, TransportOK
<1> QED BY <1>1, <1>3, SessionKept DEF SessionInv, cntlVars

\* What a control command of p changes is p's.
LEMMA HandleOwn ==
    ASSUME TypeInv, NEW p \in Perif, NEW c \in ControlCommand, Handle(p, c)
    PROVE  /\ \A e \in DOMAIN diag_cmds' : e \in DOMAIN diag_cmds \/ e.peripheral = p
           /\ \A x \in Perif \ {p} : cntlq'[x] = cntlq[x] /\ features'[x] = features[x]
           /\ "REQ_RSP" \in features'[p] => "REQ_RSP" \in features[p] \/ "cmd" \in fds[p]
<1>1. CASE c.op = "register" /\ diag_cntl_register(p, c)
           /\ UNCHANGED <<features, diag_ids, diag_id, cntlq>>
  BY <1>1, RegisterTable DEF TypeInv
<1>2. CASE c.op = "deregister" /\ diag_cntl_deregister(p, c)
           /\ UNCHANGED <<features, diag_ids, diag_id, cntlq>>
  BY <1>2 DEF diag_cntl_deregister
<1>3. CASE c.op = "feature" /\ diag_cntl_feature_mask(p, c, fds[p], p \in Qrtr)
           /\ UNCHANGED <<diag_cmds, diag_ids, diag_id>>
  <2>1. (p \in Qrtr) \in BOOLEAN
    OBVIOUS
  <2>2. AgreedOK /\ QueuesOK /\ diag_cntl_feature_mask(p, c, fds[p], p \in Qrtr)
    BY <1>3 DEF TypeInv
  <2>m. PICK both : both = c.mask \cap local_mask(fds[p], p \in Qrtr)
    OBVIOUS
  <2>3. /\ features'[p] = both
        /\ \A x \in Perif \ {p} : features'[x] = features[x]
        /\ cntlq' = Push(cntlq, p, FeatureAnswer(both))
    <3>1. /\ features' = [features EXCEPT ![p] = both]
          /\ cntlq' = Push(cntlq, p, FeatureAnswer(both))
      BY <2>2, <2>m DEF diag_cntl_feature_mask, diag_cntl_send_feature_mask, FeatureAnswer
    <3> QED BY <2>2, <3>1 DEF AgreedOK
  <2>4. \A x \in Perif \ {p} : cntlq'[x] = cntlq[x]
    BY <2>2, <2>3 DEF Push, QueuesOK
  <2>5. "REQ_RSP" \in local_mask(fds[p], p \in Qrtr) => "cmd" \in fds[p]
    BY DEF local_mask, CommonFeatures
  <2>6. "REQ_RSP" \in features'[p] => "cmd" \in fds[p]
    BY <2>m, <2>3, <2>5
  <2> QED BY <1>3, <2>3, <2>4, <2>6
<1>4. CASE c.op = "diag_id" /\ diag_cntl_process_diag_id(p, c)
           /\ UNCHANGED <<diag_cmds, features>>
  BY <1>4, DiagIdOK DEF TypeInv
<1>5. CASE UNCHANGED <<diag_cmds, features, diag_ids, diag_id, cntlq>>
  BY <1>5
<1> QED BY <1>1, <1>2, <1>3, <1>4, <1>5 DEF Handle

LEMMA ParseSessions ==
    ASSUME TypeInv, SessionInv, NEW p \in Perif, diag_cntl_recv(p)
    PROVE  SessionInv'
<1>1. fds[p] # {}
  BY DEF diag_cntl_recv, SessionInv, Idle
<1>2. /\ UNCHANGED <<peripherals, fds, timer, cmdq, dataq>>
      /\ parsing' = [parsing EXCEPT ![p] = Rest(@)]
  BY DEF diag_cntl_recv
<1>3. Head(parsing[p]) \in ControlCommand
  BY Parsed DEF diag_cntl_recv
<1>4. /\ \A e \in DOMAIN diag_cmds' : e \in DOMAIN diag_cmds \/ e.peripheral = p
      /\ \A x \in Perif \ {p} : cntlq'[x] = cntlq[x] /\ features'[x] = features[x]
      /\ "REQ_RSP" \in features'[p] => "REQ_RSP" \in features[p] \/ "cmd" \in fds[p]
  BY <1>3, HandleOwn DEF diag_cntl_recv
<1>5. ASSUME NEW x \in Perif, fds[x] = {} PROVE Idle(x)'
  <2>1. x # p /\ Idle(x)
    BY <1>1, <1>5 DEF SessionInv
  <2> QED BY <1>2, <1>4, <2>1 DEF Idle, TypeInv, TransportOK
<1>6. \A x \in Rpmsg : "REQ_RSP" \in features'[x] => "cmd" \in fds[x]
  BY <1>4, Given DEF SessionInv
<1>7. \A x \in Perif : cmdq'[x] # <<>> => "cmd" \in fds[x]
  BY <1>2 DEF SessionInv
<1> QED BY <1>2, <1>5, <1>6, <1>7, SessionKept

LEMMA UdevSessions ==
    ASSUME TypeInv, SessionInv, peripheral_udev_update
    PROVE  SessionInv'
<1> DEFINE x == Head(udev).rproc
<1>1. /\ UNCHANGED <<cntlVars, fds, parsing>>
      /\ \/ UNCHANGED <<peripherals, timer>>
         \/ /\ x \notin peripherals
            /\ peripherals' = peripherals \cup {x} /\ timer' = timer \cup {x}
  BY DEF peripheral_udev_update, peripheral_create
<1>2. x \in Perif
  <2>1. udev # <<>> /\ udev \in Seq(UdevEvent)
    BY DEF peripheral_udev_update, Callback, TypeInv, ReadyStays, OutsideOK
  <2>2. Head(udev) \in UdevEvent
    BY <2>1, HeadTailProperties
  <2> QED BY <2>2, Given DEF UdevEvent
<1> HIDE DEF x
<1>3. CASE UNCHANGED <<peripherals, timer>>
  BY <1>1, <1>3, SessionUntouched DEF cntlVars
<1>4. CASE /\ x \notin peripherals
           /\ peripherals' = peripherals \cup {x} /\ timer' = timer \cup {x}
  <2>1. fds[x] = {}
    BY <1>2, <1>4 DEF SessionInv
  <2>2. \A p \in Perif : Idle(p) => Idle(p)'
    BY <1>1 DEF Idle, cntlVars
  <2> QED BY <1>1, <1>4, <2>1, <2>2 DEF SessionInv, cntlVars
<1> QED BY <1>1, <1>3, <1>4

LEMMA OpenSessions ==
    ASSUME TypeInv, SessionInv, NEW p \in Perif, peripheral_open(p)
    PROVE  SessionInv'
<1>1. /\ p \in Rpmsg /\ p \notin Qrtr /\ p \in peripherals /\ fds[p] = {} /\ Idle(p)
      /\ "REQ_RSP" \notin features[p]
  BY Given DEF peripheral_open, TypeInv, TransportOK, SessionInv
<1>2. /\ timer' = timer \ {p}
      /\ UNCHANGED <<diag_cmds, features, cmdq, dataq, peripherals, parsing>>
  BY DEF peripheral_open
<1>3. CASE Openable(p, "data") /\ Openable(p, "cntl")
  <2>1. /\ fds' = [fds EXCEPT ![p] = {c \in AllChannels : Openable(p, c)}]
        /\ cntlq' = Push(cntlq, p, MaskPackets)
    BY <1>3 DEF peripheral_open
  <2>2. {"cntl", "data"} \subseteq {c \in AllChannels : Openable(p, c)}
    BY <1>3 DEF AllChannels
  <2>3. /\ {"cntl", "data"} \subseteq fds'[p]
        /\ \A x \in Perif \ {p} : fds'[x] = fds[x] /\ cntlq'[x] = cntlq[x]
    BY <2>1, <2>2 DEF TypeInv, TransportOK, QueuesOK, Push
  <2>4. cmdq'[p] = <<>>
    BY <1>1, <1>2 DEF Idle
  <2>5. \A x \in Perif \ {p} : Idle(x) => Idle(x)'
    BY <1>2, <2>3 DEF Idle
  <2>6. \A x \in timer' : x # p /\ x \in timer
    BY <1>2
  <2>7. /\ Qrtr \subseteq peripherals' /\ \A x \in Qrtr : fds'[x] = AllChannels
        /\ \A x \in Perif : fds'[x] # {} => x \in peripherals'
                                              /\ {"cntl", "data"} \subseteq fds'[x]
    BY <1>1, <1>2, <2>3, Given DEF SessionInv
  <2>8. \A x \in timer' : x \in peripherals' /\ fds'[x] = {}
    BY <1>2, <2>3, <2>6, Given DEF SessionInv, TypeInv, TransportOK
  <2>9. \A x \in Perif : fds'[x] = {} => Idle(x)'
    BY <2>3, <2>5 DEF SessionInv
  <2>10. /\ \A x \in Rpmsg : "REQ_RSP" \in features'[x] => "cmd" \in fds'[x]
         /\ \A x \in Perif : cmdq'[x] # <<>> => "cmd" \in fds'[x]
    BY <1>1, <1>2, <2>3, <2>4, Given DEF SessionInv
  <2> QED BY <2>7, <2>8, <2>9, <2>10 DEF SessionInv
<1>4. CASE UNCHANGED <<fds, cntlq>>
  BY <1>2, <1>4 DEF SessionInv, Idle
<1> QED BY <1>3, <1>4 DEF peripheral_open

LEMMA ErrorSessions ==
    ASSUME TypeInv, SessionInv, NEW p \in Perif, NEW c \in AllChannels, ChannelError(p, c)
    PROVE  SessionInv'
<1>1. p \in Rpmsg /\ p \notin Qrtr /\ fds[p] # {} /\ p \notin timer /\ parsing[p] = <<>>
  BY Given DEF ChannelError, Busy, TypeInv, OutsideOK, ReadyStays, SessionInv
<1>2. /\ diag_cntl_close(p)
      /\ fds' = [fds EXCEPT ![p] = {}] /\ features' = [features EXCEPT ![p] = {}]
      /\ cntlq' = [cntlq EXCEPT ![p] = <<>>] /\ cmdq' = [cmdq EXCEPT ![p] = <<>>]
      /\ dataq' = [dataq EXCEPT ![p] = <<>>] /\ peripherals' = peripherals \ {p}
      /\ UNCHANGED <<timer, parsing>>
  BY DEF ChannelError, perif_rpmsg_close
<1>3. /\ \A e \in DOMAIN diag_cmds' : e \in DOMAIN diag_cmds /\ e.peripheral # p
  BY <1>2 DEF diag_cntl_close
<1>4. /\ fds'[p] = {} /\ features'[p] = {} /\ cntlq'[p] = <<>> /\ cmdq'[p] = <<>>
      /\ dataq'[p] = <<>>
      /\ \A x \in Perif \ {p} : /\ fds'[x] = fds[x] /\ features'[x] = features[x]
                                /\ cntlq'[x] = cntlq[x] /\ cmdq'[x] = cmdq[x]
                                /\ dataq'[x] = dataq[x]
  BY <1>2 DEF TypeInv, TransportOK, AgreedOK, QueuesOK
<1>5. Idle(p)' /\ \A x \in Perif \ {p} : Idle(x) => Idle(x)'
  BY <1>1, <1>2, <1>3, <1>4 DEF Idle
<1> QED BY <1>1, <1>2, <1>4, <1>5, Given DEF SessionInv, TypeInv, TransportOK

LEMMA DispatchSessions ==
    ASSUME TypeInv, SessionInv, NEW m \in DmCommand, diag_cmd_dispatch(m)
    PROVE  SessionInv'
<1>1. UNCHANGED <<peripherals, fds, timer, diag_cmds, features, parsing>>
  BY DEF diag_cmd_dispatch, transport
<1>2. CASE DispatchCommon(m, HasCntl)
  <2>1. UNCHANGED <<cmdq, dataq>>
        /\ \A p \in Perif : p \notin HasCntl => cntlq'[p] = cntlq[p]
    BY <1>2 DEF DispatchCommon
  <2>2. \A p \in Perif : fds[p] = {} => Idle(p)'
    BY <1>1, <2>1 DEF SessionInv, Idle, HasCntl
  <2> QED BY <1>1, <2>1, <2>2, SessionKept DEF SessionInv
<1>3. CASE DispatchForward(m, ReqRsp)
  <2>1. /\ cntlq' = cntlq
        /\ \A p \in Perif :
              /\ cmdq'[p] = IF p \in ReqRsp THEN cmdq[p] \o Sent(p, m) ELSE cmdq[p]
              /\ dataq'[p] = IF p \in ReqRsp THEN dataq[p] ELSE dataq[p] \o Sent(p, m)
    BY <1>3 DEF DispatchForward
  <2>2. ASSUME NEW p \in Perif, fds[p] = {} PROVE Idle(p)'
    <3>1. Idle(p)
      BY <2>2 DEF SessionInv
    <3>2. Sent(p, m) = <<>>
      <4>1. Copies(p, m) = 0
        BY <3>1, CopiesOK DEF Idle, TypeInv
      <4> QED BY <4>1 DEF Sent
    <3>3. cmdq'[p] = <<>> /\ dataq'[p] = <<>>
      BY <2>1, <3>1, <3>2, EmptySeq, ConcatEmptySeq DEF Idle
    <3> QED BY <1>1, <2>1, <3>1, <3>3 DEF Idle
  <2>3. ASSUME NEW p \in Perif, cmdq'[p] # <<>> PROVE "cmd" \in fds[p]
    <3>1. CASE p \in ReqRsp
      BY <3>1, Given DEF ReqRsp, SessionInv, AllChannels
    <3>2. CASE p \notin ReqRsp
      BY <2>1, <2>3, <3>2 DEF SessionInv
    <3> QED BY <3>1, <3>2
  <2> QED BY <1>1, <2>2, <2>3, SessionKept DEF SessionInv
<1> QED BY <1>2, <1>3 DEF diag_cmd_dispatch

LEMMA WriteSessions ==
    ASSUME TypeInv, SessionInv, NEW p \in Perif, CntlWrite(p) \/ RequestWrite(p)
    PROVE  SessionInv'
<1>1. UNCHANGED <<peripherals, fds, timer, diag_cmds, features, parsing>>
  BY DEF CntlWrite, RequestWrite, transport
<1>2. CASE cntlq[p] # <<>> /\ cntlq' = [cntlq EXCEPT ![p] = Tail(@)] /\ UNCHANGED <<cmdq, dataq>>
  <2>1. \A x \in Perif : fds[x] = {} => Idle(x)'
    BY <1>1, <1>2 DEF SessionInv, Idle, TypeInv, QueuesOK
  <2> QED BY <1>1, <1>2, <2>1, SessionKept DEF SessionInv
<1>3. CASE cmdq[p] # <<>> /\ cmdq' = [cmdq EXCEPT ![p] = Tail(@)] /\ UNCHANGED <<cntlq, dataq>>
  <2>1. \A x \in Perif : fds[x] = {} => Idle(x)'
    BY <1>1, <1>3 DEF SessionInv, Idle, TypeInv, QueuesOK
  <2>2. \A x \in Perif : cmdq'[x] # <<>> => cmdq[x] # <<>>
    BY <1>3 DEF TypeInv, QueuesOK
  <2> QED BY <1>1, <1>3, <2>1, <2>2, SessionKept DEF SessionInv
<1>4. CASE dataq[p] # <<>> /\ dataq' = [dataq EXCEPT ![p] = Tail(@)] /\ UNCHANGED <<cntlq, cmdq>>
  <2>1. \A x \in Perif : fds[x] = {} => Idle(x)'
    BY <1>1, <1>4 DEF SessionInv, Idle, TypeInv, QueuesOK
  <2> QED BY <1>1, <1>4, <2>1, SessionKept DEF SessionInv
<1> QED BY <1>2, <1>3, <1>4 DEF CntlWrite, RequestWrite

LEMMA NextSessions == TypeInv /\ SessionInv /\ [Next]_vars => SessionInv'
<1> SUFFICES ASSUME TypeInv, SessionInv, [Next]_vars PROVE SessionInv'
  OBVIOUS
<1>1. CASE UNCHANGED vars
  BY <1>1, SessionUntouched DEF vars, cntlVars, transport
<1>2. CASE Select
  BY <1>2, SessionUntouched DEF Select, cntlVars
<1>3. CASE RouterStep
  BY <1>2, <1>3, RecvSessions, ParseSessions, OpenSessions, ErrorSessions, WriteSessions,
     UdevSessions DEF RouterStep
<1>4. ASSUME NEW p \in Perif, Boot(p) \/ GoDown(p) \/ SubsystemSend(p) \/ Notice(p)
      PROVE  SessionInv'
  <2>1. UNCHANGED <<cntlVars, transport>>
    BY <1>4 DEF Boot, GoDown, SubsystemSend, Notice
  <2> QED BY <2>1, SessionUntouched DEF cntlVars, transport
<1>5. CASE Environment
  BY <1>4, <1>5, DispatchSessions DEF Environment
<1> QED BY <1>1, <1>3, <1>5 DEF Next

LEMMA SessionInvAlways == Spec => []SessionInv
BY TypeInvAlways, InitSessions, NextSessions, PTL DEF Spec

\* perif_rpmsg_close leaves nothing behind: for every interleaving of udev events,
\* errors on channels, control packets and commands, no registered command, timer,
\* packet under way or queued request refers to a peripheral that is not on the list.
THEOREM NothingStale == Spec => []NoStale
<1>1. TypeInv /\ SessionInv => NoStale
  BY Given DEF SessionInv, NoStale, Idle, TypeInv, TransportOK
<1> QED BY <1>1, TypeInvAlways, SessionInvAlways, PTL

\* perif_rpmsg_send never queues a request for a channel that is not open, although
\* it decides by a feature that was agreed when control packets were read.
THEOREM RequestsHaveChannel == Spec => []QueueHasChannel
<1>1. TypeInv /\ SessionInv => QueueHasChannel
  BY Given DEF SessionInv, QueueHasChannel, Idle, TypeInv, TransportOK
<1> QED BY <1>1, TypeInvAlways, SessionInvAlways, PTL

-----------------------------------------------------------------------------
(* Diag ids.                                                               *)

\* The ids of the table and whose they are.
Ids == {<<diag_ids[k].id, diag_ids[k].name>> : k \in 1..Len(diag_ids)}

\* Packet k tells nobody an id that is not one of I.
Truthful(k, I) == k.op = "diag_id" => <<k.id, k.name>> \in I

\* The inductive invariant: no id and no name is in the table twice, and every id
\* that was told, or is on its way, is the one of the table.
IdInv ==
    /\ \A i, j \in 1..Len(diag_ids) :
          i # j => /\ diag_ids[i].id # diag_ids[j].id
                   /\ diag_ids[i].name # diag_ids[j].name
    /\ \A p \in Perif : \A k \in 1..Len(cntlq[p]) : Truthful(cntlq[p][k], Ids)
    /\ \A n \in Name \cup {Garbage} : \A i \in told[n] : <<i, n>> \in Ids

\* The ids in use fit the eight bits of an entry.  diag_id_exists compares 32 bits
\* with them, and a process whose id does not fit is told another one the next time.
IdsFit == diag_id < IdModulus

LEMMA SmallIds ==
    ASSUME NEW i \in Nat, NEW m \in Nat, i < m
    PROVE  i % m = i
OBVIOUS

PlainPacket == {k \in ControlPacket : k.op # "diag_id"}

\* What peripheral_open and the answer to a feature mask queue is about no id.
LEMMA PlainAnswers ==
    /\ MaskPackets \in Seq(PlainPacket)
    /\ \A mask \in SUBSET Feature : FeatureAnswer(mask) \in Seq(PlainPacket)
<1>1. /\ [op |-> "msg_mask"] \in PlainPacket
      /\ [op |-> "diag_mode"] \in PlainPacket
      /\ [op |-> "buffering_mode"] \in PlainPacket
      /\ \A mask \in SUBSET Feature : [op |-> "feature", mask |-> mask] \in PlainPacket
  BY ControlPackets DEF PlainPacket
<1>2. MSG_MASK_TBL_CNT \in Nat
  BY CntlAssumption
<1>3. MaskPackets \in Seq(PlainPacket)
  BY <1>1, <1>2, ConstantSeq DEF MaskPackets
<1>4. ASSUME NEW mask \in SUBSET Feature PROVE FeatureAnswer(mask) \in Seq(PlainPacket)
  <2>1. /\ <<[op |-> "feature", mask |-> mask]>> \in Seq(PlainPacket)
        /\ <<[op |-> "diag_mode"], [op |-> "buffering_mode"]>> \in Seq(PlainPacket)
    BY <1>1
  <2> QED BY <1>3, <2>1, ConcatProperties DEF FeatureAnswer
<1> QED BY <1>3, <1>4

\* Appending truthful packets to a queue.
LEMMA TruthfulPush ==
    ASSUME QueuesOK, IdInv, NEW p \in Perif, NEW s \in Seq(ControlPacket),
           cntlq' = Push(cntlq, p, s),
           Ids \subseteq Ids',
           \A k \in 1..Len(s) : Truthful(s[k], Ids')
    PROVE  \A x \in Perif : \A k \in 1..Len(cntlq'[x]) : Truthful(cntlq'[x][k], Ids')
<1>1. cntlq \in [Perif -> Seq(ControlPacket)]
  BY DEF QueuesOK
<1>2. cntlq'[p] = cntlq[p] \o s /\ \A x \in Perif \ {p} : cntlq'[x] = cntlq[x]
  BY <1>1 DEF Push
<1>3. \A x \in Perif : \A k \in 1..Len(cntlq[x]) : Truthful(cntlq[x][k], Ids')
  BY DEF IdInv, Truthful
<1>4. ASSUME NEW k \in 1..Len(cntlq'[p]) PROVE Truthful(cntlq'[p][k], Ids')
  <2>1. /\ Len(cntlq[p]) \in Nat /\ Len(s) \in Nat
        /\ Len(cntlq[p] \o s) = Len(cntlq[p]) + Len(s)
        /\ \A j \in 1..(Len(cntlq[p]) + Len(s)) :
              (cntlq[p] \o s)[j] = IF j <= Len(cntlq[p]) THEN cntlq[p][j]
                                                         ELSE s[j - Len(cntlq[p])]
    BY <1>1, ConcatProperties, LenProperties
  <2>2. CASE k <= Len(cntlq[p])
    <3>1. k \in 1..Len(cntlq[p]) /\ cntlq'[p][k] = cntlq[p][k]
      BY <1>2, <2>1, <2>2
    <3> QED BY <1>3, <3>1
  <2>3. CASE ~(k <= Len(cntlq[p]))
    <3>1. /\ k - Len(cntlq[p]) \in 1..Len(s)
          /\ cntlq'[p][k] = s[k - Len(cntlq[p])]
      BY <1>2, <2>1, <2>3
    <3> QED BY <3>1
  <2> QED BY <2>2, <2>3
<1>5. ASSUME NEW x \in Perif, NEW k \in 1..Len(cntlq'[x]) PROVE Truthful(cntlq'[x][k], Ids')
  BY <1>2, <1>3, <1>4
<1> QED BY <1>5

\* A step that leaves the table alone and queues nothing about ids.
LEMMA IdsKept ==
    ASSUME IdInv, UNCHANGED <<diag_ids, told>>,
           \A x \in Perif : \A k \in 1..Len(cntlq'[x]) : Truthful(cntlq'[x][k], Ids')
    PROVE  IdInv'
<1>1. Ids' = Ids
  BY DEF Ids
<1> QED BY <1>1 DEF IdInv

LEMMA IdsUntouched ==
    ASSUME IdInv, UNCHANGED <<diag_ids, told, cntlq>>
    PROVE  IdInv'
<1>1. Ids' = Ids
  BY DEF Ids
<1> QED BY <1>1 DEF IdInv

LEMMA PlainPush ==
    ASSUME QueuesOK, IdInv, NEW p \in Perif, NEW s \in Seq(PlainPacket),
           cntlq' = Push(cntlq, p, s), UNCHANGED <<diag_ids, told>>
    PROVE  IdInv'
<1>1. PlainPacket \subseteq ControlPacket
  BY DEF PlainPacket
<1>2. s \in Seq(ControlPacket)
  BY <1>1, SeqMonotonic
<1>3. \A k \in 1..Len(s) : s[k] \in PlainPacket
  BY ElementOfSeq
<1>4. \A k \in 1..Len(s) : Truthful(s[k], Ids')
  BY <1>3 DEF PlainPacket, Truthful
<1>5. Ids \subseteq Ids'
  BY DEF Ids
<1>6. \A x \in Perif : \A k \in 1..Len(cntlq'[x]) : Truthful(cntlq'[x][k], Ids')
  BY <1>2, <1>4, <1>5, TruthfulPush
<1> QED BY <1>6, IdsKept

LEMMA InitIds == Init => IdInv
<1> SUFFICES ASSUME Init PROVE IdInv
  OBVIOUS
<1>1. /\ Len(diag_ids) = 0 /\ \A p \in Perif : Len(cntlq[p]) = 0
      /\ \A n \in Name \cup {Garbage} : told[n] = {}
  BY DEF Init, CntlInit
<1> QED BY <1>1 DEF IdInv

\* diag_cntl_process_diag_id: a process in the table is told its entry, and one that
\* is not gets an entry with an id and a name nobody has.
LEMMA DiagIdIds ==
    ASSUME TypeInv, IdInv, IdsFit', NEW p \in Perif, NEW c \in ControlCommand,
           c.op = "diag_id", diag_cntl_process_diag_id(p, c), UNCHANGED told
    PROVE  IdInv'
<1> DEFINE n == process_name(p, c)
<1>1. /\ diag_ids \in Seq(DiagId) /\ Len(diag_ids) \in Nat /\ QueuesOK
      /\ n \in Name \cup {Garbage}
  BY LenProperties DEF TypeInv, AgreedOK, ControlCommand, process_name
<1>2. ASSUME NEW i \in Nat, DiagIdAnswer(p, i, n), <<i, n>> \in Ids', Ids \subseteq Ids'
      PROVE  \A x \in Perif : \A k \in 1..Len(cntlq'[x]) : Truthful(cntlq'[x][k], Ids')
  <2>1. [op |-> "diag_id", id |-> i, name |-> n] \in ControlPacket
    BY <1>1, ControlPackets
  <2>0. <<[op |-> "diag_id", id |-> i, name |-> n]>> \in Seq(ControlPacket)
    BY <2>1
  <2>2. PICK s \in Seq(ControlPacket) : s = <<[op |-> "diag_id", id |-> i, name |-> n]>>
    BY <2>0
  <2>3. Len(s) = 1 /\ s[1] = [op |-> "diag_id", id |-> i, name |-> n]
    BY <2>2
  <2>4. \A k \in 1..Len(s) : Truthful(s[k], Ids')
    BY <1>2, <2>3 DEF Truthful
  <2>5. cntlq' = Push(cntlq, p, s)
    BY <1>2, <2>2 DEF DiagIdAnswer
  <2> QED BY <1>1, <1>2, <2>4, <2>5, TruthfulPush
<1>3. CASE ProcessKnownId(p, c)
  <2> DEFINE f == FirstOf(Known(n))
  <2>1. /\ Known(n) # {} /\ DiagIdAnswer(p, diag_ids[f].id, n) /\ diag_ids' = diag_ids
    BY <1>3 DEF ProcessKnownId
  <2>2. f \in 1..Len(diag_ids) /\ diag_ids[f].name = n /\ diag_ids[f].id \in Nat
    BY <1>1, <2>1, FirstKnown
  <2> HIDE DEF f, n
  <2>3. Ids' = Ids /\ <<diag_ids[f].id, n>> \in Ids
    BY <2>1, <2>2 DEF Ids
  <2> QED BY <1>2, <2>1, <2>2, <2>3, IdsKept
<1>4. CASE ProcessNewId(p, c)
  <2> DEFINE i == NewId(c)
             e == [id |-> i, name |-> n]
  <2>1. /\ Known(n) = {} /\ Accepts(i) /\ diag_id' = i
        /\ diag_ids' = Append(diag_ids, [id |-> i % IdModulus, name |-> n])
        /\ DiagIdAnswer(p, i, n)
    BY <1>4 DEF ProcessNewId
  <2>2. i \in Nat /\ IdModulus \in Nat
    BY CntlAssumption DEF NewId, TypeInv, AgreedOK, ControlCommand
  <2>3. i < IdModulus
    BY <2>1 DEF IdsFit
  <2>4. i % IdModulus = i
    BY <2>2, <2>3, SmallIds
  <2>5. e \in DiagId /\ diag_ids' = Append(diag_ids, e)
    BY <1>1, <2>1, <2>2, <2>4 DEF DiagId
  <2>6. /\ Len(diag_ids') = Len(diag_ids) + 1
        /\ \A k \in 1..Len(diag_ids) : diag_ids'[k] = diag_ids[k]
        /\ diag_ids'[Len(diag_ids) + 1] = e
    BY <1>1, <2>5, AppendProperties
  <2>7. \A k \in 1..Len(diag_ids) : diag_ids[k].name # n /\ diag_ids[k].id # i
    BY <2>1 DEF Known, Accepts, diag_id_exists
  <2>8. e.id = i /\ e.name = n
    OBVIOUS
  <2> HIDE DEF e, i, n
  <2>9. Ids \subseteq Ids' /\ <<i, n>> \in Ids'
    <3>1. \A k \in 1..Len(diag_ids) : k \in 1..Len(diag_ids')
      BY <1>1, <2>6
    <3>2. Len(diag_ids) + 1 \in 1..Len(diag_ids')
      BY <1>1, <2>6
    <3>3. <<diag_ids'[Len(diag_ids) + 1].id, diag_ids'[Len(diag_ids) + 1].name>> = <<i, n>>
      BY <2>6, <2>8
    <3> QED BY <2>6, <3>1, <3>2, <3>3 DEF Ids
  <2>10. ASSUME NEW k \in 1..Len(diag_ids'), NEW j \in 1..Len(diag_ids'), k # j
         PROVE  /\ diag_ids'[k].id # diag_ids'[j].id
                /\ diag_ids'[k].name # diag_ids'[j].name
    <3>1. CASE k \in 1..Len(diag_ids) /\ j \in 1..Len(diag_ids)
      BY <2>6, <2>10, <3>1 DEF IdInv
    <3>2. CASE k = Len(diag_ids) + 1 /\ j \in 1..Len(diag_ids)
      BY <2>6, <2>7, <2>8, <3>2
    <3>3. CASE k \in 1..Len(diag_ids) /\ j = Len(diag_ids) + 1
      BY <2>6, <2>7, <2>8, <3>3
    <3> QED BY <1>1, <2>6, <2>10, <3>1, <3>2, <3>3
  <2>11. \A x \in Perif : \A k \in 1..Len(cntlq'[x]) : Truthful(cntlq'[x][k], Ids')
    BY <1>2, <2>1, <2>2, <2>9
  <2>12. \A m \in Name \cup {Garbage} : \A k \in told'[m] : <<k, m>> \in Ids'
    BY <2>9 DEF IdInv
  <2> QED BY <2>10, <2>11, <2>12 DEF IdInv
<1>5. CASE ProcessIdRefused(p, c)
  BY <1>5, IdsUntouched DEF ProcessIdRefused
<1> QED BY <1>3, <1>4, <1>5 DEF diag_cntl_process_diag_id

LEMMA HandleIds ==
    ASSUME TypeInv, IdInv, IdsFit', NEW p \in Perif, NEW c \in ControlCommand,
           Handle(p, c), UNCHANGED told
    PROVE  IdInv'
<1>1. CASE UNCHANGED <<diag_ids, cntlq>>
  BY <1>1, IdsUntouched
<1>2. CASE c.op = "feature" /\ diag_cntl_feature_mask(p, c, fds[p], p \in Qrtr)
           /\ UNCHANGED <<diag_cmds, diag_ids, diag_id>>
  <2>1. PICK both : both = c.mask \cap local_mask(fds[p], p \in Qrtr)
    OBVIOUS
  <2>2. both \in SUBSET Feature
    BY <2>1 DEF local_mask, Feature
  <2>3. cntlq' = Push(cntlq, p, FeatureAnswer(both))
    BY <1>2, <2>1 DEF diag_cntl_feature_mask, diag_cntl_send_feature_mask, FeatureAnswer
  <2>4. FeatureAnswer(both) \in Seq(PlainPacket)
    BY <2>2, PlainAnswers
  <2> QED BY <1>2, <2>3, <2>4, PlainPush DEF TypeInv
<1>3. CASE c.op = "diag_id" /\ diag_cntl_process_diag_id(p, c)
  BY <1>3, DiagIdIds
<1> QED BY <1>1, <1>2, <1>3 DEF Handle

\* A packet that reaches its subsystem tells an id of the table.
LEMMA WriteIds ==
    ASSUME TypeInv, IdInv, NEW p \in Perif, CntlWrite(p)
    PROVE  IdInv'
<1> DEFINE k == Head(cntlq[p])
<1>1. /\ cntlq \in [Perif -> Seq(ControlPacket)] /\ cntlq[p] # <<>>
      /\ cntlq' = [cntlq EXCEPT ![p] = Tail(@)] /\ diag_ids' = diag_ids
      /\ told' = told \/ (k.op = "diag_id" /\ told' = [told EXCEPT ![k.name] = @ \cup {k.id}])
  BY DEF TypeInv, QueuesOK, CntlWrite
<1>2. /\ Len(cntlq[p]) \in Nat \ {0} /\ k = cntlq[p][1]
      /\ Len(Tail(cntlq[p])) = Len(cntlq[p]) - 1
      /\ \A i \in 1..Len(Tail(cntlq[p])) : Tail(cntlq[p])[i] = cntlq[p][i + 1]
  <2>1. Len(cntlq[p]) \in Nat \ {0}
    BY <1>1, EmptySeq
  <2> QED BY <1>1, <2>1, HeadTailProperties
<1>3. Truthful(k, Ids)
  BY <1>2 DEF IdInv
<1>4. Ids' = Ids
  BY <1>1 DEF Ids
<1>5. \A x \in Perif : \A i \in 1..Len(cntlq'[x]) : Truthful(cntlq'[x][i], Ids')
  <2>1. /\ cntlq'[p] = Tail(cntlq[p])
        /\ \A x \in Perif \ {p} : cntlq'[x] = cntlq[x]
    BY <1>1
  <2>2. \A i \in 1..Len(Tail(cntlq[p])) : i + 1 \in 1..Len(cntlq[p])
    BY <1>2
  <2>3. \A i \in 1..Len(cntlq'[p]) : Truthful(cntlq'[p][i], Ids')
    BY <1>2, <1>4, <2>1, <2>2 DEF IdInv
  <2> QED BY <1>4, <2>1, <2>3 DEF IdInv
<1> HIDE DEF k
<1>6. \A n \in Name \cup {Garbage} : \A i \in told'[n] : <<i, n>> \in Ids'
  <2>1. CASE told' = told
    BY <1>4, <2>1 DEF IdInv
  <2>2. CASE k.op = "diag_id" /\ told' = [told EXCEPT ![k.name] = @ \cup {k.id}]
    <3>1. <<k.id, k.name>> \in Ids
      BY <1>3, <2>2 DEF Truthful
    <3>2. PICK N : N = Name \cup {Garbage}
      OBVIOUS
    <3>3. told \in [N -> SUBSET Nat]
      BY <3>2 DEF TypeInv, OutsideOK
    <3>4. \A n \in N : told'[n] = IF n = k.name THEN told[n] \cup {k.id} ELSE told[n]
      BY <2>2, <3>3
    <3>5. \A n \in N : \A i \in told[n] : <<i, n>> \in Ids
      BY <3>2 DEF IdInv
    <3>6. \A n \in N : \A i \in told'[n] : <<i, n>> \in Ids
      BY <3>1, <3>4, <3>5
    <3> QED BY <1>4, <3>2, <3>6
  <2> QED BY <1>1, <2>1, <2>2
<1> QED BY ZenonT(30), <1>1, <1>5, <1>6 DEF IdInv

LEMMA DispatchIds ==
    ASSUME TypeInv, IdInv, NEW m \in DmCommand, diag_cmd_dispatch(m)
    PROVE  IdInv'
<1>1. UNCHANGED <<diag_ids, told>> /\ Ids' = Ids
  BY DEF diag_cmd_dispatch, Ids
<1>2. CASE cntlq' = cntlq
  BY <1>1, <1>2, IdsKept DEF IdInv
<1>3. CASE DispatchCommon(m, HasCntl)
  <2>1. PICK k \in {"msg_mask", "log_mask", "event_mask", "none"} :
          cntlq' = [p \in Perif |-> IF p \in HasCntl /\ k # "none"
                                    THEN Append(cntlq[p], [op |-> k])
                                    ELSE cntlq[p]]
    BY <1>3 DEF DispatchCommon
  <2>2. CASE k = "none"
    BY <1>1, <2>1, <2>2, IdsKept DEF IdInv
  <2>3. CASE k # "none"
    <3>1. [op |-> k] \in ControlPacket /\ Truthful([op |-> k], Ids)
      BY <2>3, ControlPackets DEF Truthful
    <3>2. ASSUME NEW p \in Perif, NEW j \in 1..Len(cntlq'[p])
          PROVE  Truthful(cntlq'[p][j], Ids')
      <4>1. \A i \in 1..Len(cntlq[p]) : Truthful(cntlq[p][i], Ids)
        BY DEF IdInv
      <4>2. CASE cntlq'[p] = cntlq[p]
        BY <1>1, <4>1, <4>2
      <4>3. CASE cntlq'[p] = Append(cntlq[p], [op |-> k])
        <5>1. PICK e \in ControlPacket : e = [op |-> k]
          BY <3>1
        <5>2. cntlq[p] \in Seq(ControlPacket) /\ cntlq'[p] = Append(cntlq[p], e)
          BY <4>3, <5>1 DEF TypeInv, QueuesOK
        <5>3. /\ Len(cntlq[p]) \in Nat /\ Len(cntlq'[p]) = Len(cntlq[p]) + 1
              /\ \A i \in 1..Len(cntlq[p]) : cntlq'[p][i] = cntlq[p][i]
              /\ cntlq'[p][Len(cntlq[p]) + 1] = e
          BY <5>2, AppendProperties, LenProperties
        <5> QED BY <1>1, <3>1, <4>1, <5>1, <5>3
      <4> QED BY <2>1, <4>2, <4>3
    <3> QED BY <1>1, <3>2, IdsKept
  <2> QED BY <2>2, <2>3
<1> QED BY <1>2, <1>3 DEF diag_cmd_dispatch, DispatchForward

LEMMA NextIds == TypeInv /\ IdInv /\ IdsFit' /\ [Next]_vars => IdInv'
<1> SUFFICES ASSUME TypeInv, IdInv, IdsFit', [Next]_vars PROVE IdInv'
  OBVIOUS
<1>1. ASSUME UNCHANGED <<diag_ids, told, cntlq>> PROVE IdInv'
  BY <1>1, IdsUntouched
<1>2. CASE UNCHANGED vars
  BY <1>1, <1>2 DEF vars, cntlVars, outside
<1>3. CASE Select \/ peripheral_udev_update
  BY <1>1, <1>3 DEF Select, peripheral_udev_update, cntlVars, outside
<1>4. ASSUME NEW p \in Perif,
             \/ qrtr_cntl_recv(p) \/ rpmsg_perif_cntl_recv(p) \/ RequestWrite(p)
             \/ Boot(p) \/ GoDown(p) \/ SubsystemSend(p) \/ Notice(p)
      PROVE  IdInv'
  <2>1. UNCHANGED <<diag_ids, told, cntlq>>
    BY <1>4 DEF qrtr_cntl_recv, rpmsg_perif_cntl_recv, RequestWrite, Boot, GoDown,
                SubsystemSend, Notice, cntlVars, outside
  <2> QED BY <1>1, <2>1
<1>5. ASSUME NEW p \in Perif, diag_cntl_recv(p) PROVE IdInv'
  <2>1. Head(parsing[p]) \in ControlCommand
    BY <1>5, Parsed DEF diag_cntl_recv
  <2> QED BY <1>5, <2>1, HandleIds DEF diag_cntl_recv, outside
<1>6. ASSUME NEW p \in Perif, peripheral_open(p) PROVE IdInv'
  <2>1. CASE cntlq' = Push(cntlq, p, MaskPackets)
    BY <1>6, <2>1, PlainAnswers, PlainPush DEF TypeInv, peripheral_open
  <2>2. CASE cntlq' = cntlq
    BY <1>1, <1>6, <2>2 DEF peripheral_open
  <2> QED BY <1>6, <2>1, <2>2 DEF peripheral_open
<1>7. ASSUME NEW p \in Perif, NEW c \in AllChannels, ChannelError(p, c) PROVE IdInv'
  <2>1. UNCHANGED <<diag_ids, told>> /\ cntlq' = [cntlq EXCEPT ![p] = <<>>] /\ Ids' = Ids
    BY <1>7 DEF ChannelError, perif_rpmsg_close, Ids
  <2>2. Len(cntlq'[p]) = 0 /\ \A x \in Perif \ {p} : cntlq'[x] = cntlq[x]
    BY <2>1 DEF TypeInv, QueuesOK
  <2>3. \A x \in Perif : \A k \in 1..Len(cntlq'[x]) : Truthful(cntlq'[x][k], Ids')
    BY <2>1, <2>2 DEF IdInv
  <2> QED BY <2>1, <2>3, IdsKept
<1>8. CASE RouterStep
  BY <1>3, <1>4, <1>5, <1>6, <1>7, <1>8, WriteIds DEF RouterStep
<1>9. CASE Environment
  BY <1>4, <1>9, DispatchIds DEF Environment
<1> QED BY <1>2, <1>8, <1>9 DEF Next

\* As long as the ids in use fit the eight bits they are stored in, a process is told
\* one diag id for good and no two processes the same one, over every number of
\* peripherals, versions of the request, restarts and answers that are lost or late.
THEOREM IdsForGood == Spec /\ []IdsFit => []IdsAgree
<1>1. IdInv => IdsAgree
  <2> SUFFICES ASSUME IdInv, NEW n \in Name
               PROVE  /\ Cardinality(told[n]) <= 1
                      /\ \A m \in Name \ {n} : told[n] \cap told[m] = {}
    BY DEF IdsAgree
  <2>1. ASSUME NEW m \in Name, NEW i \in told[m]
        PROVE  \E k \in 1..Len(diag_ids) : diag_ids[k].id = i /\ diag_ids[k].name = m
    <3>1. <<i, m>> \in Ids
      BY DEF IdInv
    <3> QED BY <3>1 DEF Ids
  <2>2. \A i, j \in told[n] : i = j
    BY <2>1 DEF IdInv
  <2>3. Cardinality(told[n]) <= 1
    <3>1. CASE told[n] = {}
      BY <3>1, FS_EmptySet
    <3>2. CASE told[n] # {}
      <4>1. PICK i : told[n] = {i}
        BY <2>2, <3>2
      <4>2. Cardinality({i}) = 1
        BY FS_Singleton
      <4> QED BY <4>1, <4>2
    <3> QED BY <3>1, <3>2
  <2>4. \A m \in Name \ {n} : told[n] \cap told[m] = {}
    BY <2>1 DEF IdInv
  <2> QED BY <2>3, <2>4
<1> QED BY <1>1, TypeInvAlways, InitIds, NextIds, PTL DEF Spec

-----------------------------------------------------------------------------
(* Features.                                                               *)

\* A subsystem starts with its feature mask.  Nothing else is assumed of a script: it
\* may send other ones later.
ScriptsNegotiate ==
    \A p \in Perif : Script[p] # <<>> =>
        Script[p][1] # <<>> /\ Script[p][1][1].op = "feature"

\* With the packets q on their way to a subsystem that was told a, it will end up
\* with f: the last feature mask among them says so, or there is none and a does.
Settles(q, a, f) ==
    /\ \A i \in 1..Len(q) :
          q[i].op = "feature" /\ (\A j \in 1..Len(q) : j > i => q[j].op # "feature")
             => q[i].mask = f
    /\ (\A i \in 1..Len(q) : q[i].op # "feature") => a = f

\* A feature mask of the running subsystem waits to be read.
Asks(p, i) ==
    /\ inbox[p][i] \in Seq(ControlCommand) /\ inbox[p][i] # <<>>
    /\ Head(inbox[p][i]).op = "feature"
    /\ \A j \in 1..Len(inbox[p]) : j > i => inbox[p][j] # Bye

\* The router has read everything of the subsystem's earlier boots.
Fresh(p) == \A j \in 1..Len(inbox[p]) : inbox[p][j] # Bye

\* The features of p are still to be read, being read, or answered.
Negotiated(p) ==
    \/ \E i \in 1..Len(inbox[p]) : Asks(p, i)
    \/ Fresh(p) /\ parsing[p] # <<>> /\ Head(parsing[p]).op = "feature"
    \/ Fresh(p) /\ Settles(cntlq[p], agreed[p], features[p])

\* The inductive invariant: a running subsystem that has sent something has begun to
\* negotiate.  One whose old channels are still open cannot send yet.
FeatureInv ==
    /\ \A p \in dead \cap up : sent[p] = 0
    /\ \A p \in up \ dead : sent[p] > 0 => Negotiated(p)

\* Packets that are no feature mask do not matter.
LEMMA SettlesPush ==
    ASSUME NEW q \in Seq(ControlPacket), NEW s \in Seq(ControlPacket), NEW a, NEW f,
           \A k \in 1..Len(s) : s[k].op # "feature",
           Settles(q, a, f)
    PROVE  Settles(q \o s, a, f)
<1> DEFINE c == q \o s
<1>1. /\ Len(q) \in Nat /\ Len(s) \in Nat /\ Len(c) = Len(q) + Len(s)
      /\ \A i \in 1..(Len(q) + Len(s)) : c[i] = IF i <= Len(q) THEN q[i] ELSE s[i - Len(q)]
  BY ConcatProperties, LenProperties
<1> HIDE DEF c
<1>2. \A i \in 1..Len(q) : i \in 1..Len(c) /\ c[i] = q[i]
  BY <1>1
<1>3. \A i \in 1..Len(c) : i \notin 1..Len(q) => c[i].op # "feature"
  <2> SUFFICES ASSUME NEW i \in 1..Len(c), i \notin 1..Len(q) PROVE c[i].op # "feature"
    OBVIOUS
  <2>1. i - Len(q) \in 1..Len(s) /\ c[i] = s[i - Len(q)]
    BY <1>1
  <2> QED BY <2>1
<1>4. ASSUME NEW i \in 1..Len(c), c[i].op = "feature",
             \A j \in 1..Len(c) : j > i => c[j].op # "feature"
      PROVE  c[i].mask = f
  <2>1. i \in 1..Len(q) /\ c[i] = q[i]
    BY <1>2, <1>3, <1>4
  <2>2. \A j \in 1..Len(q) : j > i => q[j].op # "feature"
    BY <1>2, <1>4
  <2> QED BY <1>4, <2>1, <2>2 DEF Settles
<1>5. (\A i \in 1..Len(c) : c[i].op # "feature") => a = f
  BY <1>2 DEF Settles
<1> QED BY <1>4, <1>5 DEF Settles, c

\* The answer to a feature mask, whatever was queued before it.
LEMMA SettlesAnswer ==
    ASSUME NEW q \in Seq(ControlPacket), NEW a, NEW f \in SUBSET Feature
    PROVE  Settles(q \o FeatureAnswer(f), a, f)
<1>1. PICK m : m = [op |-> "feature", mask |-> f]
  OBVIOUS
<1>2. m \in ControlPacket /\ m.op = "feature" /\ m.mask = f
  BY <1>1, ControlPackets
<1> DEFINE other == {k \in ControlPacket : k.op # "feature"}
           rest  == <<[op |-> "diag_mode"], [op |-> "buffering_mode"]>>
<1>3. MaskPackets \in Seq(other) /\ rest \in Seq(other)
  <2>1. /\ [op |-> "msg_mask"] \in other
        /\ [op |-> "diag_mode"] \in other /\ [op |-> "buffering_mode"] \in other
    BY ControlPackets
  <2>2. MSG_MASK_TBL_CNT \in Nat
    BY CntlAssumption
  <2> HIDE DEF other
  <2> QED BY <2>1, <2>2, ConstantSeq DEF MaskPackets
<1>4. PICK s \in Seq(ControlPacket) : s = FeatureAnswer(f)
  BY FeatureAnswerOK
<1>5. PICK t \in Seq(other) : t = MaskPackets \o rest
  BY <1>3, ConcatProperties
<1>6. /\ Len(s) = 1 + Len(t) /\ Len(t) \in Nat /\ s[1] = m
      /\ \A k \in 1..Len(s) : k # 1 => s[k].op # "feature"
  <2>0. \A k \in other : k \in ControlPacket /\ k.op # "feature"
    OBVIOUS
  <2> HIDE DEF rest
  <2>1. other \subseteq ControlPacket
    OBVIOUS
  <2> HIDE DEF other
  <2>2. MaskPackets \in Seq(ControlPacket) /\ rest \in Seq(ControlPacket)
    BY <1>3, <2>1, SeqMonotonic
  <2>3. PICK u \in Seq(ControlPacket) : u = <<m>> /\ Len(u) = 1 /\ u[1] = m
    <3>1. <<m>> \in Seq(ControlPacket) /\ Len(<<m>>) = 1 /\ <<m>>[1] = m
      BY <1>2
    <3> QED BY <3>1
  <2>4. s = (u \o MaskPackets) \o rest
    BY <1>1, <1>4, <2>3 DEF FeatureAnswer, rest
  <2>5. s = u \o t
    BY SMTT(30), <1>5, <2>2, <2>4, ConcatAssociative
  <2>6. t \in Seq(ControlPacket)
    BY <2>1, SeqMonotonic
  <2>7. /\ Len(s) = 1 + Len(t) /\ Len(t) \in Nat
        /\ \A k \in 1..(1 + Len(t)) : s[k] = IF k <= 1 THEN u[k] ELSE t[k - 1]
    BY <2>3, <2>5, <2>6, ConcatProperties, LenProperties
  <2>8. \A k \in 1..Len(t) : t[k] \in other
    BY ElementOfSeq
  <2>9. s[1] = m
    BY <2>3, <2>7
  <2>10. \A k \in 1..Len(s) : k # 1 => s[k] = t[k - 1] /\ k - 1 \in 1..Len(t)
    BY <2>7
  <2> QED BY <2>0, <2>7, <2>8, <2>9, <2>10
<1> HIDE DEF other, rest
<1> DEFINE c == q \o s
<1>7. /\ Len(q) \in Nat /\ Len(s) \in Nat /\ Len(c) = Len(q) + Len(s)
      /\ \A i \in 1..(Len(q) + Len(s)) : c[i] = IF i <= Len(q) THEN q[i] ELSE s[i - Len(q)]
  BY ConcatProperties, LenProperties
<1> HIDE DEF c
<1>8. Len(q) + 1 \in 1..Len(c) /\ c[Len(q) + 1] = m
  BY <1>6, <1>7
<1>9. \A i \in 1..Len(c) : i > Len(q) + 1 => c[i].op # "feature"
  <2> SUFFICES ASSUME NEW i \in 1..Len(c), i > Len(q) + 1 PROVE c[i].op # "feature"
    OBVIOUS
  <2>1. i - Len(q) \in 1..Len(s) /\ i - Len(q) # 1 /\ c[i] = s[i - Len(q)]
    BY <1>7
  <2> QED BY <1>6, <2>1
<1>10. ASSUME NEW i \in 1..Len(c), c[i].op = "feature",
              \A j \in 1..Len(c) : j > i => c[j].op # "feature"
       PROVE  c[i].mask = f
  <2>1. ~(Len(q) + 1 > i)
    BY <1>2, <1>8, <1>10
  <2>2. ~(i > Len(q) + 1)
    BY <1>9, <1>10
  <2>3. i = Len(q) + 1
    <3>1. i \in Nat /\ Len(q) \in Nat
      BY <1>7
    <3> QED BY <2>1, <2>2, <3>1
  <2> QED BY <1>2, <1>8, <2>3
<1>11. Settles(c, a, f)
  BY <1>2, <1>8, <1>10 DEF Settles
<1> QED BY <1>4, <1>11 DEF c

\* The subsystem takes the first packet.
LEMMA SettlesTail ==
    ASSUME NEW q \in Seq(ControlPacket), q # <<>>, NEW a, NEW f, Settles(q, a, f)
    PROVE  Settles(Tail(q), IF Head(q).op = "feature" THEN Head(q).mask ELSE a, f)
<1> DEFINE t == Tail(q)
           b == IF Head(q).op = "feature" THEN Head(q).mask ELSE a
<1>1. /\ Len(q) \in Nat \ {0} /\ Head(q) = q[1] /\ Len(t) = Len(q) - 1
      /\ \A i \in 1..Len(t) : t[i] = q[i + 1]
  <2>1. Len(q) \in Nat \ {0}
    BY EmptySeq, LenProperties
  <2> QED BY <2>1, HeadTailProperties
<1> HIDE DEF t
<1>2. \A i \in 1..Len(t) : i + 1 \in 1..Len(q) /\ t[i] = q[i + 1]
  BY <1>1
<1>3. ASSUME NEW k \in 1..Len(q), k # 1
      PROVE  k - 1 \in 1..Len(t) /\ q[k] = t[k - 1]
  <2>1. k - 1 \in 1..Len(t) /\ (k - 1) + 1 = k
    BY <1>1, <1>3
  <2> QED BY <1>1, <2>1
<1>4. ASSUME NEW i \in 1..Len(t), t[i].op = "feature",
             \A j \in 1..Len(t) : j > i => t[j].op # "feature"
      PROVE  t[i].mask = f
  <2>1. i + 1 \in 1..Len(q) /\ q[i + 1] = t[i]
    BY <1>2
  <2>2. ASSUME NEW k \in 1..Len(q), k > i + 1 PROVE q[k].op # "feature"
    <3>1. k # 1 /\ k - 1 > i
      BY <2>2
    <3>2. k - 1 \in 1..Len(t) /\ q[k] = t[k - 1]
      BY <1>3, <3>1
    <3> QED BY <1>4, <3>1, <3>2
  <2> QED BY <1>4, <2>1, <2>2 DEF Settles
<1>5. ASSUME \A i \in 1..Len(t) : t[i].op # "feature" PROVE b = f
  <2>1. \A k \in 1..Len(q) : k # 1 => q[k].op # "feature"
    BY <1>3, <1>5
  <2>2. 1 \in 1..Len(q) /\ \A k \in 1..Len(q) : k > 1 => k # 1
    BY <1>1
  <2>3. CASE Head(q).op = "feature"
    BY <1>1, <2>1, <2>2, <2>3 DEF Settles
  <2>4. CASE Head(q).op # "feature"
    <3>1. \A k \in 1..Len(q) : q[k].op # "feature"
      BY <1>1, <2>1, <2>4
    <3> QED BY <2>4, <3>1 DEF Settles
  <2> QED BY <2>3, <2>4
<1> HIDE DEF b
<1>6. Settles(t, b, f)
  BY <1>4, <1>5 DEF Settles
<1> QED BY <1>6 DEF t, b

LEMMA InitFeatures == Init => FeatureInv
BY DEF Init, FeatureInv
\* Nothing of p changes.
LEMMA NegotiatedKept ==
    ASSUME NEW p \in Perif, Negotiated(p),
           inbox'[p] = inbox[p], parsing'[p] = parsing[p], cntlq'[p] = cntlq[p],
           agreed'[p] = agreed[p], features'[p] = features[p]
    PROVE  Negotiated(p)'
BY DEF Negotiated, Asks, Fresh

\* Only the queue of p grows, by packets that are no feature mask.
LEMMA NegotiatedPush ==
    ASSUME TypeInv, NEW p \in Perif, Negotiated(p),
           inbox'[p] = inbox[p], parsing'[p] = parsing[p],
           agreed'[p] = agreed[p], features'[p] = features[p],
           NEW s \in Seq(ControlPacket), \A k \in 1..Len(s) : s[k].op # "feature",
           cntlq'[p] = cntlq[p] \o s
    PROVE  Negotiated(p)'
<1>1. cntlq[p] \in Seq(ControlPacket)
  BY DEF TypeInv, QueuesOK
<1>2. Settles(cntlq[p], agreed[p], features[p]) => Settles(cntlq[p], agreed[p], features[p])'
  BY <1>1, SettlesPush
<1> QED BY <1>2 DEF Negotiated, Asks, Fresh

\* Something else than BYE arrives for p.
LEMMA NegotiatedArrival ==
    ASSUME TypeInv, NEW p \in Perif, NEW e \in Arrival, e # Bye,
           inbox' = [inbox EXCEPT ![p] = Append(@, e)],
           UNCHANGED <<parsing, cntlq, agreed, features>>
    PROVE  /\ Negotiated(p) => Negotiated(p)'
           /\ e \in Seq(ControlCommand) /\ e # <<>> /\ Head(e).op = "feature"
                 => Negotiated(p)'
<1>1. inbox \in [Perif -> Seq(Arrival)]
  BY DEF TypeInv, OutsideOK
<1>2. inbox[p] \in Seq(Arrival) /\ inbox'[p] = Append(inbox[p], e)
  BY <1>1
<1>3. /\ Len(inbox[p]) \in Nat /\ Len(inbox'[p]) = Len(inbox[p]) + 1
      /\ \A i \in 1..Len(inbox[p]) : inbox'[p][i] = inbox[p][i]
      /\ inbox'[p][Len(inbox[p]) + 1] = e
  BY <1>2, AppendProperties, LenProperties
<1>4. \A j \in 1..Len(inbox'[p]) : j \in 1..Len(inbox[p]) \/ j = Len(inbox[p]) + 1
  BY <1>3
<1>5. Fresh(p) => Fresh(p)'
  BY <1>3, <1>4 DEF Fresh
<1>6. \A i \in 1..Len(inbox[p]) : Asks(p, i) => i \in 1..Len(inbox'[p]) /\ Asks(p, i)'
  <2> SUFFICES ASSUME NEW i \in 1..Len(inbox[p]), Asks(p, i)
               PROVE  i \in 1..Len(inbox'[p]) /\ Asks(p, i)'
    OBVIOUS
  <2>1. i \in 1..Len(inbox'[p]) /\ inbox'[p][i] = inbox[p][i]
    BY <1>3
  <2>2. \A j \in 1..Len(inbox'[p]) : j > i => inbox'[p][j] # Bye
    BY <1>3, <1>4 DEF Asks
  <2> QED BY <2>1, <2>2 DEF Asks
<1>7. Negotiated(p) => Negotiated(p)'
  BY <1>5, <1>6 DEF Negotiated
<1>8. ASSUME e \in Seq(ControlCommand), e # <<>>, Head(e).op = "feature"
      PROVE  Negotiated(p)'
  <2>0. PICK n : n = Len(inbox[p]) + 1
    OBVIOUS
  <2>1. n \in 1..Len(inbox'[p]) /\ inbox'[p][n] = e
    BY <1>3, <2>0
  <2>2. \A j \in 1..Len(inbox'[p]) : ~(j > n)
    BY <1>3, <2>0
  <2>3. Asks(p, n)'
    BY <1>8, <2>1, <2>2 DEF Asks
  <2> QED BY <2>1, <2>3 DEF Negotiated
<1> QED BY <1>7, <1>8

\* BYE and the other notices are no packets of commands.
LEMMA NoticesApart ==
    /\ \A k \in Seq(ControlCommand) : k \notin {Bye, Ignored, Failed}
    /\ Ignored # Bye /\ Failed # Bye
<1>1. \A c \in ControlCommand : c.op \notin {"bye", "ignored", "failed"}
  BY DEF ControlCommand
<1>2. /\ Len(Bye) = 1 /\ Bye[1].op = "bye"
      /\ Len(Ignored) = 1 /\ Ignored[1].op = "ignored"
      /\ Len(Failed) = 1 /\ Failed[1].op = "failed"
  BY DEF Bye, Ignored, Failed
<1>3. ASSUME NEW k \in Seq(ControlCommand), Len(k) = 1
      PROVE  k[1].op \notin {"bye", "ignored", "failed"}
  <2>1. k[1] \in ControlCommand
    BY <1>3, ElementOfSeq
  <2> QED BY <1>1, <2>1
<1> QED BY <1>2, <1>3

LEMMA RecvFeatures ==
    ASSUME TypeInv, FeatureInv, NEW p \in Perif,
           qrtr_cntl_recv(p) \/ rpmsg_perif_cntl_recv(p)
    PROVE  FeatureInv'
<1>1. /\ UNCHANGED <<up, dead, sent, cntlq, agreed, features>>
      /\ inbox' = [inbox EXCEPT ![p] = Tail(@)]
      /\ <<p, "cntl">> \in rfds /\ ~Busy
      /\ \/ parsing' = [parsing EXCEPT ![p] = Head(inbox[p])]
         \/ Head(inbox[p]) \in {Bye, Ignored, Failed} /\ parsing' = parsing
  BY DEF qrtr_cntl_recv, rpmsg_perif_cntl_recv, Callback, cntlVars
<1>2. /\ inbox \in [Perif -> Seq(Arrival)] /\ DOMAIN parsing = Perif /\ parsing[p] = <<>>
      /\ dead \subseteq Rpmsg
  BY <1>1 DEF TypeInv, TransportOK, OutsideOK, Busy
<1>3. \A x \in Perif \ {p} : inbox'[x] = inbox[x] /\ parsing'[x] = parsing[x]
  BY <1>1, <1>2
<1>4. ASSUME p \notin dead, Negotiated(p) PROVE Negotiated(p)'
  <2>1. inbox[p] # <<>> /\ inbox[p] \in Seq(Arrival)
    BY <1>1, <1>2, <1>4 DEF TypeInv, ReadyStays
  <2>2. /\ Len(inbox[p]) \in Nat \ {0} /\ Head(inbox[p]) = inbox[p][1]
        /\ inbox'[p] = Tail(inbox[p])
        /\ Len(inbox'[p]) = Len(inbox[p]) - 1
        /\ \A i \in 1..Len(inbox'[p]) : inbox'[p][i] = inbox[p][i + 1]
    <3>1. Len(inbox[p]) \in Nat \ {0}
      BY <2>1, EmptySeq, LenProperties
    <3>2. inbox'[p] = Tail(inbox[p])
      BY <1>1, <1>2
    <3> QED BY <2>1, <3>1, <3>2, HeadTailProperties
  <2>3. \A i \in 1..Len(inbox'[p]) : i + 1 \in 1..Len(inbox[p]) /\ i + 1 > 1
    BY <2>2
  <2>4. Fresh(p) => Fresh(p)'
    BY <2>2, <2>3 DEF Fresh
  <2>5. ASSUME Asks(p, 1) PROVE Negotiated(p)'
    <3>1. /\ Head(inbox[p]) \in Seq(ControlCommand) /\ Head(inbox[p]) # <<>>
          /\ Head(Head(inbox[p])).op = "feature"
          /\ \A j \in 1..Len(inbox[p]) : j > 1 => inbox[p][j] # Bye
      BY <2>2, <2>5 DEF Asks
    <3>2. parsing' = [parsing EXCEPT ![p] = Head(inbox[p])]
      BY <1>1, <3>1, NoticesApart
    <3>3. parsing'[p] = Head(inbox[p])
      BY <1>2, <3>2
    <3>4. Fresh(p)'
      BY <2>2, <2>3, <3>1 DEF Fresh
    <3> QED BY <3>1, <3>3, <3>4 DEF Negotiated
  <2>6. ASSUME NEW i \in 1..Len(inbox[p]), i # 1, Asks(p, i) PROVE Negotiated(p)'
    <3>1. i - 1 \in 1..Len(inbox'[p]) /\ (i - 1) + 1 = i
      BY <2>2, <2>6
    <3>2. inbox'[p][i - 1] = inbox[p][i]
      BY <2>2, <3>1
    <3>3. \A j \in 1..Len(inbox'[p]) : j > i - 1 => j + 1 > i
      BY <2>2
    <3>4. \A j \in 1..Len(inbox'[p]) : j > i - 1 => inbox'[p][j] # Bye
      BY <2>2, <2>3, <2>6, <3>3 DEF Asks
    <3>5. Asks(p, i - 1)'
      BY <2>6, <3>2, <3>4 DEF Asks
    <3> QED BY <3>1, <3>5 DEF Negotiated
  <2>7. CASE Fresh(p) /\ Settles(cntlq[p], agreed[p], features[p])
    BY <1>1, <2>4, <2>7 DEF Negotiated
  <2> QED BY <1>2, <1>4, <2>5, <2>6, <2>7 DEF Negotiated
<1>5. \A x \in Perif \ {p} : Negotiated(x) => Negotiated(x)'
  BY <1>1, <1>3, NegotiatedKept
<1>6. up \subseteq Perif
  BY DEF TypeInv, OutsideOK
<1> QED BY <1>1, <1>4, <1>5, <1>6 DEF FeatureInv

\* diag_cntl_feature_mask settles the features; no other command touches them.
LEMMA ParseFeatures ==
    ASSUME TypeInv, FeatureInv, NEW p \in Perif, diag_cntl_recv(p)
    PROVE  FeatureInv'
<1> DEFINE c == Head(parsing[p])
<1>1. /\ UNCHANGED <<up, dead, sent, inbox, agreed>>
      /\ parsing[p] # <<>> /\ parsing' = [parsing EXCEPT ![p] = Rest(@)]
      /\ Handle(p, c)
  BY DEF diag_cntl_recv, outside
<1>2. c \in ControlCommand
  BY <1>1, Parsed
<1> HIDE DEF c
<1>3. /\ \A x \in Perif \ {p} : cntlq'[x] = cntlq[x] /\ features'[x] = features[x]
  BY <1>1, <1>2, HandleOwn
<1>4. \A x \in Perif \ {p} : parsing'[x] = parsing[x]
  BY <1>1 DEF TypeInv, TransportOK
<1>5. \A x \in Perif \ {p} : Negotiated(x) => Negotiated(x)'
  BY <1>1, <1>3, <1>4, NegotiatedKept
<1>6. cntlq[p] \in Seq(ControlPacket) /\ cntlq \in [Perif -> Seq(ControlPacket)]
      /\ features \in [Perif -> SUBSET Feature]
  BY DEF TypeInv, QueuesOK, AgreedOK
<1>7. ASSUME Negotiated(p) PROVE Negotiated(p)'
  <2>1. ASSUME NEW i \in 1..Len(inbox[p]), Asks(p, i) PROVE Negotiated(p)'
    BY <1>1, <2>1 DEF Negotiated, Asks
  <2>2. CASE Fresh(p) /\ c.op = "feature"
    <3>1. diag_cntl_feature_mask(p, c, fds[p], p \in Qrtr)
      BY <1>1, <2>2 DEF Handle
    <3>2. PICK both : both = c.mask \cap local_mask(fds[p], p \in Qrtr)
      OBVIOUS
    <3>3. both \in SUBSET Feature
      BY <3>2 DEF local_mask, Feature
    <3>4. /\ features' = [features EXCEPT ![p] = both]
          /\ cntlq' = Push(cntlq, p, FeatureAnswer(both))
      BY <3>1, <3>2 DEF diag_cntl_feature_mask, diag_cntl_send_feature_mask, FeatureAnswer
    <3>5. features'[p] = both /\ cntlq'[p] = cntlq[p] \o FeatureAnswer(both)
      BY <1>6, <3>4 DEF Push
    <3>6. Settles(cntlq'[p], agreed'[p], features'[p])
      BY <1>6, <3>3, <3>5, SettlesAnswer
    <3> QED BY <1>1, <2>2, <3>6 DEF Negotiated, Fresh
  <2>3. CASE Fresh(p) /\ c.op # "feature" /\ Settles(cntlq[p], agreed[p], features[p])
    <3>1. features' = features
      BY <1>1, <2>3 DEF Handle
    <3>2. CASE cntlq' = cntlq
      BY <1>1, <2>3, <3>1, <3>2 DEF Negotiated, Fresh
    <3>3. ASSUME NEW e \in ControlPacket, e.op # "feature", cntlq' = Push(cntlq, p, <<e>>)
          PROVE  Negotiated(p)'
      <4>1. PICK s \in Seq(ControlPacket) : s = <<e>> /\ Len(s) = 1 /\ s[1] = e
        <5>1. <<e>> \in Seq(ControlPacket) /\ Len(<<e>>) = 1 /\ <<e>>[1] = e
          OBVIOUS
        <5> QED BY <5>1
      <4>2. cntlq'[p] = cntlq[p] \o s /\ \A k \in 1..Len(s) : s[k].op # "feature"
        BY <1>6, <3>3, <4>1 DEF Push
      <4>3. Settles(cntlq'[p], agreed[p], features[p])
        BY <1>6, <2>3, <4>2, SettlesPush
      <4> QED BY <1>1, <2>3, <3>1, <4>3 DEF Negotiated, Fresh
    <3>4. \/ cntlq' = cntlq
          \/ \E e \in ControlPacket : e.op # "feature" /\ cntlq' = Push(cntlq, p, <<e>>)
      <4>1. CASE c.op = "diag_id" /\ diag_cntl_process_diag_id(p, c)
        <5> DEFINE n == process_name(p, c)
        <5>1. /\ n \in Name \cup {Garbage}
              /\ diag_ids \in Seq(DiagId) /\ diag_id \in Nat /\ NewId(c) \in Nat
          BY <1>2, <4>1 DEF ControlCommand, process_name, TypeInv, AgreedOK, NewId
        <5>2. ASSUME NEW i \in Nat, DiagIdAnswer(p, i, n)
              PROVE  \E e \in ControlPacket : e.op # "feature" /\ cntlq' = Push(cntlq, p, <<e>>)
          <6>1. PICK e : e = [op |-> "diag_id", id |-> i, name |-> n]
            OBVIOUS
          <6>2. e \in ControlPacket /\ e.op # "feature"
            BY <5>1, <6>1, ControlPackets
          <6> QED BY <5>2, <6>1, <6>2 DEF DiagIdAnswer
        <5>3. CASE ProcessKnownId(p, c)
          <6>1. Known(n) # {} /\ DiagIdAnswer(p, diag_ids[FirstOf(Known(n))].id, n)
            BY <5>3 DEF ProcessKnownId
          <6>2. diag_ids[FirstOf(Known(n))].id \in Nat
            BY <5>1, <6>1, FirstKnown
          <6> QED BY <5>2, <6>1, <6>2
        <5>4. CASE ProcessNewId(p, c)
          BY <5>1, <5>2, <5>4 DEF ProcessNewId
        <5>5. CASE ProcessIdRefused(p, c)
          BY <5>5 DEF ProcessIdRefused
        <5> QED BY <4>1, <5>3, <5>4, <5>5 DEF diag_cntl_process_diag_id
      <4> QED BY <1>1, <2>3, <4>1 DEF Handle
    <3> QED BY <3>2, <3>3, <3>4
  <2> QED BY <1>7, <2>1, <2>2, <2>3 DEF Negotiated, c
<1>8. up \subseteq Perif
  BY DEF TypeInv, OutsideOK
<1> QED BY <1>1, <1>5, <1>7, <1>8 DEF FeatureInv
LEMMA OpenFeatures ==
    ASSUME TypeInv, FeatureInv, NEW p \in Perif, peripheral_open(p)
    PROVE  FeatureInv'
<1>1. /\ UNCHANGED <<up, dead, sent, inbox, parsing, agreed, features>>
      /\ cntlq' = Push(cntlq, p, MaskPackets) \/ cntlq' = cntlq
  BY DEF peripheral_open
<1>2. cntlq \in [Perif -> Seq(ControlPacket)] /\ up \subseteq Perif
  BY DEF TypeInv, QueuesOK, OutsideOK
<1>3. /\ MaskPackets \in Seq(ControlPacket)
      /\ \A k \in 1..Len(MaskPackets) : MaskPackets[k].op # "feature"
  <2>1. MaskPackets \in Seq(ControlPacket)
    BY ControlPackets
  <2>2. \A k \in 1..Len(MaskPackets) : MaskPackets[k].op # "feature"
    BY CntlAssumption DEF MaskPackets
  <2> QED BY <2>1, <2>2
<1>4. ASSUME NEW x \in Perif, Negotiated(x) PROVE Negotiated(x)'
  <2>1. CASE cntlq'[x] = cntlq[x]
    BY <1>1, <1>4, <2>1, NegotiatedKept
  <2>2. CASE cntlq'[x] = cntlq[x] \o MaskPackets
    BY <1>1, <1>3, <1>4, <2>2, NegotiatedPush
  <2> QED BY <1>1, <1>2, <2>1, <2>2 DEF Push
<1> QED BY <1>1, <1>2, <1>4 DEF FeatureInv

\* A subsystem whose channels had to be closed has sent nothing since it booted.
LEMMA ErrorFeatures ==
    ASSUME TypeInv, FeatureInv, NEW p \in Perif, NEW c \in AllChannels, ChannelError(p, c)
    PROVE  FeatureInv'
<1>1. /\ UNCHANGED <<up, sent, inbox, parsing, agreed>>
      /\ p \in dead /\ dead' = dead \ {p}
      /\ cntlq' = [cntlq EXCEPT ![p] = <<>>] /\ features' = [features EXCEPT ![p] = {}]
  BY DEF ChannelError, perif_rpmsg_close
<1>2. \A x \in Perif \ {p} : cntlq'[x] = cntlq[x] /\ features'[x] = features[x]
  BY <1>1 DEF TypeInv, QueuesOK, AgreedOK
<1>3. \A x \in Perif \ {p} : Negotiated(x) => Negotiated(x)'
  BY <1>1, <1>2, NegotiatedKept
<1>4. p \in up => sent[p] = 0
  BY <1>1 DEF FeatureInv
<1>5. up \subseteq Perif
  BY DEF TypeInv, OutsideOK
<1> QED BY <1>1, <1>3, <1>4, <1>5 DEF FeatureInv

\* The running subsystem is told what was queued; a packet for an earlier one is lost,
\* but then its features are still to be read.
LEMMA WriteFeatures ==
    ASSUME TypeInv, FeatureInv, NEW p \in Perif, CntlWrite(p)
    PROVE  FeatureInv'
<1>1. /\ UNCHANGED <<up, dead, sent, inbox, parsing, features>>
      /\ cntlq[p] # <<>> /\ cntlq' = [cntlq EXCEPT ![p] = Tail(@)]
  BY DEF CntlWrite, transport
<1>2. PICK k : k = Head(cntlq[p])
  OBVIOUS
<1>3. IF Connected(p) /\ k.op = "feature" THEN agreed' = [agreed EXCEPT ![p] = k.mask]
                                          ELSE agreed' = agreed
  BY <1>2 DEF CntlWrite
<1>4. /\ cntlq \in [Perif -> Seq(ControlPacket)] /\ up \subseteq Perif
      /\ DOMAIN agreed = Perif
  BY DEF TypeInv, QueuesOK, OutsideOK
<1>5. /\ cntlq'[p] = Tail(cntlq[p])
      /\ \A x \in Perif \ {p} : cntlq'[x] = cntlq[x] /\ agreed'[x] = agreed[x]
  BY <1>1, <1>3, <1>4
<1>6. \A x \in Perif \ {p} : Negotiated(x) => Negotiated(x)'
  BY <1>1, <1>5, NegotiatedKept
<1>7. ASSUME p \in up \ dead, Negotiated(p) PROVE Negotiated(p)'
  <2>1. ASSUME NEW i \in 1..Len(inbox[p]), Asks(p, i) PROVE Negotiated(p)'
    BY <1>1, <2>1 DEF Negotiated, Asks
  <2>2. CASE Fresh(p) /\ parsing[p] # <<>> /\ Head(parsing[p]).op = "feature"
    BY <1>1, <2>2 DEF Negotiated, Fresh
  <2>3. CASE Fresh(p) /\ Settles(cntlq[p], agreed[p], features[p])
    <3>1. Connected(p)
      BY <1>7, <2>3, Given DEF Connected, Fresh
    <3>2. agreed'[p] = IF k.op = "feature" THEN k.mask ELSE agreed[p]
      BY <1>3, <1>4, <3>1
    <3>3. Settles(Tail(cntlq[p]), IF k.op = "feature" THEN k.mask ELSE agreed[p], features[p])
      BY <1>1, <1>2, <1>4, <2>3, SettlesTail
    <3>4. Settles(cntlq'[p], agreed'[p], features'[p])
      BY <1>1, <1>5, <3>2, <3>3
    <3> QED BY <1>1, <2>3, <3>4 DEF Negotiated, Fresh
  <2> QED BY <1>7, <2>1, <2>2, <2>3 DEF Negotiated
<1> QED BY <1>1, <1>4, <1>6, <1>7 DEF FeatureInv

LEMMA DispatchFeatures ==
    ASSUME TypeInv, FeatureInv, NEW m \in DmCommand, diag_cmd_dispatch(m)
    PROVE  FeatureInv'
<1>1. UNCHANGED <<up, dead, sent, inbox, parsing, agreed, features>>
  BY DEF diag_cmd_dispatch, transport
<1>2. up \subseteq Perif /\ cntlq \in [Perif -> Seq(ControlPacket)]
  BY DEF TypeInv, OutsideOK, QueuesOK
<1>3. ASSUME NEW p \in Perif, Negotiated(p) PROVE Negotiated(p)'
  <2>1. CASE cntlq'[p] = cntlq[p]
    BY <1>1, <1>3, <2>1, NegotiatedKept
  <2>2. ASSUME NEW e \in ControlPacket, e.op # "feature", cntlq'[p] = Append(cntlq[p], e)
        PROVE  Negotiated(p)'
    <3>1. PICK s \in Seq(ControlPacket) : s = <<e>> /\ Len(s) = 1 /\ s[1] = e
      <4>1. <<e>> \in Seq(ControlPacket) /\ Len(<<e>>) = 1 /\ <<e>>[1] = e
        OBVIOUS
      <4> QED BY <4>1
    <3>2. cntlq'[p] = cntlq[p] \o s
      BY <1>2, <2>2, <3>1, AppendIsConcat
    <3>3. \A k \in 1..Len(s) : s[k].op # "feature"
      BY <2>2, <3>1
    <3> QED BY <1>1, <1>3, <3>2, <3>3, NegotiatedPush
  <2>3. CASE DispatchCommon(m, HasCntl)
    <3>1. PICK k \in {"msg_mask", "log_mask", "event_mask", "none"} :
            cntlq' = [x \in Perif |-> IF x \in HasCntl /\ k # "none"
                                      THEN Append(cntlq[x], [op |-> k])
                                      ELSE cntlq[x]]
      BY <2>3 DEF DispatchCommon
    <3>2. CASE cntlq'[p] = Append(cntlq[p], [op |-> k]) /\ k # "none"
      <4>1. PICK e : e = [op |-> k]
        OBVIOUS
      <4>2. e \in ControlPacket /\ e.op # "feature"
        BY <3>2, <4>1, ControlPackets
      <4> QED BY <2>2, <3>2, <4>1, <4>2
    <3> QED BY <2>1, <3>1, <3>2
  <2>4. CASE DispatchForward(m, ReqRsp)
    BY <2>1, <2>4 DEF DispatchForward
  <2> QED BY <2>3, <2>4 DEF diag_cmd_dispatch
<1> QED BY <1>1, <1>2, <1>3 DEF FeatureInv

LEMMA OutsideFeatures ==
    ASSUME TypeInv, FeatureInv, ScriptsNegotiate, NEW p \in Perif,
           Boot(p) \/ GoDown(p) \/ SubsystemSend(p) \/ Notice(p)
    PROVE  FeatureInv'
<1>1. UNCHANGED <<parsing, cntlq, features>>
  BY DEF Boot, GoDown, SubsystemSend, Notice, cntlVars, transport
<1>2. /\ up \subseteq Perif /\ sent \in [Perif -> Nat] /\ dead \subseteq Rpmsg
      /\ DOMAIN agreed = Perif /\ DOMAIN inbox = Perif
  BY DEF TypeInv, OutsideOK
<1>3. ASSUME \A x \in Perif \ {p} : inbox'[x] = inbox[x] /\ agreed'[x] = agreed[x]
      PROVE  \A x \in Perif \ {p} : Negotiated(x) => Negotiated(x)'
  BY <1>1, <1>3, NegotiatedKept
<1>4. CASE Boot(p)
  <2>1. /\ up' = up \cup {p} /\ UNCHANGED <<inbox, dead>>
        /\ sent' = [sent EXCEPT ![p] = 0] /\ agreed' = [agreed EXCEPT ![p] = NoAnswer]
    BY <1>4 DEF Boot
  <2>2. sent'[p] = 0 /\ \A x \in Perif \ {p} : sent'[x] = sent[x] /\ agreed'[x] = agreed[x]
    BY <1>2, <2>1
  <2> QED BY <1>2, <1>3, <2>1, <2>2 DEF FeatureInv
<1>5. CASE GoDown(p)
  <2>1. /\ up' = up \ {p} /\ UNCHANGED <<sent, agreed>>
        /\ dead' = dead \/ dead' = dead \cup {p}
        /\ \E x : inbox' = [inbox EXCEPT ![p] = x]
    BY <1>5 DEF GoDown
  <2>2. \A x \in Perif \ {p} : inbox'[x] = inbox[x]
    BY <1>2, <2>1
  <2> QED BY <1>2, <1>3, <2>1, <2>2 DEF FeatureInv
<1>6. CASE SubsystemSend(p)
  <2> DEFINE n == sent[p] + 1
             e == Script[p][n]
  <2>1. /\ p \in up /\ UNCHANGED <<up, dead, agreed>> /\ p \notin dead
        /\ sent[p] < Len(Script[p]) /\ sent' = [sent EXCEPT ![p] = @ + 1]
        /\ inbox' = [inbox EXCEPT ![p] = Append(@, e)]
    BY <1>2, <1>6, Given DEF SubsystemSend
  <2>2. e \in Seq(ControlCommand)
    <3>1. Script[p] \in Seq(Seq(ControlCommand)) /\ n \in 1..Len(Script[p])
      BY <1>2, <2>1, Given, LenProperties
    <3> QED BY <3>1, ElementOfSeq
  <2>3. sent[p] = 0 => e # <<>> /\ Head(e).op = "feature"
    <3> SUFFICES ASSUME sent[p] = 0 PROVE e # <<>> /\ Head(e).op = "feature"
      OBVIOUS
    <3>1. Script[p] # <<>>
      BY <2>1, Given, EmptySeq
    <3>2. e = Script[p][1]
      OBVIOUS
    <3>3. Script[p][1] # <<>> /\ Script[p][1][1].op = "feature"
      BY <3>1 DEF ScriptsNegotiate
    <3>4. Len(e) \in Nat \ {0}
      BY <2>2, <3>2, <3>3, EmptySeq, LenProperties
    <3>5. Head(e) = e[1]
      BY <2>2, <3>2, <3>3, HeadTailProperties
    <3> QED BY <3>2, <3>3, <3>5
  <2> HIDE DEF n, e
  <2>4. e \in Arrival /\ e # Bye
    BY <2>2, NoticesApart DEF Arrival
  <2>5. Negotiated(p)'
    <3>1. sent[p] > 0 \/ sent[p] = 0
      BY <1>2
    <3>2. CASE sent[p] = 0
      BY <1>1, <2>1, <2>2, <2>3, <2>4, <3>2, NegotiatedArrival
    <3>3. CASE sent[p] > 0
      <4>1. Negotiated(p)
        BY <2>1, <3>3 DEF FeatureInv
      <4> QED BY <1>1, <2>1, <2>4, <4>1, NegotiatedArrival
    <3> QED BY <3>1, <3>2, <3>3
  <2>6. \A x \in Perif \ {p} : inbox'[x] = inbox[x] /\ sent'[x] = sent[x]
    BY <1>2, <2>1
  <2> QED BY <1>2, <1>3, <2>1, <2>5, <2>6 DEF FeatureInv
<1>7. CASE Notice(p)
  <2>1. UNCHANGED <<up, sent, dead, agreed>>
    BY <1>7 DEF Notice
  <2>2. PICK e \in {Ignored, Failed} : inbox' = [inbox EXCEPT ![p] = Append(@, e)]
    BY <1>7 DEF Notice
  <2>3. e \in Arrival /\ e # Bye
    BY NoticesApart DEF Arrival
  <2>4. Negotiated(p) => Negotiated(p)'
    BY <1>1, <2>1, <2>2, <2>3, NegotiatedArrival
  <2>5. \A x \in Perif \ {p} : inbox'[x] = inbox[x]
    BY <1>2, <2>2
  <2> QED BY <1>2, <1>3, <2>1, <2>4, <2>5 DEF FeatureInv
<1> QED BY <1>4, <1>5, <1>6, <1>7

LEMMA NextFeatures ==
    TypeInv /\ ScriptsNegotiate /\ FeatureInv /\ [Next]_vars => FeatureInv'
<1> SUFFICES ASSUME TypeInv, ScriptsNegotiate, FeatureInv, [Next]_vars PROVE FeatureInv'
  OBVIOUS
<1>1. ASSUME UNCHANGED <<up, dead, sent, inbox, parsing, cntlq, agreed, features>>
      PROVE  FeatureInv'
  BY <1>1, NegotiatedKept DEF FeatureInv, Negotiated, Asks, Fresh
<1>2. CASE UNCHANGED vars
  BY <1>1, <1>2 DEF vars, cntlVars, transport, outside
<1>3. CASE Select \/ peripheral_udev_update
  BY <1>1, <1>3 DEF Select, peripheral_udev_update, cntlVars, outside
<1>4. ASSUME NEW p \in Perif, RequestWrite(p) PROVE FeatureInv'
  BY <1>1, <1>4 DEF RequestWrite, transport, outside
<1>5. CASE RouterStep
  BY <1>3, <1>4, <1>5, RecvFeatures, ParseFeatures, OpenFeatures, ErrorFeatures,
     WriteFeatures DEF RouterStep
<1>6. CASE Environment
  BY <1>6, OutsideFeatures, DispatchFeatures DEF Environment
<1> QED BY <1>2, <1>5, <1>6 DEF Next

\* If subsystems start with their feature mask, then router and subsystem agree on the
\* features whenever nothing is under way between them, over restarts, errors and
\* answers queued for an earlier boot: what diag_cntl_feature_mask keeps is what the
\* last answer says.
THEOREM FeaturesNegotiated == Spec => [](ScriptsNegotiate => FeaturesAgree)
<1>1. Init => (ScriptsNegotiate => FeatureInv)
  BY InitFeatures
<1>2. TypeInv /\ (ScriptsNegotiate => FeatureInv) /\ [Next]_vars
          => (ScriptsNegotiate => FeatureInv)'
  BY NextFeatures DEF ScriptsNegotiate
<1>3. TypeInv /\ (ScriptsNegotiate => FeatureInv) => (ScriptsNegotiate => FeaturesAgree)
  <2> SUFFICES ASSUME TypeInv, FeatureInv, NEW p \in Perif, Settled(p), cntlq[p] = <<>>,
                      sent[p] > 0
               PROVE  agreed[p] = features[p]
    BY DEF FeaturesAgree
  <2>1. /\ p \in up \ dead /\ inbox[p] = <<>> /\ parsing[p] = <<>>
        /\ Len(inbox[p]) = 0 /\ Len(cntlq[p]) = 0
    BY DEF Settled
  <2>2. Settles(cntlq[p], agreed[p], features[p])
    BY <2>1 DEF FeatureInv, Negotiated
  <2> QED BY <2>1, <2>2 DEF Settles
<1> QED BY <1>1, <1>2, <1>3, TypeInvAlways, PTL DEF Spec

-----------------------------------------------------------------------------
(* Registrations.                                                          *)

LEMMA RegisteredMember ==
    ASSUME NEW p, NEW e, NEW H, NEW w
    PROVE  w \in RegisteredAt(p, e, H) <=>
           \E x \in H :
              /\ At(p, x).op = "register"
              /\ \A z \in H : At(p, z).op = "deregister" /\ Later(z, x)
                                 => e \notin Entries(p, At(p, z))
              /\ w \in {x} \X {i \in 1..Len(At(p, x).ranges) : EntryOf(p, At(p, x), i) = e}
BY DEF RegisteredAt

\* A registration behind all others counts with each of its ranges.
LEMMA RegisterCounts ==
    ASSUME NEW p \in Perif, NEW e, NEW H, NEW z, z \notin H,
           \A x \in H : ~Later(x, z), ~Later(z, z),
           At(p, z) \in ControlCommand, At(p, z).op = "register",
           IsFiniteSet(RegisteredAt(p, e, H))
    PROVE  /\ IsFiniteSet(RegisteredAt(p, e, H \cup {z}))
           /\ Cardinality(RegisteredAt(p, e, H \cup {z})) =
                 Cardinality(RegisteredAt(p, e, H))
                 + Cardinality({i \in 1..Len(At(p, z).ranges) : EntryOf(p, At(p, z), i) = e})
<1> DEFINE S == {i \in 1..Len(At(p, z).ranges) : EntryOf(p, At(p, z), i) = e}
           R == RegisteredAt(p, e, H)
           N == {z} \X S
<1>1. IsFiniteSet(S) /\ Cardinality(S) \in Nat
  <2>1. IsFiniteSet(1..Len(At(p, z).ranges))
    BY EntriesOK, FS_Interval
  <2>2. IsFiniteSet(S)
    BY <2>1, FS_Subset
  <2> QED BY <2>2, FS_CardinalityType
<1>2. IsFiniteSet(N) /\ Cardinality(N) = Cardinality(S)
  <2>1. IsFiniteSet({z}) /\ Cardinality({z}) = 1
    BY FS_Singleton
  <2> HIDE DEF S
  <2> QED BY <1>1, <2>1, FS_Product
<1>3. RegisteredAt(p, e, H \cup {z}) = R \cup N
  <2>1. ASSUME NEW w PROVE w \in RegisteredAt(p, e, H \cup {z}) <=> w \in R \/ w \in N
    <3>1. \A x \in H \cup {z} :
            (\A y \in H \cup {z} : At(p, y).op = "deregister" /\ Later(y, x)
                                      => e \notin Entries(p, At(p, y)))
            <=> (\A y \in H : At(p, y).op = "deregister" /\ Later(y, x)
                                      => e \notin Entries(p, At(p, y)))
      OBVIOUS
    <3>2. \A y \in H : ~Later(y, z)
      OBVIOUS
    <3> QED BY <3>1, <3>2, RegisteredMember
  <2> QED BY <2>1
<1>4. R \cap N = {}
  BY RegisteredMember
<1>5. Cardinality(R) \in Nat
  BY FS_CardinalityType
<1>6. /\ IsFiniteSet(R \cup N)
      /\ Cardinality(R \cup N) = Cardinality(R) + Cardinality(N) - Cardinality({})
  <2>1. IsFiniteSet(R)
    OBVIOUS
  <2> HIDE DEF R, N
  <2>2. /\ IsFiniteSet(R \cup N)
        /\ Cardinality(R \cup N) = Cardinality(R) + Cardinality(N) - Cardinality(R \cap N)
    BY <1>2, <2>1, FS_Union, Zenon
  <2> QED BY <1>4, <2>2
<1>7. Cardinality({}) = 0
  BY FS_EmptySet
<1> HIDE DEF R, N, S
<1>8. Cardinality(R \cup N) = Cardinality(R) + Cardinality(S)
  BY <1>1, <1>2, <1>5, <1>6, <1>7
<1> QED BY <1>3, <1>6, <1>8 DEF R, S

\* A deregistration behind all others takes them all away.
LEMMA DeregisterCounts ==
    ASSUME NEW p \in Perif, NEW e, NEW H, NEW z,
           \A x \in H : Later(z, x), ~Later(z, z), At(p, z).op = "deregister"
    PROVE  RegisteredAt(p, e, H \cup {z}) =
              IF e \in Entries(p, At(p, z)) THEN {} ELSE RegisteredAt(p, e, H)
<1>1. ASSUME NEW w PROVE w \in RegisteredAt(p, e, H \cup {z}) <=>
                             e \notin Entries(p, At(p, z)) /\ w \in RegisteredAt(p, e, H)
  BY RegisteredMember
<1> QED BY <1>1

\* Other commands do not count.
LEMMA OthersCount ==
    ASSUME NEW p \in Perif, NEW e, NEW H, NEW z,
           At(p, z).op \notin {"register", "deregister"}
    PROVE  RegisteredAt(p, e, H \cup {z}) = RegisteredAt(p, e, H)
<1>1. ASSUME NEW w PROVE w \in RegisteredAt(p, e, H \cup {z}) <=> w \in RegisteredAt(p, e, H)
  BY RegisteredMember
<1> QED BY <1>1

\* What has been looked at when k packets of p were read, and n commands of the last.
Handled(p, k, n) ==
    UNION {{i} \X {j \in Readable(Script[p][i]) : i = k => j <= n} : i \in 1..k}

LEMMA HandledMember ==
    ASSUME NEW p, NEW k, NEW n, NEW w
    PROVE  w \in Handled(p, k, n) <=>
           \E i \in 1..k : \E j \in Readable(Script[p][i]) : w = <<i, j>> /\ (i = k => j <= n)
BY DEF Handled

\* When a packet is done the next one is begun.
LEMMA HandledNext ==
    ASSUME NEW p \in Perif, NEW k \in Nat, NEW n \in Nat,
           k # 0 => n = Len(Script[p][k])
    PROVE  Handled(p, k, n) = Handled(p, k + 1, 0)
<1>1. ASSUME NEW w PROVE w \in Handled(p, k, n) <=> w \in Handled(p, k + 1, 0)
  <2>1. \A i \in 1..(k + 1) : \A j \in Readable(Script[p][i]) :
           j \in Nat /\ j # 0 /\ (i = k => j <= n)
    BY DEF Readable
  <2>2. \A i \in 1..k : i \in 1..(k + 1) /\ i # k + 1
    OBVIOUS
  <2>3. \A i \in 1..(k + 1) : i = k + 1 \/ i \in 1..k
    OBVIOUS
  <2>4. \A i \in 1..(k + 1) : \A j \in Readable(Script[p][i]) : ~(j <= 0)
    BY DEF Readable
  <2> QED BY <2>1, <2>2, <2>3, <2>4, HandledMember
<1> QED BY <1>1

\* One command more.
LEMMA HandledMore ==
    ASSUME NEW p \in Perif, NEW k \in Nat \ {0}, NEW n \in Nat,
           n + 1 \in 1..Len(Script[p][k]),
           \A i \in 1..n : Script[p][k][i].op # "truncated"
    PROVE  /\ Handled(p, k, n + 1) = Handled(p, k, n) \cup {<<k, n + 1>>}
           /\ <<k, n + 1>> \notin Handled(p, k, n)
           /\ ~Later(<<k, n + 1>>, <<k, n + 1>>)
           /\ \A x \in Handled(p, k, n) : Later(<<k, n + 1>>, x) /\ ~Later(x, <<k, n + 1>>)
<1>1. n + 1 \in Readable(Script[p][k])
  BY DEF Readable
<1>2. \A i \in 1..k : \A j \in Readable(Script[p][i]) : i \in Nat /\ j \in Nat
  BY DEF Readable
<1>3. ASSUME NEW w
      PROVE  w \in Handled(p, k, n + 1) <=> w \in Handled(p, k, n) \/ w = <<k, n + 1>>
  <2>1. \A j \in Nat : j <= n + 1 <=> j <= n \/ j = n + 1
    OBVIOUS
  <2>2. k \in 1..k
    OBVIOUS
  <2> QED BY SMTT(30), <1>1, <1>2, <2>1, <2>2, HandledMember
<1>4. ASSUME NEW x \in Handled(p, k, n)
      PROVE  x # <<k, n + 1>> /\ Later(<<k, n + 1>>, x) /\ ~Later(x, <<k, n + 1>>)
  <2>1. PICK i \in 1..k : \E j \in Readable(Script[p][i]) : x = <<i, j>> /\ (i = k => j <= n)
    BY HandledMember
  <2>2. PICK j \in Readable(Script[p][i]) : x = <<i, j>> /\ (i = k => j <= n)
    BY <2>1
  <2>3. i \in Nat /\ j \in Nat /\ i <= k
    BY <1>2
  <2> QED BY <2>2, <2>3 DEF Later
<1>5. ~Later(<<k, n + 1>>, <<k, n + 1>>)
  BY DEF Later
<1> QED BY <1>3, <1>4, <1>5

\* Nothing is read behind a command that is truncated.
LEMMA HandledCut ==
    ASSUME NEW p \in Perif, NEW k \in Nat \ {0}, NEW n \in Nat \ {0}, NEW l \in Nat,
           n <= l, l = Len(Script[p][k]), Script[p][k][n].op = "truncated"
    PROVE  Handled(p, k, n) = Handled(p, k, l)
<1>1. ASSUME NEW j \in Readable(Script[p][k]) PROVE j <= n /\ j <= l
  <2>1. j \in Nat /\ j <= l /\ \A m \in 1..(j - 1) : Script[p][k][m].op # "truncated"
    BY DEF Readable
  <2>2. n \notin 1..(j - 1)
    BY <2>1
  <2> QED BY <2>1, <2>2
<1>2. ASSUME NEW w PROVE w \in Handled(p, k, n) <=> w \in Handled(p, k, l)
  BY <1>1, HandledMember
<1> QED BY <1>2

\* The session of p is the one with the running subsystem; a QRTR subsystem may not
\* have started yet, and its first boot is the only one whose entries are exact.
Current(p) ==
    IF p \in Qrtr THEN boots[p] = 0 \/ (boots[p] = 1 /\ p \in up) ELSE p \in up \ dead

\* The packets in the inbox are the last ones sent, with QRTR notices between them:
\* g[i] packets were sent up to the one at i, g[0] of them have been read.
Tracks(p, g) ==
    /\ g \in [0..Len(inbox[p]) -> 0..sent[p]]
    /\ g[Len(inbox[p])] = sent[p]
    /\ \A i \in 1..Len(inbox[p]) :
          \/ inbox[p][i] \in {Ignored, Failed} /\ g[i] = g[i - 1]
          \/ inbox[p][i] = Script[p][g[i]] /\ g[i] = g[i - 1] + 1

\* Of packet k the first n commands have been looked at, the others are left.
Position(p, k, n) ==
    /\ n \in Nat
    /\ k = 0 => parsing[p] = <<>>
    /\ k # 0 => /\ n + Len(parsing[p]) = Len(Script[p][k])
                /\ \A i \in 1..Len(parsing[p]) : parsing[p][i] = Script[p][k][n + i]
    /\ parsing[p] # <<>> => \A i \in 1..n : Script[p][k][i].op # "truncated"

\* The entries of p are those that the commands at H have registered.
TableIs(p, H) ==
    \A e \in Entry : e.peripheral = p =>
        /\ IsFiniteSet(RegisteredAt(p, e, H))
        /\ Times(e) = Cardinality(RegisteredAt(p, e, H))

Followed(p) ==
    \E g, k, n : /\ Tracks(p, g) /\ k = g[0]
                 /\ Position(p, k, n) /\ TableIs(p, Handled(p, k, n))

\* Where subsystems are in their scripts: one without a session has sent nothing
\* since it started.
ScriptInv ==
    /\ \A p \in Perif : sent[p] <= Len(Script[p])
    /\ \A p \in Qrtr : boots[p] = 0 => p \notin up /\ sent[p] = 0
    /\ \A p \in Rpmsg \ dead : p \notin up => fds[p] = {}
    /\ \A p \in dead : inbox[p] = <<>> /\ (p \in up => sent[p] = 0)
    /\ \A p \in Rpmsg : fds[p] = {} => inbox[p] = <<>> /\ (p \in up => sent[p] = 0)

\* The inductive invariant behind RegistryExact.
RegistryInv == ScriptInv /\ \A p \in Perif : Current(p) => Followed(p)

LEMMA FollowedKept ==
    ASSUME NEW p \in Perif, Followed(p),
           inbox'[p] = inbox[p], sent'[p] = sent[p], parsing'[p] = parsing[p],
           \A e \in Entry : e.peripheral = p => Times(e)' = Times(e)
    PROVE  Followed(p)'
<1>1. PICK g, k, n : /\ Tracks(p, g) /\ k = g[0]
                     /\ Position(p, k, n) /\ TableIs(p, Handled(p, k, n))
  BY DEF Followed
<1>2. Tracks(p, g)' /\ Position(p, k, n)'
  BY <1>1 DEF Tracks, Position
<1>3. TableIs(p, Handled(p, k, n))'
  BY <1>1 DEF TableIs
<1> QED BY <1>1, <1>2, <1>3 DEF Followed

\* Nothing sent, nothing registered.
LEMMA FollowedFresh ==
    ASSUME NEW p \in Perif, inbox[p] = <<>>, sent[p] = 0, Idle(p)
    PROVE  Followed(p)
<1> DEFINE g == [i \in 0..0 |-> 0]
<1>1. Tracks(p, g)
  BY DEF Tracks
<1>2. Position(p, 0, 0)
  BY DEF Position, Idle
<1>3. \A e : RegisteredAt(p, e, Handled(p, 0, 0)) = {}
  <2>1. Handled(p, 0, 0) = {}
    BY HandledMember
  <2> QED BY <2>1, RegisteredMember
<1>4. TableIs(p, Handled(p, 0, 0))
  <2>1. IsFiniteSet({}) /\ Cardinality({}) = 0
    BY FS_EmptySet
  <2> QED BY <1>3, <2>1 DEF TableIs, Times, Idle
<1>5. g[0] = 0
  OBVIOUS
<1> QED BY <1>1, <1>2, <1>4, <1>5 DEF Followed

\* A packet is sent, or a notice arrives.
LEMMA FollowedArrival ==
    ASSUME TypeInv, NEW p \in Perif, Followed(p), NEW a,
           inbox' = [inbox EXCEPT ![p] = Append(@, a)], UNCHANGED <<parsing, diag_cmds>>,
           \/ a \in {Ignored, Failed} /\ sent'[p] = sent[p]
           \/ a = Script[p][sent[p] + 1] /\ sent'[p] = sent[p] + 1
    PROVE  Followed(p)'
<1>1. PICK g, k, n : /\ Tracks(p, g) /\ k = g[0]
                     /\ Position(p, k, n) /\ TableIs(p, Handled(p, k, n))
  BY DEF Followed
<1>2. inbox[p] \in Seq(Arrival) /\ DOMAIN inbox = Perif /\ sent[p] \in Nat
  BY DEF TypeInv, OutsideOK
<1>3. PICK l \in Nat : l = Len(inbox[p])
  BY <1>2, LenProperties
<1>4. /\ Len(inbox'[p]) = l + 1 /\ inbox'[p][l + 1] = a
      /\ \A i \in 1..l : inbox'[p][i] = inbox[p][i]
  <2>1. inbox'[p] = Append(inbox[p], a)
    BY <1>2
  <2> QED BY <1>2, <1>3, <2>1, AppendProperties
<1>m. PICK m : m = sent'[p]
  OBVIOUS
<1> DEFINE f == [i \in 0..(l + 1) |-> IF i = l + 1 THEN m ELSE g[i]]
<1>5. /\ g \in [0..l -> 0..sent[p]] /\ g[l] = sent[p]
      /\ \A i \in 1..l : \/ inbox[p][i] \in {Ignored, Failed} /\ g[i] = g[i - 1]
                         \/ inbox[p][i] = Script[p][g[i]] /\ g[i] = g[i - 1] + 1
  BY <1>1, <1>3 DEF Tracks
<1>6. /\ f \in [0..(l + 1) -> 0..sent'[p]] /\ f[l + 1] = sent'[p] /\ f[0] = g[0]
      /\ \A i \in 0..l : f[i] = g[i]
  BY <1>2, <1>5, <1>m
<1> HIDE DEF f
<1>7. ASSUME NEW i \in 1..(l + 1)
      PROVE  \/ inbox'[p][i] \in {Ignored, Failed} /\ f[i] = f[i - 1]
             \/ inbox'[p][i] = Script[p][f[i]] /\ f[i] = f[i - 1] + 1
  <2>1. CASE i \in 1..l
    <3>1. i \in 0..l /\ i - 1 \in 0..l
      BY <2>1
    <3>2. f[i] = g[i] /\ f[i - 1] = g[i - 1] /\ inbox'[p][i] = inbox[p][i]
      BY <1>4, <1>6, <2>1, <3>1
    <3> QED BY <1>5, <2>1, <3>2
  <2>2. CASE i = l + 1
    <3>1. f[i] = sent'[p] /\ f[i - 1] = sent[p] /\ inbox'[p][i] = a
      <4>1. i - 1 = l /\ l \in 0..l
        BY <2>2
      <4> QED BY <1>4, <1>5, <1>6, <2>2, <4>1
    <3> QED BY <3>1
  <2>3. i \in 1..l \/ i = l + 1
    OBVIOUS
  <2> QED BY <2>1, <2>2, <2>3
<1>8. Tracks(p, f)'
  BY <1>4, <1>6, <1>7 DEF Tracks
<1>9. Position(p, k, n)' /\ TableIs(p, Handled(p, k, n))'
  BY <1>1 DEF Position, TableIs, Times
<1> QED BY <1>1, <1>6, <1>8, <1>9 DEF Followed

\* The router reads a packet.
LEMMA FollowedRecv ==
    ASSUME TypeInv, NEW p \in Perif, Followed(p), sent[p] <= Len(Script[p]),
           inbox[p] # <<>>, parsing[p] = <<>>, UNCHANGED <<diag_cmds, sent>>,
           inbox' = [inbox EXCEPT ![p] = Tail(@)],
           parsing'[p] = IF Head(inbox[p]) \notin {Bye, Ignored, Failed}
                         THEN Head(inbox[p]) ELSE <<>>
    PROVE  Followed(p)'
<1>1. PICK g, k, n : /\ Tracks(p, g) /\ k = g[0]
                     /\ Position(p, k, n) /\ TableIs(p, Handled(p, k, n))
  BY DEF Followed
<1>2. inbox[p] \in Seq(Arrival) /\ DOMAIN inbox = Perif /\ sent[p] \in Nat
  BY DEF TypeInv, OutsideOK
<1>3. PICK l \in Nat \ {0} : l = Len(inbox[p])
  BY <1>2, LenProperties, EmptySeq
<1>4. /\ Len(inbox'[p]) = l - 1 /\ Head(inbox[p]) = inbox[p][1]
      /\ \A i \in 1..(l - 1) : inbox'[p][i] = inbox[p][i + 1]
  <2>1. inbox'[p] = Tail(inbox[p])
    BY <1>2
  <2> QED BY <1>2, <1>3, <2>1, HeadTailProperties
<1> DEFINE f == [i \in 0..(l - 1) |-> g[i + 1]]
<1>5. /\ g \in [0..l -> 0..sent[p]] /\ g[l] = sent[p]
      /\ \A i \in 1..l : \/ inbox[p][i] \in {Ignored, Failed} /\ g[i] = g[i - 1]
                         \/ inbox[p][i] = Script[p][g[i]] /\ g[i] = g[i - 1] + 1
  BY <1>1, <1>3 DEF Tracks
<1>6. /\ f \in [0..(l - 1) -> 0..sent[p]] /\ f[l - 1] = sent[p] /\ f[0] = g[1]
      /\ \A i \in 0..(l - 1) : f[i] = g[i + 1]
  <2>1. \A i \in 0..(l - 1) : i + 1 \in 0..l
    OBVIOUS
  <2>2. l - 1 \in 0..(l - 1) /\ (l - 1) + 1 = l /\ 0 \in 0..(l - 1) /\ 0 + 1 = 1
    OBVIOUS
  <2> QED BY <1>5, <2>1, <2>2
<1> HIDE DEF f
<1>7. ASSUME NEW i \in 1..(l - 1)
      PROVE  \/ inbox'[p][i] \in {Ignored, Failed} /\ f[i] = f[i - 1]
             \/ inbox'[p][i] = Script[p][f[i]] /\ f[i] = f[i - 1] + 1
  <2>1. /\ i \in 0..(l - 1) /\ i - 1 \in 0..(l - 1) /\ i + 1 \in 1..l
        /\ (i - 1) + 1 = i /\ (i + 1) - 1 = i
    OBVIOUS
  <2>2. f[i] = g[i + 1] /\ f[i - 1] = g[i] /\ inbox'[p][i] = inbox[p][i + 1]
    BY <1>4, <1>6, <2>1
  <2>3. \/ inbox[p][i + 1] \in {Ignored, Failed} /\ g[i + 1] = g[i]
        \/ inbox[p][i + 1] = Script[p][g[i + 1]] /\ g[i + 1] = g[i] + 1
    BY <1>5, <2>1
  <2> QED BY <2>2, <2>3
<1>8. Tracks(p, f)'
  BY <1>4, <1>6, <1>7 DEF Tracks
<1>9. k \in Nat /\ k = g[0] /\ n \in Nat /\ (k # 0 => n = Len(Script[p][k]))
  <2>1. Len(<<>>) = 0
    OBVIOUS
  <2>2. k \in 0..sent[p]
    BY <1>1, <1>5
  <2>3. k # 0 => k \in 1..Len(Script[p]) /\ Len(Script[p][k]) \in Nat
    <3>1. Script[p] \in Seq(Seq(ControlCommand)) /\ Len(Script[p]) \in Nat
      BY Given, LenProperties
    <3>2. k # 0 => k \in 1..Len(Script[p])
      BY <1>2, <2>2, <3>1
    <3>3. k # 0 => Script[p][k] \in Seq(ControlCommand)
      BY <3>1, <3>2, ElementOfSeq
    <3> QED BY <3>2, <3>3, LenProperties
  <2> QED BY <1>1, <1>2, <2>1, <2>2, <2>3 DEF Position
<1>10. \/ inbox[p][1] \in {Ignored, Failed} /\ g[1] = k
       \/ inbox[p][1] = Script[p][g[1]] /\ g[1] = k + 1
  <2>1. 1 \in 1..l /\ 1 - 1 = 0
    OBVIOUS
  <2> QED BY <1>5, <1>9, <2>1
<1>11. \A m, N : TableIs(p, Handled(p, m, N)) => TableIs(p, Handled(p, m, N))'
  BY DEF TableIs, Times
<1>12. CASE inbox[p][1] \in {Ignored, Failed} /\ g[1] = k
  <2>1. parsing'[p] = <<>>
    BY <1>4, <1>12
  <2>2. Position(p, k, n)'
    BY <1>1, <2>1 DEF Position
  <2> QED BY <1>1, <1>6, <1>8, <1>11, <1>12, <2>2 DEF Followed
<1>13. CASE inbox[p][1] = Script[p][g[1]] /\ g[1] = k + 1
  <2> DEFINE c == Script[p][k + 1]
  <2>1. c \in Seq(ControlCommand)
    <3>1. Script[p] \in Seq(Seq(ControlCommand)) /\ Len(Script[p]) \in Nat
      BY Given, LenProperties
    <3>2. k + 1 \in 0..sent[p]
      <4>1. 1 \in 0..l
        OBVIOUS
      <4> QED BY <1>5, <1>13, <4>1
    <3>3. k + 1 \in 1..Len(Script[p])
      BY <1>2, <1>9, <3>1, <3>2
    <3> QED BY <3>1, <3>3, ElementOfSeq
  <2>2. parsing'[p] = c
    BY <1>4, <1>13, <2>1, NoticesApart
  <2>3. Len(c) \in Nat
    BY <2>1, LenProperties
  <2> HIDE DEF c
  <2>4. Position(p, k + 1, 0)'
    <3>1. k + 1 # 0 /\ 0 + Len(c) = Len(c) /\ \A i \in 1..Len(c) : 0 + i = i
      BY <1>9, <2>3
    <3> QED BY <2>2, <3>1 DEF Position, c
  <2>5. Handled(p, k + 1, 0) = Handled(p, k, n)
    BY <1>9, HandledNext
  <2> QED BY <1>1, <1>6, <1>8, <1>11, <1>13, <2>4, <2>5 DEF Followed
<1> QED BY <1>10, <1>12, <1>13

\* What a command of p does to the table.
LEMMA HandleTimes ==
    ASSUME TypeInv, NEW p \in Perif, NEW c \in ControlCommand, Handle(p, c), NEW e \in Entry
    PROVE  /\ e.peripheral # p => Times(e)' = Times(e)
           /\ c.op = "register" =>
                 Times(e)' = Times(e)
                     + Cardinality({i \in 1..Len(c.ranges) : EntryOf(p, c, i) = e})
           /\ c.op = "deregister" =>
                 Times(e)' = IF e \in Entries(p, c) THEN 0 ELSE Times(e)
           /\ c.op \notin {"register", "deregister"} => Times(e)' = Times(e)
<1> DEFINE S == {i \in 1..Len(c.ranges) : EntryOf(p, c, i) = e}
<1>1. Times(e) \in Nat
  BY DEF Times, TypeInv, TableOK
<1>2. Cardinality({}) = 0
  BY FS_EmptySet
<1>3. CASE c.op = "register"
  <2>1. diag_cntl_register(p, c)
    BY <1>3 DEF Handle
  <2>2. e \notin Entries(p, c) => S = {}
    BY DEF Entries
  <2>3. /\ DOMAIN diag_cmds' = DOMAIN diag_cmds \cup Entries(p, c)
        /\ e \in DOMAIN diag_cmds' => diag_cmds'[e] = Times(e) + Cardinality(S)
    BY <2>1 DEF diag_cntl_register
  <2>4. Times(e)' = Times(e) + Cardinality(S)
    <3>1. CASE e \in DOMAIN diag_cmds'
      BY <2>3, <3>1 DEF Times
    <3>2. CASE e \notin DOMAIN diag_cmds'
      <4>1. Times(e) = 0 /\ S = {} /\ Times(e)' = 0
        BY <2>2, <2>3, <3>2 DEF Times
      <4> HIDE DEF S
      <4> QED BY <1>2, <4>1
    <3> QED BY <3>1, <3>2
  <2>5. e.peripheral # p => e \notin Entries(p, c)
    BY <1>3, EntriesOK
  <2>6. e.peripheral # p => Cardinality(S) = 0
    BY <1>2, <2>2, <2>5
  <2> HIDE DEF S
  <2>7. e.peripheral # p => Times(e)' = Times(e)
    BY <1>1, <2>4, <2>6
  <2> QED BY <1>3, <2>4, <2>7 DEF S
<1>4. CASE c.op = "deregister"
  <2>1. diag_cmds' = [d \in DOMAIN diag_cmds \ Entries(p, c) |-> diag_cmds[d]]
    BY <1>4 DEF Handle, diag_cntl_deregister
  <2>2. e.peripheral # p => e \notin Entries(p, c)
    BY <1>4, EntriesOK
  <2> QED BY <1>4, <2>1, <2>2 DEF Times
<1>5. CASE c.op \notin {"register", "deregister"}
  <2>1. UNCHANGED diag_cmds
    BY <1>5 DEF Handle
  <2> QED BY <1>5, <2>1 DEF Times
<1> QED BY <1>3, <1>4, <1>5

\* The table stays what the commands looked at have registered.
LEMMA TableHandled ==
    ASSUME TypeInv, NEW p \in Perif, NEW H, NEW z,
           At(p, z) \in ControlCommand, Handle(p, At(p, z)), z \notin H, ~Later(z, z),
           \A x \in H : Later(z, x) /\ ~Later(x, z), TableIs(p, H)
    PROVE  TableIs(p, H \cup {z})'
<1> SUFFICES ASSUME NEW e \in Entry, e.peripheral = p
             PROVE  /\ IsFiniteSet(RegisteredAt(p, e, H \cup {z}))
                    /\ Times(e)' = Cardinality(RegisteredAt(p, e, H \cup {z}))
  BY DEF TableIs
<1>1. IsFiniteSet(RegisteredAt(p, e, H)) /\ Times(e) = Cardinality(RegisteredAt(p, e, H))
  BY DEF TableIs
<1>2. CASE At(p, z).op = "register"
  <2> DEFINE S == {i \in 1..Len(At(p, z).ranges) : EntryOf(p, At(p, z), i) = e}
  <2>1. Times(e)' = Times(e) + Cardinality(S)
    BY <1>2, HandleTimes
  <2>2. /\ IsFiniteSet(RegisteredAt(p, e, H \cup {z}))
        /\ Cardinality(RegisteredAt(p, e, H \cup {z})) =
              Cardinality(RegisteredAt(p, e, H)) + Cardinality(S)
    <3>1. \A x \in H : ~Later(x, z)
      OBVIOUS
    <3> QED BY <1>1, <1>2, <3>1, RegisterCounts
  <2> HIDE DEF S
  <2> QED BY <1>1, <2>1, <2>2
<1>3. CASE At(p, z).op = "deregister"
  <2>1. RegisteredAt(p, e, H \cup {z}) =
           IF e \in Entries(p, At(p, z)) THEN {} ELSE RegisteredAt(p, e, H)
    BY <1>3, DeregisterCounts
  <2>2. Times(e)' = IF e \in Entries(p, At(p, z)) THEN 0 ELSE Times(e)
    BY <1>3, HandleTimes
  <2>3. IsFiniteSet({}) /\ Cardinality({}) = 0
    BY FS_EmptySet
  <2> QED BY <1>1, <2>1, <2>2, <2>3
<1>4. CASE At(p, z).op \notin {"register", "deregister"}
  <2>1. RegisteredAt(p, e, H \cup {z}) = RegisteredAt(p, e, H)
    BY <1>4, OthersCount
  <2>2. Times(e)' = Times(e)
    BY <1>4, HandleTimes
  <2> QED BY <1>1, <2>1, <2>2
<1> QED BY <1>2, <1>3, <1>4

\* The router looks at a command.
LEMMA FollowedParse ==
    ASSUME TypeInv, NEW p \in Perif, Followed(p), sent[p] <= Len(Script[p]), diag_cntl_recv(p)
    PROVE  Followed(p)'
<1>1. PICK g, k, n : /\ Tracks(p, g) /\ k = g[0]
                     /\ Position(p, k, n) /\ TableIs(p, Handled(p, k, n))
  BY DEF Followed
<1>2. /\ inbox[p] \in Seq(Arrival) /\ sent[p] \in Nat /\ parsing[p] \in Seq(ControlCommand)
      /\ DOMAIN parsing = Perif
  BY DEF TypeInv, OutsideOK, TransportOK
<1>3. /\ parsing[p] # <<>> /\ Handle(p, Head(parsing[p]))
      /\ parsing' = [parsing EXCEPT ![p] = Rest(@)] /\ UNCHANGED <<inbox, sent>>
  BY DEF diag_cntl_recv, outside
<1>4. PICK l \in Nat \ {0} : l = Len(parsing[p])
  BY <1>2, <1>3, LenProperties, EmptySeq
<1>5. PICK c \in ControlCommand : c = Head(parsing[p]) /\ c = parsing[p][1] /\ Handle(p, c)
  BY <1>2, <1>3, HeadTailProperties
<1>6. k \in Nat \ {0} /\ n \in Nat
  <2>1. Len(inbox[p]) \in Nat
    BY <1>2, LenProperties
  <2>2. k \in 0..sent[p]
    BY <1>1, <2>1 DEF Tracks
  <2> QED BY <1>1, <1>2, <1>3, <2>2 DEF Position
<1>7. /\ n + l = Len(Script[p][k])
      /\ \A i \in 1..l : parsing[p][i] = Script[p][k][n + i]
      /\ \A i \in 1..n : Script[p][k][i].op # "truncated"
  BY <1>1, <1>3, <1>4, <1>6 DEF Position
<1>8. Script[p][k][n + 1] = c /\ n + 1 \in 1..Len(Script[p][k])
  <2>1. 1 \in 1..l
    OBVIOUS
  <2> QED BY <1>5, <1>6, <1>7, <2>1
<1> DEFINE z == <<k, n + 1>>
<1>9. TableIs(p, Handled(p, k, n + 1))'
  <2>1. /\ Handled(p, k, n + 1) = Handled(p, k, n) \cup {z}
        /\ z \notin Handled(p, k, n) /\ ~Later(z, z)
        /\ \A x \in Handled(p, k, n) : Later(z, x) /\ ~Later(x, z)
    BY <1>6, <1>7, <1>8, HandledMore
  <2>2. At(p, z) = c
    BY <1>8 DEF At
  <2> HIDE DEF z
  <2>3. TableIs(p, Handled(p, k, n) \cup {z})'
    <3>1. At(p, z) \in ControlCommand /\ Handle(p, At(p, z))
      BY <1>5, <2>2
    <3> QED BY <1>1, <2>1, <3>1, TableHandled
  <2> QED BY <2>1, <2>3
<1>10. Tracks(p, g)'
  BY <1>1, <1>3 DEF Tracks
<1>11. parsing'[p] = Rest(parsing[p])
  BY <1>2, <1>3
<1>12. CASE c.op = "truncated"
  <2>1. parsing'[p] = <<>>
    BY <1>5, <1>11, <1>12 DEF Rest
  <2>2. Position(p, k, n + l)'
    BY <1>6, <1>7, <2>1 DEF Position
  <2>3. Handled(p, k, n + 1) = Handled(p, k, n + l)
    <3>1. n + 1 \in Nat \ {0} /\ n + l \in Nat /\ n + 1 <= n + l
      BY <1>6
    <3> QED BY <1>6, <1>7, <1>8, <1>12, <3>1, HandledCut
  <2> QED BY <1>1, <1>9, <1>10, <2>2, <2>3 DEF Followed
<1>13. CASE c.op # "truncated"
  <2>1. /\ Len(parsing'[p]) = l - 1
        /\ \A i \in 1..(l - 1) : parsing'[p][i] = parsing[p][i + 1]
    <3>1. parsing'[p] = Tail(parsing[p])
      BY <1>5, <1>11, <1>13 DEF Rest
    <3> QED BY <1>2, <1>3, <1>4, <3>1, HeadTailProperties
  <2>2. \A i \in 1..(l - 1) : parsing'[p][i] = Script[p][k][(n + 1) + i]
    <3> SUFFICES ASSUME NEW i \in 1..(l - 1)
                 PROVE  parsing'[p][i] = Script[p][k][(n + 1) + i]
      OBVIOUS
    <3>1. i + 1 \in 1..l /\ n + (i + 1) = (n + 1) + i
      BY <1>6
    <3> QED BY <1>7, <2>1, <3>1
  <2>3. \A i \in 1..(n + 1) : Script[p][k][i].op # "truncated"
    <3>1. \A i \in 1..(n + 1) : i \in 1..n \/ i = n + 1
      BY <1>6
    <3> QED BY <1>7, <1>8, <1>13, <3>1
  <2>4. /\ (n + 1) + Len(parsing'[p]) = Len(Script[p][k])
        /\ n + 1 \in Nat /\ k # 0 /\ 1..Len(parsing'[p]) = 1..(l - 1)
    <3>1. n + 1 \in Nat /\ k # 0 /\ (n + 1) + (l - 1) = n + l
      BY <1>6
    <3> QED BY <1>7, <2>1, <3>1, Zenon
  <2>5. Position(p, k, n + 1)'
    <3>1. \A i \in 1..Len(parsing'[p]) : parsing'[p][i] = Script[p][k][(n + 1) + i]
      BY <2>2, <2>4
    <3> QED BY <2>3, <2>4, <3>1 DEF Position
  <2> QED BY <1>1, <1>9, <1>10, <2>5 DEF Followed
<1> QED BY <1>12, <1>13

FreshFollowed ==
    \A p \in Perif : inbox[p] = <<>> /\ sent[p] = 0 /\ Idle(p) => Followed(p)

LEMMA FreshIsFollowed == FreshFollowed
BY FollowedFresh DEF FreshFollowed

LEMMA FreshIsFollowedNext == FreshFollowed'
BY FreshIsFollowed, PTL

LEMMA InitRegistry == Init => RegistryInv
<1> SUFFICES ASSUME Init PROVE RegistryInv
  OBVIOUS
<1>1. /\ up = {} /\ dead = {} /\ DOMAIN diag_cmds = {}
      /\ \A p \in Perif : /\ sent[p] = 0 /\ inbox[p] = <<>> /\ parsing[p] = <<>>
                          /\ cntlq[p] = <<>> /\ cmdq[p] = <<>> /\ dataq[p] = <<>>
      /\ \A p \in Rpmsg : fds[p] = {}
  BY Given DEF Init, CntlInit
<1>2. \A p \in Perif : Followed(p)
  BY <1>1, FreshIsFollowed DEF FreshFollowed, Idle
<1>3. \A p \in Perif : Len(Script[p]) \in Nat
  BY Given, LenProperties
<1> QED BY <1>1, <1>2, <1>3, Given DEF RegistryInv, ScriptInv

LEMMA RegistryUntouched ==
    ASSUME RegistryInv, UNCHANGED <<up, boots, dead, fds, inbox, sent, parsing, diag_cmds>>
    PROVE  RegistryInv'
<1>1. ScriptInv'
  BY DEF RegistryInv, ScriptInv
<1>2. \A p \in Perif : Followed(p) => Followed(p)'
  BY FollowedKept DEF Times
<1>3. \A p \in Perif : Current(p)' => Current(p)
  BY DEF Current
<1> QED BY <1>1, <1>2, <1>3 DEF RegistryInv

LEMMA RecvRegistry ==
    ASSUME TypeInv, SessionInv, RegistryInv, NEW p \in Perif,
           qrtr_cntl_recv(p) \/ rpmsg_perif_cntl_recv(p)
    PROVE  RegistryInv'
<1>1. /\ UNCHANGED <<up, boots, dead, fds, sent, diag_cmds>>
      /\ inbox' = [inbox EXCEPT ![p] = Tail(@)]
      /\ <<p, "cntl">> \in rfds /\ ~Busy
  BY DEF qrtr_cntl_recv, rpmsg_perif_cntl_recv, Callback, cntlVars
<1>2. p \notin dead /\ fds[p] # {}
  BY <1>1, CallbackOpen, Given
     DEF qrtr_cntl_recv, rpmsg_perif_cntl_recv, TypeInv, OutsideOK
<1>3. /\ inbox \in [Perif -> Seq(Arrival)] /\ DOMAIN parsing = Perif /\ parsing[p] = <<>>
      /\ dead \subseteq Rpmsg /\ inbox[p] # <<>>
  BY <1>1, <1>2 DEF TypeInv, TransportOK, OutsideOK, ReadyStays, Busy
<1>4. /\ parsing'[p] = IF Head(inbox[p]) \notin {Bye, Ignored, Failed}
                       THEN Head(inbox[p]) ELSE <<>>
      /\ \A x \in Perif \ {p} : parsing'[x] = parsing[x]
  <2>1. CASE qrtr_cntl_recv(p)
    BY <1>3, <2>1 DEF qrtr_cntl_recv
  <2>2. CASE rpmsg_perif_cntl_recv(p)
    <3>1. p \in Rpmsg /\ parsing' = [parsing EXCEPT ![p] = Head(inbox[p])]
      BY <2>2 DEF rpmsg_perif_cntl_recv
    <3>2. Head(inbox[p]) \in Seq(ControlCommand)
      BY <1>1, <1>2, <3>1, Arrived
    <3> QED BY <1>3, <3>1, <3>2, NoticesApart
  <2> QED BY <2>1, <2>2
<1>5. \A x \in Perif \ {p} : inbox'[x] = inbox[x]
  BY <1>1, <1>3
<1>6. ScriptInv'
  BY <1>1, <1>2, <1>3, <1>5, Given DEF RegistryInv, ScriptInv
<1>7. \A x \in Perif : Current(x)' => Current(x)
  BY <1>1 DEF Current
<1>8. Followed(p) => Followed(p)'
  BY <1>1, <1>3, <1>4, FollowedRecv DEF RegistryInv, ScriptInv
<1>9. \A x \in Perif \ {p} : Followed(x) => Followed(x)'
  BY <1>1, <1>4, <1>5, FollowedKept DEF Times
<1> QED BY <1>6, <1>7, <1>8, <1>9 DEF RegistryInv

LEMMA ParseRegistry ==
    ASSUME TypeInv, RegistryInv, NEW p \in Perif, diag_cntl_recv(p)
    PROVE  RegistryInv'
<1>1. /\ UNCHANGED <<up, boots, dead, fds, inbox, sent>>
      /\ parsing' = [parsing EXCEPT ![p] = Rest(@)] /\ Handle(p, Head(parsing[p]))
  BY DEF diag_cntl_recv, outside
<1>2. Head(parsing[p]) \in ControlCommand
  BY Parsed DEF diag_cntl_recv
<1>3. ScriptInv'
  BY <1>1 DEF RegistryInv, ScriptInv
<1>4. \A x \in Perif : Current(x)' => Current(x)
  BY <1>1 DEF Current
<1>5. Followed(p) => Followed(p)'
  BY FollowedParse DEF RegistryInv, ScriptInv
<1>6. ASSUME NEW x \in Perif \ {p}, Followed(x) PROVE Followed(x)'
  <2>1. \A e \in Entry : e.peripheral = x => Times(e)' = Times(e)
    BY <1>1, <1>2, HandleTimes
  <2>2. parsing'[x] = parsing[x]
    BY <1>1 DEF TypeInv, TransportOK
  <2> QED BY <1>1, <1>6, <2>1, <2>2, FollowedKept
<1> QED BY <1>3, <1>4, <1>5, <1>6 DEF RegistryInv

LEMMA OpenRegistry ==
    ASSUME TypeInv, SessionInv, RegistryInv, NEW p \in Perif, peripheral_open(p)
    PROVE  RegistryInv'
<1>1. UNCHANGED <<up, boots, dead, inbox, sent, parsing, diag_cmds>>
  BY DEF peripheral_open
<1>2. p \in timer /\ fds[p] = {} /\ fds \in [Perif -> SUBSET AllChannels]
  BY DEF peripheral_open, SessionInv, TypeInv, TransportOK
<1>3. /\ \A x \in Perif \ {p} : fds'[x] = fds[x]
      /\ p \notin up => fds'[p] = fds[p]
  BY <1>2 DEF peripheral_open, Openable
<1>4. ScriptInv'
  BY <1>1, <1>2, <1>3, Given DEF RegistryInv, ScriptInv
<1>5. \A x \in Perif : Followed(x) => Followed(x)'
  BY <1>1, FollowedKept DEF Times
<1>6. \A x \in Perif : Current(x)' => Current(x)
  BY <1>1 DEF Current
<1> QED BY <1>4, <1>5, <1>6 DEF RegistryInv

LEMMA ErrorRegistry ==
    ASSUME TypeInv, SessionInv, RegistryInv, NEW p \in Perif, NEW c \in AllChannels,
           ChannelError(p, c)
    PROVE  RegistryInv'
<1>1. /\ UNCHANGED <<up, boots, inbox, sent, parsing>> /\ p \in dead
      /\ dead' = dead \ {p} /\ fds' = [fds EXCEPT ![p] = {}]
      /\ diag_cmds' = [e \in {d \in DOMAIN diag_cmds : d.peripheral # p} |-> diag_cmds[e]]
  BY DEF ChannelError, perif_rpmsg_close, diag_cntl_close
<1>2. /\ fds'[p] = {} /\ \A x \in Perif \ {p} : fds'[x] = fds[x]
      /\ dead \subseteq Rpmsg
  BY <1>1 DEF TypeInv, TransportOK, OutsideOK
<1>3. ScriptInv'
  BY <1>1, <1>2, Given DEF RegistryInv, ScriptInv
<1>4. SessionInv'
  BY ErrorSessions
<1>5. Idle(p)'
  BY <1>2, <1>4 DEF SessionInv
<1>6. p \in up => Followed(p)'
  <2>1. p \in up => inbox'[p] = <<>> /\ sent'[p] = 0
    BY <1>1 DEF RegistryInv, ScriptInv
  <2> QED BY <1>5, <2>1, FreshIsFollowedNext DEF FreshFollowed
<1>7. p \notin Qrtr
  BY <1>1, <1>2, Given
<1>8. \A x \in Perif \ {p} : Followed(x) => Followed(x)'
  <2>1. \A e \in Entry : e.peripheral # p => Times(e)' = Times(e)
    BY <1>1 DEF Times
  <2> QED BY <1>1, <2>1, FollowedKept
<1>9. /\ \A x \in Perif \ {p} : Current(x)' => Current(x)
      /\ Current(p)' => p \in up
  BY <1>1, <1>7 DEF Current
<1> QED BY <1>3, <1>6, <1>8, <1>9 DEF RegistryInv

LEMMA BootRegistry ==
    ASSUME TypeInv, SessionInv, RegistryInv, NEW p \in Perif, Boot(p)
    PROVE  RegistryInv'
<1>1. /\ UNCHANGED <<fds, inbox, parsing, diag_cmds, cntlq, cmdq, dataq, dead>>
      /\ p \notin up /\ up' = up \cup {p}
      /\ sent' = [sent EXCEPT ![p] = 0] /\ boots' = [boots EXCEPT ![p] = @ + 1]
  BY DEF Boot, cntlVars, transport
<1>2. /\ sent'[p] = 0 /\ boots'[p] = boots[p] + 1 /\ boots[p] \in Nat
      /\ \A x \in Perif \ {p} : sent'[x] = sent[x] /\ boots'[x] = boots[x]
      /\ Len(Script[p]) \in Nat
  BY <1>1, Given, LenProperties DEF TypeInv, OutsideOK
<1>3. dead \subseteq Rpmsg
  BY DEF TypeInv, OutsideOK
<1>4. ScriptInv'
  <2>1. \A x \in Perif : sent'[x] <= Len(Script[x])
    BY <1>2 DEF RegistryInv, ScriptInv
  <2>2. \A x \in Qrtr : boots'[x] = 0 => x # p
    BY <1>2
  <2>3. \A x \in Qrtr : boots'[x] = 0 => x \notin up' /\ sent'[x] = 0
    BY <1>1, <1>2, <2>2, Given DEF RegistryInv, ScriptInv
  <2>4. /\ \A x \in Rpmsg \ dead' : x \notin up' => fds'[x] = {}
        /\ \A x \in dead' : inbox'[x] = <<>> /\ (x \in up' => sent'[x] = 0)
        /\ \A x \in Rpmsg : fds'[x] = {} => inbox'[x] = <<>> /\ (x \in up' => sent'[x] = 0)
    BY <1>1, <1>2, <1>3, Given DEF RegistryInv, ScriptInv
  <2> QED BY <2>1, <2>3, <2>4 DEF ScriptInv
<1>5. ASSUME Current(p)' PROVE Followed(p)'
  <2>1. CASE p \in Qrtr
    <3>1. boots[p] = 0
      BY <1>2, <1>5, <2>1 DEF Current
    <3>2. Followed(p) /\ sent[p] = 0
      BY <2>1, <3>1 DEF RegistryInv, ScriptInv, Current
    <3> QED BY <1>1, <1>2, <3>2, FollowedKept DEF Times
  <2>2. CASE p \in Rpmsg
    <3>1. p \notin dead /\ fds[p] = {}
      BY <1>1, <1>5, <2>2, Given DEF Current, RegistryInv, ScriptInv
    <3>2. inbox[p] = <<>> /\ Idle(p)
      BY <2>2, <3>1 DEF RegistryInv, ScriptInv, SessionInv
    <3>3. inbox'[p] = <<>> /\ sent'[p] = 0 /\ Idle(p)'
      BY <1>1, <1>2, <3>2 DEF Idle
    <3> QED BY <3>3, FreshIsFollowedNext DEF FreshFollowed
  <2> QED BY <2>1, <2>2, Given
<1>6. ASSUME NEW x \in Perif \ {p}, Current(x)' PROVE Followed(x)'
  <2>1. Current(x)
    BY <1>1, <1>2, <1>6 DEF Current
  <2>2. Followed(x)
    BY <2>1 DEF RegistryInv
  <2> QED BY <1>1, <1>2, <2>2, FollowedKept DEF Times
<1> QED BY <1>4, <1>5, <1>6 DEF RegistryInv

LEMMA GoDownRegistry ==
    ASSUME TypeInv, RegistryInv, NEW p \in Perif, GoDown(p)
    PROVE  RegistryInv'
<1>1. /\ UNCHANGED <<fds, parsing, diag_cmds, boots, sent>> /\ p \in up /\ up' = up \ {p}
      /\ p \in Qrtr => dead' = dead
      /\ p \in Rpmsg => /\ inbox' = [inbox EXCEPT ![p] = <<>>]
                        /\ dead' = IF fds[p] # {} THEN dead \cup {p} ELSE dead
  BY Given DEF GoDown, cntlVars, transport
<1>2. /\ \A x \in Perif \ {p} : inbox'[x] = inbox[x] /\ (x \in dead' <=> x \in dead)
      /\ p \in Rpmsg => inbox'[p] = <<>>
      /\ dead \subseteq Rpmsg /\ dead' \subseteq dead \cup {p}
      /\ p \in Qrtr => p \notin dead'
  <2>1. inbox \in [Perif -> Seq(Arrival)] /\ dead \subseteq Rpmsg
    BY DEF TypeInv, OutsideOK
  <2>2. \A x \in Perif \ {p} : inbox'[x] = inbox[x]
    BY <2>1 DEF GoDown
  <2> QED BY <1>1, <2>1, <2>2, Given
<1>3. ScriptInv'
  BY <1>1, <1>2, Given DEF RegistryInv, ScriptInv
<1>4. ~Current(p)'
  BY <1>1, Given DEF Current, RegistryInv, ScriptInv
<1>5. ASSUME NEW x \in Perif \ {p}, Current(x)' PROVE Followed(x)'
  <2>1. Current(x)
    BY <1>1, <1>2, <1>5 DEF Current
  <2>2. Followed(x)
    BY <2>1 DEF RegistryInv
  <2> QED BY <1>1, <1>2, <2>2, FollowedKept DEF Times
<1> QED BY <1>3, <1>4, <1>5 DEF RegistryInv

\* A packet is sent, or a notice arrives on a QRTR socket.
LEMMA ArrivalRegistry ==
    ASSUME TypeInv, RegistryInv, NEW p \in Perif, SubsystemSend(p) \/ Notice(p)
    PROVE  RegistryInv'
<1>1. UNCHANGED <<fds, parsing, diag_cmds, boots, up, dead>>
  BY DEF SubsystemSend, Notice, cntlVars, transport
<1>2. /\ inbox \in [Perif -> Seq(Arrival)] /\ sent \in [Perif -> Nat]
      /\ dead \subseteq Rpmsg /\ Len(Script[p]) \in Nat
  BY Given, LenProperties DEF TypeInv, OutsideOK
<1>3. PICK a : /\ inbox' = [inbox EXCEPT ![p] = Append(@, a)]
               /\ \/ a \in {Ignored, Failed} /\ sent'[p] = sent[p]
                  \/ /\ a = Script[p][sent[p] + 1] /\ sent'[p] = sent[p] + 1
                     /\ sent[p] < Len(Script[p]) /\ p \in up
               /\ \A x \in Perif \ {p} : sent'[x] = sent[x]
  <2>1. CASE SubsystemSend(p)
    BY <1>2, <2>1 DEF SubsystemSend
  <2>2. CASE Notice(p)
    BY <2>2 DEF Notice
  <2> QED BY <2>1, <2>2
<1>4. \A x \in Perif \ {p} : inbox'[x] = inbox[x]
  BY <1>2, <1>3
<1>5. p \notin dead /\ (p \in Rpmsg => fds[p] # {})
  BY <1>2, Given DEF SubsystemSend, Notice
<1>6. ScriptInv'
  <2>1. \A x \in Perif : sent'[x] <= Len(Script[x])
    BY <1>2, <1>3 DEF RegistryInv, ScriptInv
  <2>2. \A x \in Qrtr : boots'[x] = 0 => x \notin up' /\ sent'[x] = 0
    BY <1>1, <1>3, Given DEF RegistryInv, ScriptInv
  <2>3. /\ \A x \in Rpmsg \ dead' : x \notin up' => fds'[x] = {}
        /\ \A x \in dead' : inbox'[x] = <<>> /\ (x \in up' => sent'[x] = 0)
        /\ \A x \in Rpmsg : fds'[x] = {} => inbox'[x] = <<>> /\ (x \in up' => sent'[x] = 0)
    BY <1>1, <1>2, <1>3, <1>4, <1>5, Given DEF RegistryInv, ScriptInv
  <2> QED BY <2>1, <2>2, <2>3 DEF ScriptInv
<1>7. \A x \in Perif : Current(x)' => Current(x)
  BY <1>1 DEF Current
<1>8. Followed(p) => Followed(p)'
  BY <1>1, <1>3, FollowedArrival
<1>9. \A x \in Perif \ {p} : Followed(x) => Followed(x)'
  BY <1>1, <1>3, <1>4, FollowedKept DEF Times
<1> QED BY <1>6, <1>7, <1>8, <1>9 DEF RegistryInv

LEMMA NextRegistry == TypeInv /\ SessionInv /\ RegistryInv /\ [Next]_vars => RegistryInv'
<1> SUFFICES ASSUME TypeInv, SessionInv, RegistryInv, [Next]_vars PROVE RegistryInv'
  OBVIOUS
<1>1. CASE UNCHANGED vars
  BY <1>1, RegistryUntouched DEF vars, cntlVars, transport, outside
<1>2. CASE Select \/ peripheral_udev_update
  BY <1>2, RegistryUntouched DEF Select, peripheral_udev_update, cntlVars, outside
<1>3. ASSUME NEW p \in Perif, CntlWrite(p) \/ RequestWrite(p) PROVE RegistryInv'
  BY <1>3, RegistryUntouched DEF CntlWrite, RequestWrite, transport, outside
<1>4. ASSUME NEW m \in DmCommand, diag_cmd_dispatch(m) PROVE RegistryInv'
  BY <1>4, RegistryUntouched DEF diag_cmd_dispatch, transport
<1>5. CASE RouterStep
  BY <1>2, <1>3, <1>5, RecvRegistry, ParseRegistry, OpenRegistry, ErrorRegistry
     DEF RouterStep
<1>6. CASE Environment
  BY <1>4, <1>6, BootRegistry, GoDownRegistry, ArrivalRegistry DEF Environment
<1> QED BY <1>1, <1>5, <1>6 DEF Next

\* The command table is exactly what the running subsystems have registered and not
\* deregistered, each entry as often, whatever their scripts and however often they are
\* restarted: what diag_cntl_register adds, diag_cntl_deregister and diag_cntl_close take
\* away.  For QRTR this holds until the first restart.
THEOREM RegistryIsExact == Spec => []RegistryExact
<1>1. TypeInv /\ RegistryInv => RegistryExact
  <2> SUFFICES ASSUME TypeInv, RegistryInv, NEW p \in Perif, Settled(p),
                      p \in Qrtr => boots[p] = 1
               PROVE  /\ \A e \in DOMAIN diag_cmds : e.peripheral = p =>
                            diag_cmds[e] = Registrations(p, e)
                      /\ \A x \in SentAt(p) : At(p, x).op = "register" =>
                            \A e \in Entries(p, At(p, x)) : Times(e) = Registrations(p, e)
    BY DEF RegistryExact
  <2>1. p \in up \ dead /\ inbox[p] = <<>> /\ parsing[p] = <<>>
    BY DEF Settled
  <2>2. Followed(p)
    BY <2>1 DEF RegistryInv, Current
  <2>3. PICK g, k, n : /\ Tracks(p, g) /\ k = g[0]
                       /\ Position(p, k, n) /\ TableIs(p, Handled(p, k, n))
    BY <2>2 DEF Followed
  <2>4. k = sent[p] /\ sent[p] \in Nat /\ sent[p] <= Len(Script[p])
    <3>1. Len(inbox[p]) = 0
      BY <2>1
    <3> QED BY <2>3, <3>1 DEF Tracks, TypeInv, OutsideOK, RegistryInv, ScriptInv
  <2>5. \A i \in 1..k : Script[p][i] \in Seq(ControlCommand) /\ Len(Script[p][i]) \in Nat
    <3>1. Script[p] \in Seq(Seq(ControlCommand)) /\ Len(Script[p]) \in Nat
      BY Given, LenProperties
    <3>2. \A i \in 1..k : i \in 1..Len(Script[p])
      BY <2>4, <3>1
    <3>3. \A i \in 1..k : Script[p][i] \in Seq(ControlCommand)
      BY <3>1, <3>2, ElementOfSeq
    <3> QED BY <3>3, LenProperties
  <2>6. n \in Nat /\ (k # 0 => n = Len(Script[p][k]))
    <3>1. Len(parsing[p]) = 0 /\ n \in Nat
      BY <2>1, <2>3 DEF Position
    <3>2. k # 0 => n + 0 = Len(Script[p][k])
      BY <2>3, <3>1 DEF Position
    <3> QED BY <3>1, <3>2
  <2>7. SentAt(p) = Handled(p, k, n)
    <3>1. \A i \in 1..k : \A j \in Readable(Script[p][i]) : i = k => j <= n
      BY <2>4, <2>6 DEF Readable
    <3>2. ASSUME NEW w PROVE w \in SentAt(p) <=> w \in Handled(p, k, n)
      <4>1. w \in SentAt(p) <=> \E i \in 1..k : \E j \in Readable(Script[p][i]) : w = <<i, j>>
        BY <2>4 DEF SentAt
      <4> QED BY <3>1, <4>1, HandledMember
    <3> QED BY <3>2
  <2>8. \A e \in Entry : e.peripheral = p => Times(e) = Registrations(p, e)
    BY <2>3, <2>7 DEF TableIs, Registrations
  <2>9. \A e \in DOMAIN diag_cmds : e.peripheral = p => diag_cmds[e] = Registrations(p, e)
    BY <2>8 DEF TypeInv, TableOK, Times
  <2>10. ASSUME NEW x \in SentAt(p), At(p, x).op = "register", NEW e \in Entries(p, At(p, x))
         PROVE  Times(e) = Registrations(p, e)
    <3>1. PICK i \in 1..k : \E j \in Readable(Script[p][i]) : x = <<i, j>>
      BY <2>7, HandledMember
    <3>2. PICK j \in Readable(Script[p][i]) : x = <<i, j>>
      BY <3>1
    <3>3. At(p, x) \in ControlCommand
      BY <2>5, <3>2, ElementOfSeq DEF At, Readable
    <3>4. e \in Entry /\ e.peripheral = p
      BY <2>10, <3>3, EntriesOK
    <3> QED BY <2>8, <3>4
  <2> QED BY <2>9, <2>10
<1> QED BY <1>1, TypeInvAlways, SessionInvAlways, InitRegistry, NextRegistry, PTL DEF Spec
=============================================================================
