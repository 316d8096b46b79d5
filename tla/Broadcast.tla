------------------------------ MODULE Broadcast ------------------------------
(***************************************************************************)
(* What the router promises the DMs: every listening DM has a channel, a   *)
(* packet of a peripheral enters all of their channels in one step, an     *)
(* answer enters one, and packets leave a channel in the order they came,  *)
(* each once.  A peripheral with more than FLOW_WATERMARK packets on their *)
(* way may not add another one.                                            *)
(*                                                                         *)
(* A packet is represented by where it is from: the flow it is charged to, *)
(* or NoFlow.                                                              *)
(***************************************************************************)
EXTENDS Naturals, Sequences, FiniteSets

CONSTANTS Dm, Flow, NoFlow, FLOW_WATERMARK

VARIABLES chan,       \* packets on their way to each DM
          listening   \* DMs that receive broadcasts

\* Packets of s on their way to some DM.
OnTheWay(s) ==
    UNION {{<<d, i>> : i \in {j \in 1..Len(chan[d]) : chan[d][j] = s}} : d \in Dm}

Send(D, s) ==
    chan' = [d \in Dm |-> IF d \in D THEN Append(chan[d], s) ELSE chan[d]]

Broadcast(s) ==
    /\ s \in Flow => Cardinality(OnTheWay(s)) <= FLOW_WATERMARK
    /\ Send(listening, s)
    /\ UNCHANGED listening

Answer(d) ==
    /\ d \in listening
    /\ Send({d}, NoFlow)
    /\ UNCHANGED listening

Deliver(d) ==
    /\ chan[d] # <<>>
    /\ chan' = [chan EXCEPT ![d] = Tail(@)]
    /\ UNCHANGED listening

Join(d) ==
    /\ listening' = listening \cup {d}
    /\ UNCHANGED chan

Leave(d) ==
    /\ listening' = listening \ {d}
    /\ UNCHANGED chan

Init ==
    /\ chan = [d \in Dm |-> <<>>]
    /\ listening = {}

Next ==
    \/ \E s \in Flow \cup {NoFlow} : Broadcast(s)
    \/ \E d \in Dm : Answer(d) \/ Deliver(d) \/ Join(d) \/ Leave(d)

Spec == Init /\ [][Next]_<<chan, listening>>
=============================================================================
