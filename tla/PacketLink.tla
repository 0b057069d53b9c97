---------------------------- MODULE PacketLink ----------------------------
(***************************************************************************)
(* What the upgrade protocol wants of robot_update/rmCAN.cpp: from every   *)
(* source a lossy channel of whole packets.  A packet is delivered as it   *)
(* was sent or not at all, at most once, and never before a packet the     *)
(* same source sent earlier.                                               *)
(***************************************************************************)
EXTENDS Naturals, Sequences, SequencesExt

CONSTANTS
    Sources,        \* the nodes that send
    Data            \* what a packet can hold

VARIABLES
    inFlight,       \* inFlight[s]: sent by s, neither delivered nor lost
    RecvList        \* delivered and not read yet, oldest first

vars == <<inFlight, RecvList>>

Init ==
    /\ inFlight = [s \in Sources |-> <<>>]
    /\ RecvList = <<>>

Send(s) ==
    /\ UNCHANGED RecvList
    /\ LET before == inFlight
       IN inFlight' \in { [before EXCEPT ![s] = Append(@, d)] : d \in Data }

Lose(s) ==
    /\ UNCHANGED RecvList
    /\ LET before == inFlight
       IN inFlight' \in { [before EXCEPT ![s] = RemoveAt(@, i)] : i \in 1 .. Len(before[s]) }

Deliver(s) ==
    /\ inFlight[s] # <<>>
    /\ RecvList' = Append(RecvList, [src |-> s, data |-> Head(inFlight[s])])
    /\ inFlight' = [inFlight EXCEPT ![s] = Tail(@)]

Read ==
    /\ RecvList # <<>>
    /\ RecvList' = Tail(RecvList)
    /\ UNCHANGED inFlight

Next ==
    \/ \E s \in Sources : Send(s) \/ Lose(s) \/ Deliver(s)
    \/ Read

Spec == Init /\ [][Next]_vars

\* The oldest packet in flight is delivered unless it gets lost.
FairSpec == Spec /\ \A s \in Sources : WF_vars(Deliver(s))

=============================================================================
