------------------------------- MODULE RmCan -------------------------------
(***************************************************************************)
(* The packet layer of robot_update/rmCAN.cpp.  sendToCan cuts a packet    *)
(* longer than one CAN frame into fragments that carry an 8-bit packet id, *)
(* their number and the number of the last one.  The receive thread runs   *)
(* recvFromCan on every frame: it collects fragments by source and packet  *)
(* id and appends each completed packet to RecvList, which readCANData     *)
(* empties.                                                                *)
(*                                                                         *)
(* The board at the other end of the link runs the same framing.  A frame  *)
(* record is what flexcan_recv returns (FlexCan); `of' is the serial       *)
(* number of the packet its data bytes come from, which no field of the    *)
(* real frame carries.                                                     *)
(***************************************************************************)
EXTENDS Integers, Sequences, FiniteSets

CONSTANTS
    Sources,        \* the module ids (s_id) that send to this node
    U8,             \* the values of a uint8_t: 256 in the code
    TimeOutId,      \* how far behind an abandoned packet is: 127 in the code
    MaxSum,         \* the largest number of a fragment
    TxQueue,        \* frames the CAN queues hold before a send gets ENOBUFS
    MaxPackets,     \* bounds: fragmented packets sent by each source
    MaxWhole,       \* bounds: one-frame packets sent by each source
    MaxFaults       \* bound: frames lost and sends that fail

(* num is a uint8_t in sendToCan (line 216), so sum is at most U8 - 2: a     *)
(* packet of U8 fragments would make num zero.                              *)
ASSUME RmCanAssumption ==
    /\ U8 \in Nat /\ TimeOutId \in Nat /\ MaxSum \in Nat
    /\ 0 < TimeOutId /\ TimeOutId < U8
    /\ MaxSum < U8 - 1
    /\ TxQueue \in Nat /\ MaxPackets \in [Sources -> Nat]
    /\ MaxWhole \in [Sources -> Nat] /\ MaxFaults \in Nat

Ids == 0 .. U8 - 1

Frame == [s_id : Sources, packet_id : Ids, packet_SN : 0 .. MaxSum,
          sum : 0 .. MaxSum, of : Nat]

VARIABLES
    g_PacketsId,        \* the id sendToCan gives the next fragmented packet
    sent,               \* the fragmented packets begun so far (serial numbers)
    wholes,             \* the one-frame packets sent so far
    out,                \* the frames sendToCan has yet to write
    bus,                \* frames written and not yet seen by recvFromCan
    InCompletePackets,  \* fragments by source and id; <<>> is "no entry"
    RecvList,           \* completed packets not yet read
    last,               \* the newest packet a fragment of which was received
    skipped,            \* did a packet vanish: no fragment of it was received
    faults

sender   == <<g_PacketsId, sent, wholes, out>>
receiver == <<InCompletePackets, RecvList, last, skipped>>
vars == <<sender, bus, receiver, faults>>

Init ==
    /\ g_PacketsId = [s \in Sources |-> 0]
    /\ sent = [s \in Sources |-> 0]
    /\ wholes = [s \in Sources |-> 0]
    /\ out = [s \in Sources |-> <<>>]
    /\ bus = [s \in Sources |-> <<>>]
    /\ InCompletePackets = [s \in Sources |-> [id \in Ids |-> <<>>]]
    /\ RecvList = <<>>
    /\ last = [s \in Sources |-> -1]
    /\ skipped = [s \in Sources |-> FALSE]
    /\ faults = 0

-----------------------------------------------------------------------------
(* Sending: sendToCan and _sendToCan. *)

Fragments(s, n, id, sum) ==
    [i \in 1 .. sum + 1 |->
        [s_id |-> s, packet_id |-> id, packet_SN |-> i - 1, sum |-> sum, of |-> n]]

\* Mutant: the id is not an 8-bit number.
SendFragmented_NoWrap(s, sum) ==
    /\ out[s] = <<>>
    /\ sent[s] < MaxPackets[s]
    /\ out' = [out EXCEPT ![s] = Fragments(s, sent[s], g_PacketsId[s], sum)]
    /\ g_PacketsId' = [g_PacketsId EXCEPT ![s] = @ + 1]
    /\ sent' = [sent EXCEPT ![s] = @ + 1]
    /\ UNCHANGED <<wholes, bus, receiver, faults>>

\* A packet of more than eight bytes takes the next id and is cut up.
SendFragmented(s, sum) ==
    /\ out[s] = <<>>
    /\ sent[s] < MaxPackets[s]
    /\ out' = [out EXCEPT ![s] = Fragments(s, sent[s], g_PacketsId[s], sum)]
    /\ g_PacketsId' = [g_PacketsId EXCEPT ![s] = (@ + 1) % U8]
    /\ sent' = [sent EXCEPT ![s] = @ + 1]
    /\ UNCHANGED <<wholes, bus, receiver, faults>>

\* A shorter one is one frame with id, number and sum zero.
SendWhole(s) ==
    /\ out[s] = <<>>
    /\ wholes[s] < MaxWhole[s]
    /\ out' = [out EXCEPT ![s] = Fragments(s, sent[s], 0, 0)]
    /\ wholes' = [wholes EXCEPT ![s] = @ + 1]
    /\ UNCHANGED <<g_PacketsId, sent, bus, receiver, faults>>

\* _sendToCan writes the next frame; while the queue is full it sleeps and
\* tries again.
WriteFrame(s) ==
    /\ out[s] # <<>>
    /\ Len(bus[s]) < TxQueue
    /\ bus' = [bus EXCEPT ![s] = Append(@, Head(out[s]))]
    /\ out' = [out EXCEPT ![s] = Tail(@)]
    /\ UNCHANGED <<g_PacketsId, sent, wholes, receiver, faults>>

\* Any other error ends sendToCan (send_err): the remaining fragments are
\* never sent, the id stays used.
WriteError(s) ==
    /\ out[s] # <<>>
    /\ faults < MaxFaults
    /\ out' = [out EXCEPT ![s] = <<>>]
    /\ faults' = faults + 1
    /\ UNCHANGED <<g_PacketsId, sent, wholes, bus, receiver>>

-----------------------------------------------------------------------------
(* Receiving: recvFromCan, one frame at a time. *)

\* getCanPacket sorts by packet_SN; std::sort leaves equal numbers in any order.
Sorted(v) ==
    LET n == Len(v) IN
    { [i \in 1 .. n |-> v[p[i]]] :
        p \in { p \in [1 .. n -> 1 .. n] :
                /\ \A i, j \in 1 .. n : p[i] = p[j] => i = j
                /\ \A i, j \in 1 .. n :
                      i < j => v[p[i]].packet_SN =< v[p[j]].packet_SN } }

\* The bookkeeping of `last' and `skipped' for an arriving fragment.
Note(s, f) ==
    /\ last' = [last EXCEPT ![s] = f.of]
    /\ skipped' = [skipped EXCEPT ![s] = @ \/ f.of > last[s] + 1]

\* Mutant: fragments are collected by packet id alone.
Collected_ById(s, f) ==
    LET Holds(t) == InCompletePackets[t][f.packet_id] # <<>>
        t == CHOOSE t \in Sources : Holds(t) \/ \A u \in Sources : ~ Holds(u)
    IN InCompletePackets[t][f.packet_id]

Collected(s, f) == InCompletePackets[s][f.packet_id]

\* Mutant: one fragment too many is waited for.
IsComplete_Strict(v, f) == f.sum + 1 < Len(v) % U8

\* v holds as many fragments as f.sum announces; the size is compared as a
\* uint8_t.
IsComplete(v, f) == f.sum + 1 =< Len(v) % U8

\* Mutant: completed packets are put in front of the list.
RecvWhole_Front(s) ==
    /\ bus[s] # <<>>
    /\ Head(bus[s]).sum = 0
    /\ bus' = [bus EXCEPT ![s] = Tail(@)]
    /\ RecvList' = <<[src |-> s, data |-> <<Head(bus[s])>>]>> \o RecvList
    /\ UNCHANGED <<sender, InCompletePackets, last, skipped, faults>>

\* Mutant: the packet TimeOutId ids ahead is not abandoned.
RecvFirst_KeepsOld(s) ==
    /\ bus[s] # <<>>
    /\ LET f == Head(bus[s]) IN
          /\ f.sum # 0
          /\ Collected(s, f) = <<>>
          /\ InCompletePackets' =
                [InCompletePackets EXCEPT ![s][f.packet_id] = <<f>>]
          /\ Note(s, f)
    /\ bus' = [bus EXCEPT ![s] = Tail(@)]
    /\ UNCHANGED <<sender, RecvList, faults>>

\* A complete packet goes straight to RecvList.
RecvWhole(s) ==
    /\ bus[s] # <<>>
    /\ Head(bus[s]).sum = 0
    /\ bus' = [bus EXCEPT ![s] = Tail(@)]
    /\ RecvList' = Append(RecvList, [src |-> s, data |-> <<Head(bus[s])>>])
    /\ UNCHANGED <<sender, InCompletePackets, last, skipped, faults>>

\* The first fragment with an unused id: the packet TimeOutId ids ahead, the
\* oldest one, is abandoned, and a new entry is made.
RecvFirst(s) ==
    /\ bus[s] # <<>>
    /\ LET f   == Head(bus[s])
           old == (f.packet_id + TimeOutId) % U8
       IN /\ f.sum # 0
          /\ Collected(s, f) = <<>>
          /\ InCompletePackets' =
                [InCompletePackets EXCEPT ![s] =
                    [[@ EXCEPT ![old] = <<>>] EXCEPT ![f.packet_id] = <<f>>]]
          /\ Note(s, f)
    /\ bus' = [bus EXCEPT ![s] = Tail(@)]
    /\ UNCHANGED <<sender, RecvList, faults>>

\* One more fragment for a known id, with others still to come.
RecvMore(s) ==
    /\ bus[s] # <<>>
    /\ LET f == Head(bus[s])
           v == Append(Collected(s, f), f)
       IN /\ f.sum # 0
          /\ Collected(s, f) # <<>>
          /\ ~ IsComplete(v, f)
          /\ InCompletePackets' = [InCompletePackets EXCEPT ![s][f.packet_id] = v]
          /\ Note(s, f)
    /\ bus' = [bus EXCEPT ![s] = Tail(@)]
    /\ UNCHANGED <<sender, RecvList, faults>>

\* The fragment that completes the packet: sort, append to RecvList, drop the
\* entry.
RecvLast(s) ==
    /\ bus[s] # <<>>
    /\ LET f == Head(bus[s])
           v == Append(Collected(s, f), f)
       IN /\ f.sum # 0
          /\ Collected(s, f) # <<>>
          /\ IsComplete(v, f)
          /\ \E w \in Sorted(v) :
                RecvList' = Append(RecvList, [src |-> s, data |-> w])
          /\ InCompletePackets' =
                [InCompletePackets EXCEPT ![s][f.packet_id] = <<>>]
          /\ Note(s, f)
    /\ bus' = [bus EXCEPT ![s] = Tail(@)]
    /\ UNCHANGED <<sender, faults>>

\* The frame never arrives, or flexcan_recv returns an error for it.
LoseFrame(s) ==
    /\ bus[s] # <<>>
    /\ faults < MaxFaults
    /\ bus' = [bus EXCEPT ![s] = Tail(@)]
    /\ faults' = faults + 1
    /\ UNCHANGED <<sender, receiver>>

\* popFromRecvList, called by readCANData.
Pop ==
    /\ RecvList # <<>>
    /\ RecvList' = Tail(RecvList)
    /\ UNCHANGED <<sender, bus, InCompletePackets, last, skipped, faults>>

Next ==
    \/ \E s \in Sources :
        \/ \E sum \in 1 .. MaxSum : SendFragmented(s, sum)
        \/ SendWhole(s)
        \/ WriteFrame(s)
        \/ WriteError(s)
        \/ RecvWhole(s)
        \/ RecvFirst(s)
        \/ RecvMore(s)
        \/ RecvLast(s)
        \/ LoseFrame(s)
    \/ Pop

Spec == Init /\ [][Next]_vars

\* The environment in which packet ids do their job: of every fragmented
\* packet at least one fragment gets through.
NoneSkipped == \A s \in Sources : ~ skipped[s]

-----------------------------------------------------------------------------
(* Properties. *)

Packet == [src : Sources, data : Seq(Frame)]

TypeOK ==
    /\ g_PacketsId \in [Sources -> Ids]
    /\ sent \in [Sources -> Nat]
    /\ wholes \in [Sources -> Nat]
    /\ out \in [Sources -> Seq(Frame)]
    /\ bus \in [Sources -> Seq(Frame)]
    /\ InCompletePackets \in [Sources -> [Ids -> Seq(Frame)]]
    /\ RecvList \in Seq(Packet)
    /\ last \in [Sources -> Int]
    /\ skipped \in [Sources -> BOOLEAN]
    /\ faults \in Nat

\* All fragments of one packet of that source, each once, in order.
IsWhole(p) ==
    LET f == p.data[1]
    IN p.data = Fragments(p.src, f.of, f.packet_id, f.sum)

(* No packet handed to readCANData mixes the bytes of two packets, repeats   *)
(* one or misses one, although ids are reused after 256 packets: dropping    *)
(* the entry 127 ids ahead (rmCAN.cpp:297-303) frees every id in time, as    *)
(* long as no packet vanished completely.                                    *)
NoMixing ==
    \A i \in 1 .. Len(RecvList) :
        ~ skipped[RecvList[i].src] => IsWhole(RecvList[i])

(* The same without the condition on the environment: flexcan.h:37 says of   *)
(* packet_id that it "uniquely identifies a entry".                          *)
IdIdentifiesEntry ==
    \A i \in 1 .. Len(RecvList) : IsWhole(RecvList[i])

(* The map of incomplete packets stays bounded: the fragments of packets     *)
(* that will never be completed hold at most U8 - TimeOutId ids per source   *)
(* (129 in the code), because every new id drops the oldest (lines 300-303). *)
BoundedResidue ==
    \A s \in Sources :
        ~ skipped[s] =>
            Cardinality({ id \in Ids : InCompletePackets[s][id] # <<>> })
                =< U8 - TimeOutId

(* A source's packets are read in the order it sent them, and none of the    *)
(* fragmented ones twice.                                                    *)
DeliveredInOrder ==
    \A i, j \in 1 .. Len(RecvList) :
        LET a == RecvList[i].data[1]
            b == RecvList[j].data[1]
        IN i < j /\ RecvList[i].src = RecvList[j].src /\ NoneSkipped
           => \/ a.of < b.of
              \/ a.of = b.of /\ a.sum = 0

=============================================================================
