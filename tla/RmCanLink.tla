----------------------------- MODULE RmCanLink -----------------------------
(***************************************************************************)
(* The packet layer (RmCan) implements the channel of PacketLink.  The      *)
(* history variable inFlight adds nothing to what the packet layer does: it *)
(* only remembers the packets that can still be completed.                  *)
(***************************************************************************)
EXTENDS RmCan, SequencesExt

VARIABLE
    inFlight    \* the packets sent whose fragments are all collected, on the
                \* bus or still to be written, oldest first

linkVars == <<vars, inFlight>>

LinkInit == Init /\ inFlight = [s \in Sources |-> <<>>]

Remember(s) == inFlight' = [inFlight EXCEPT ![s] = Append(@, out'[s])]

Forget(s, i) == inFlight' = [inFlight EXCEPT ![s] = RemoveAt(@, i)]

\* The oldest packet in flight loses the frame at the head of the bus.
Broken(s) == inFlight[s] # <<>> /\ Contains(inFlight[s][1], Head(bus[s]))

\* The newest packet in flight is the one being written.
Unfinished(s) ==
    LET n == Len(inFlight[s])
    IN n > 0 /\ Contains(inFlight[s][n], Head(out[s]))

LinkSend(s) ==
    \/ \E sum \in 1 .. MaxSum : SendFragmented(s, sum) /\ Remember(s)
    \/ SendWhole(s) /\ Remember(s)

LinkWrite(s) == WriteFrame(s) /\ UNCHANGED inFlight

LinkRecv(s) ==
    \/ RecvFirst(s) /\ UNCHANGED inFlight
    \/ RecvMore(s) /\ UNCHANGED inFlight
    \/ RecvWhole(s) /\ Forget(s, 1)
    \/ RecvLast(s) /\ Forget(s, 1)

LinkLose(s) ==
    \/ /\ LoseFrame(s)
       /\ IF Broken(s) THEN Forget(s, 1) ELSE UNCHANGED inFlight
    \/ /\ WriteError(s)
       /\ IF Unfinished(s) THEN Forget(s, Len(inFlight[s])) ELSE UNCHANGED inFlight

LinkNext ==
    \/ \E s \in Sources : LinkSend(s) \/ LinkWrite(s) \/ LinkRecv(s) \/ LinkLose(s)
    \/ Pop /\ UNCHANGED inFlight

LinkSpec == LinkInit /\ [][LinkNext]_linkVars

\* The sending loop and the receive thread (select, recvFromCan) keep running.
FairLinkSpec ==
    /\ LinkSpec
    /\ \A s \in Sources : WF_linkVars(LinkWrite(s)) /\ WF_linkVars(LinkRecv(s))

\* The packets a source can send.
SentPackets ==
    UNION { { Fragments(s, n, n % U8, sum) : n \in 0 .. MaxPackets[s], sum \in 1 .. MaxSum }
            \cup { Fragments(s, n, 0, 0) : n \in 0 .. MaxPackets[s] } :
                s \in Sources }

Link == INSTANCE PacketLink WITH Data <- SentPackets

(* The packet layer is a lossy, in-order channel of whole packets, as long   *)
(* as no packet vanishes completely (with one fault none can).               *)
ImplementsLink == Link!Spec

(* And it delivers: every packet whose fragments all survive reaches         *)
(* RecvList (checked under FairLinkSpec).                                    *)
ImplementsFairLink == Link!FairSpec

=============================================================================
