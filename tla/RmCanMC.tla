------------------------------ MODULE RmCanMC ------------------------------
(* One or two sources; the first sends enough packets for its ids to wrap. *)
(* LinkSpec is the packet layer with its packets in flight remembered.     *)
EXTENDS RmCanLink

CONSTANTS s1, s2

\* Six packets of ids 0..3, and one that comes in between.
SixAndOne == [s \in Sources |-> IF s = s1 THEN 6 ELSE 1]
\* One-frame packets: the second source sends one.
LastOnly == [s \in Sources |-> IF s = s1 THEN 0 ELSE 1]
\* One source: the first stale entry is met by the fifth packet.
Five == [s \in Sources |-> 5]
One == [s \in Sources |-> 1]

=============================================================================
