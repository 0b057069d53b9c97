------------------------------ MODULE FlexCan ------------------------------
(***************************************************************************)
(* The CAN framing of robot_update/flexcan.cpp: flexcan_send packs a        *)
(* flexcan_packet into one extended CAN frame, flexcan_recv unpacks it.     *)
(*                                                                         *)
(* The 29-bit identifier carries the priority, the two module ids (each    *)
(* split into a system and a module nibble) and the fragment count; the    *)
(* first two data bytes of a fragment carry its packet id and number.      *)
(* Masks and shifts are written as division, remainder and multiplication. *)
(***************************************************************************)
EXTENDS Integers, Sequences

CONSTANT Packets    \* the packets a caller hands to flexcan_send

CAN_DATA_MAX_LEN == 8
CAN_SUB_PACKET_OFFSET == 2
CAN_SUB_PACKET_SIZE == CAN_DATA_MAX_LEN - CAN_SUB_PACKET_OFFSET

Nibble == 0 .. 15
Byte   == 0 .. 255

\* struct flexcan_packet; len is Len(data).
Packet == [packet_id : Byte, priority : Byte, s_id : Byte, d_id : Byte,
           data : Seq(Byte), packet_SN : Byte, sum : Byte]

ASSUME PacketsAssumption == Packets \subseteq Packet

-----------------------------------------------------------------------------
(* The identifier: CAN_DATA2ID_* on the way out, CAN_ID2DATA_* on the way in. *)

Sys(id)  == id \div 16          \* high nibble: the system
Smod(id) == id % 16             \* low nibble: the module in it

\* Mutant: the destination's system nibble is shifted by 13.
PackId_Shift13(priority, sSys, dSys, sum, sMod, dMod) ==
      priority * 67108864 + sSys * 4194304 + dSys * 131072
    + sum * 256 + sMod * 16 + dMod

\* The six bit fields, none of them wider than its place.
PackId(priority, sSys, dSys, sum, sMod, dMod) ==
      priority * 67108864       \* << 26
    + sSys     * 4194304        \* the nibble & 0xF0, << 18
    + dSys     * 262144         \* the nibble & 0xF0, << 14
    + sum      * 256            \* << 8
    + sMod     * 16             \* << 4
    + dMod

CanId(p) == PackId(p.priority % 8, Sys(p.s_id), Sys(p.d_id), p.sum,
                   Smod(p.s_id), Smod(p.d_id))

Priority(id) == (id \div 67108864) % 8
S_Module(id) == ((id \div 4194304) % 16) * 16 + ((id \div 16) % 16)
D_Module(id) == ((id \div 262144) % 16) * 16 + (id % 16)
Sum(id)      == (id \div 256) % 256

-----------------------------------------------------------------------------
(* flexcan_send refuses an empty packet, one longer than a frame, and a     *)
(* fragment that leaves no room for its two header bytes.                   *)
Sendable(p) ==
    /\ 0 < Len(p.data) /\ Len(p.data) =< CAN_DATA_MAX_LEN
    /\ p.sum # 0 => Len(p.data) =< CAN_SUB_PACKET_SIZE

Frame(p) ==
    [can_id |-> CanId(p),
     data   |-> IF p.sum = 0 THEN p.data
                             ELSE <<p.packet_id, p.packet_SN>> \o p.data]

\* Mutant: a fragment with one byte of data is refused, too.
Readable_OffByOne(f) == Sum(f.can_id) # 0 => Len(f.data) > CAN_SUB_PACKET_OFFSET + 1

\* flexcan_recv refuses a fragment with nothing after its header bytes.
Readable(f) == Sum(f.can_id) # 0 => Len(f.data) > CAN_SUB_PACKET_OFFSET

Unframe(f) ==
    LET sum == Sum(f.can_id)
        Whole == sum = 0
    IN [packet_id |-> IF Whole THEN 0 ELSE f.data[1],
        priority  |-> Priority(f.can_id),
        s_id      |-> S_Module(f.can_id),
        d_id      |-> D_Module(f.can_id),
        data      |-> IF Whole THEN f.data
                      ELSE SubSeq(f.data, CAN_SUB_PACKET_OFFSET + 1, Len(f.data)),
        packet_SN |-> IF Whole THEN 0 ELSE f.data[2],
        sum       |-> sum]

-----------------------------------------------------------------------------
VARIABLES
    pkt,        \* the packet handed to flexcan_send
    wire,       \* the frames written to the socket and not read yet
    got         \* the packets flexcan_recv has returned

vars == <<pkt, wire, got>>

Init ==
    /\ pkt \in Packets
    /\ wire = {}
    /\ got = {}

Send ==
    /\ wire = {} /\ got = {}
    /\ Sendable(pkt)
    /\ wire' = {Frame(pkt)}
    /\ UNCHANGED <<pkt, got>>

Recv ==
    \E f \in wire :
        /\ Readable(f)
        /\ wire' = wire \ {f}
        /\ got' = {Unframe(f)}
        /\ UNCHANGED pkt

Next == Send \/ Recv

Spec == Init /\ [][Next]_vars

-----------------------------------------------------------------------------
(* What a packet becomes on the way: only three priority bits travel, and   *)
(* a complete packet carries no id and no number.                           *)
OnTheWire(p) ==
    [packet_id |-> IF p.sum = 0 THEN 0 ELSE p.packet_id,
     priority  |-> p.priority % 8,
     s_id      |-> p.s_id,
     d_id      |-> p.d_id,
     data      |-> p.data,
     packet_SN |-> IF p.sum = 0 THEN 0 ELSE p.packet_SN,
     sum       |-> p.sum]

(* The peer reads what was sent: source, destination, fragment count,       *)
(* packet id, number and data survive flexcan_send followed by flexcan_recv *)
(* (flexcan.cpp:149-249), so no two of the identifier's bit fields overlap.  *)
RoundTrip == got \subseteq {OnTheWire(pkt)}

(* Whatever flexcan_send accepts, flexcan_recv accepts: the length checks   *)
(* of the two sides (lines 151, 177 and 235) agree.                         *)
SentIsReadable == \A f \in wire : Readable(f)

=============================================================================
