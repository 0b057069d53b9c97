------------------------------- MODULE Crc16 -------------------------------
(***************************************************************************)
(* robot_update/crc16.cpp: the checksum of a chunk of firmware, bit by bit. *)
(*                                                                         *)
(* A number is the set of its bits that are one, so that ^ is the symmetric *)
(* difference. The checksum is computed twice, side by side: over the       *)
(* chunk, by sendFirmwareData, and over what has arrived of it, by a board; *)
(* that the boards use the same algorithm is all that is assumed of them.   *)
(***************************************************************************)
EXTENDS Integers, Sequences

CONSTANT Chunks     \* the chunks, as sent and as they may arrive

BitsOfByte == SUBSET (0 .. 7)
BitsOfWord == SUBSET (0 .. 15)

ASSUME ChunksAssumption == Chunks \subseteq Seq(BitsOfByte)

Xor(a, b) == (a \ b) \cup (b \ a)

POLYNOMIAL == {0, 13, 15}       \* 0xA001

ShiftRight(c) == { k \in 0 .. 14 : k + 1 \in c }

\* Mutant: TMP is read after the shift.
NextCRC_ReadsLate(c) ==
    IF 0 \in ShiftRight(c) THEN Xor(ShiftRight(c), POLYNOMIAL) ELSE ShiftRight(c)

NextCRC(c) == IF 0 \in c THEN Xor(ShiftRight(c), POLYNOMIAL) ELSE ShiftRight(c)

-----------------------------------------------------------------------------
VARIABLES
    data, arrived,      \* the chunk, and what has arrived of it
    i, j,               \* the bytes taken, and the bits of the last one shifted out
    CRC, theirs         \* the two checksums so far

crcVars == <<data, arrived, i, j, CRC, theirs>>

CrcInit ==
    /\ data \in Chunks /\ arrived \in Chunks
    /\ Len(data) = Len(arrived)
    /\ i = 0 /\ j = 8
    /\ CRC = 0 .. 15 /\ theirs = 0 .. 15        \* 0xFFFF

TakeByte ==
    /\ j = 8 /\ i < Len(data)
    /\ i' = i + 1 /\ j' = 0
    /\ CRC' = Xor(CRC, data[i'])
    /\ theirs' = Xor(theirs, arrived[i'])
    /\ UNCHANGED <<data, arrived>>

ShiftBit ==
    /\ j < 8
    /\ j' = j + 1
    /\ CRC' = NextCRC(CRC)
    /\ theirs' = NextCRC(theirs)
    /\ UNCHANGED <<data, arrived, i>>

CrcNext == TakeByte \/ ShiftBit

CrcSpec == CrcInit /\ [][CrcNext]_crcVars

-----------------------------------------------------------------------------
Computed == i = Len(data) /\ j = 8

\* They differ in the byte at k, and if in another, then in the one after it.
GarbledAt(k) ==
    /\ k \in 1 .. Len(data) /\ data[k] # arrived[k]
    /\ \A p \in 1 .. Len(data) : p \notin {k, k + 1} => data[p] = arrived[p]

(* A chunk garbled within two neighbouring bytes, in whichever of their     *)
(* bits, never has the checksum of the one that was sent, however long it   *)
(* is (crc16.cpp:11-21): the answer to ROBOT_UPGRADE_CRC_CMD tells them     *)
(* apart, as RobotUpdate has it.                                            *)
BurstIsNoticed ==
    Computed /\ (\E k \in 1 .. Len(data) : GarbledAt(k)) => CRC # theirs

=============================================================================
