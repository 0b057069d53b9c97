--------------------------- MODULE ConversionsMC ---------------------------
(* Four calculations that keep no state between calls: a packet and its      *)
(* frame (FlexCan), a firmware file and the list of its elements (HexImage), *)
(* a chunk and its checksum (Crc16), an item of the image and its partition  *)
(* (ImageCopy). A behaviour is about one of them, and the others stay as     *)
(* they are.                                                                 *)
EXTENDS FlexCan, HexImage, Crc16, ImageCopy

VARIABLE part

(* Packets: every nibble of the ids at zero, one and its maximum, fragment   *)
(* counts around the 8-bit limit, lengths on both sides of every check.      *)
SomeIds == {0, 15, 16, 81, 240, 255}
SomeLengths == {0, 1, 6, 7, 8, 9}

MCPackets ==
    { [packet_id |-> id, priority |-> pr, s_id |-> s, d_id |-> d,
       data |-> [b \in 1 .. len |-> 10 * b], packet_SN |-> sn, sum |-> k] :
        id \in {0, 255}, pr \in {0, 3, 7, 8}, s \in SomeIds, d \in SomeIds,
        len \in SomeLengths, sn \in {0, 254}, k \in {0, 1, 83, 255} }

(* Files: every sequence of up to three of twelve lines, and every sequence  *)
(* of up to five lines of data, in any order, with an end line or without.   *)
Rest(x) == (256 - (x % 256)) % 256

LineOf(type, address, bytes) ==
    LET line == [type |-> type, address |-> address, data |-> bytes, sum |-> 0]
    IN [line EXCEPT !.sum = Rest(Len(bytes) + address \div 256 + (address % 256) + type
                                 + Total(bytes))]

Damaged(line) == [line EXCEPT !.sum = (@ + 1) % 256]

Pieces == { LineOf(DATA, 0, <<1, 2>>), LineOf(DATA, 1, <<3, 4>>), LineOf(DATA, 2, <<5, 6>>),
            LineOf(DATA, 4, <<7, 8>>) }

SomeLines ==
    Pieces \cup
    { LineOf(DATA, 2, <<5, 6, 7, 8>>), LineOf(DATA, 65535, <<255>>),
      LineOf(SEGMENT, 0, <<0, 16>>), LineOf(LINEAR, 0, <<0, 1>>),
      LineOf(START_LINEAR, 0, <<0, 0, 0, 1>>),
      LineOf(START_SEGMENT, 0, <<0, 0, 0, 1>>),
      LineOf(6, 0, <<>>), LineOf(END, 0, <<>>), Damaged(LineOf(DATA, 0, <<1, 2>>)) }

MCFiles ==
    UNION { [1 .. k -> SomeLines] : k \in 0 .. 3 } \cup UNION { [1 .. k -> Pieces] : k \in 4 .. 5 }

(* Chunks: three bytes, each with no bit, the lowest, the highest or all.    *)
MCChunks == [1 .. 3 -> {{}, {0}, {7}, 0 .. 7}]

NoBytes == <<{}, {}, {}>>

(* Partitions: the blocks of write_image and of image_compare and the copies *)
(* of the parameters are in proportion as 2 : 8 : 4, so that a block to      *)
(* compare covers several to write and two copies, as it does in the code.   *)
(* Items end before, at and behind the ends of blocks, partitions have no    *)
(* room, room for the item alone, and room for the last block to compare.    *)
MCItems ==
    { [k \in 1 .. size |-> IF k \in ones THEN 1 ELSE 0] :
        size \in {0, 1, 2, 3, 7, 8, 9, 16, 17},
        ones \in {{}, {1}, {2}, {3}, {8}, {9}, {17}, 1 .. 17} }

MCDisks == { [k \in 1 .. size |-> b] : size \in {0, 2, 8, 13, 14, 15, 16, 17, 24}, b \in {0, 1} }

IdleFraming == pkt = CHOOSE p \in Packets : TRUE
IdleFile == file = <<>> /\ addr_bytes = SINGLE_BYTE
IdleChecksum == data = NoBytes /\ arrived = NoBytes
IdleCopy == item = <<>> /\ disk = <<>> /\ dest_is_parameter = FALSE

MCInit ==
    /\ \/ part = "framing" /\ IdleFile /\ IdleChecksum /\ IdleCopy
       \/ part = "file" /\ IdleFraming /\ IdleChecksum /\ IdleCopy
       \/ part = "checksum" /\ IdleFraming /\ IdleFile /\ IdleCopy
       \/ part = "copy" /\ IdleFraming /\ IdleFile /\ IdleChecksum
    /\ Init /\ HexInit /\ CrcInit /\ CopyInit

MCNext ==
    /\ UNCHANGED part
    /\ \/ part = "framing" /\ Next /\ UNCHANGED <<hexVars, crcVars, copyVars>>
       \/ part = "file" /\ HexNext /\ UNCHANGED <<vars, crcVars, copyVars>>
       \/ part = "checksum" /\ CrcNext /\ UNCHANGED <<vars, hexVars, copyVars>>
       \/ part = "copy" /\ CopyNext /\ UNCHANGED <<vars, hexVars, crcVars>>

MCSpec == MCInit /\ [][MCNext]_<<part, vars, hexVars, crcVars, copyVars>>

=============================================================================
