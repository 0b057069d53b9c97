------------------------- MODULE ConversionsProofs -------------------------
(* Proofs about Crc16, for chunks of every length and every content, about   *)
(* ImageCopy, for blocks, items and partitions of every size, and about      *)
(* FlexCan, for every set of packets.                                        *)
EXTENDS Crc16, ImageCopy, FlexCan, TLAPS

-----------------------------------------------------------------------------
(* The checksum of a chunk.                                                  *)

CrcTypeOK ==
    /\ data \in Chunks /\ arrived \in Chunks
    /\ Len(data) = Len(arrived)
    /\ i \in 0 .. Len(data) /\ j \in 0 .. 8
    /\ CRC \in BitsOfWord /\ theirs \in BitsOfWord

\* Where the two checksums differ.
Difference == Xor(CRC, theirs)

\* With j bits shifted out, no difference that a byte made lies within these eight bits;
\* when all are out, these are the bits that the next byte can reach.
Window == 8 - j .. 15 - j

(* The two checksums are the same before the first garbled byte, differ      *)
(* outside the window while that byte is shifted out, and differ after it.   *)
DifferenceInv ==
    \A k \in 1 .. Len(data) : GarbledAt(k) =>
        /\ i < k => Difference = {}
        /\ i = k => Difference \ Window # {}
        /\ i > k => Difference # {}

CrcInv == CrcTypeOK /\ DifferenceInv

-----------------------------------------------------------------------------
LEMMA XorType ==
    ASSUME NEW a \in BitsOfWord, NEW b \in BitsOfWord
    PROVE  Xor(a, b) \in BitsOfWord
  BY DEF Xor, BitsOfWord

LEMMA XorTells ==
    ASSUME NEW a \in BitsOfByte, NEW b \in BitsOfByte, a # b
    PROVE  Xor(a, b) # {}
  BY DEF Xor

LEMMA ByteIsWord ==
    ASSUME NEW a \in BitsOfByte
    PROVE  a \in BitsOfWord
  BY DEF BitsOfByte, BitsOfWord

LEMMA NextType ==
    ASSUME NEW c \in BitsOfWord
    PROVE  NextCRC(c) \in BitsOfWord
<1>1. ShiftRight(c) \in BitsOfWord
  BY DEF ShiftRight, BitsOfWord
<1>2. POLYNOMIAL \in BitsOfWord
  BY DEF POLYNOMIAL, BitsOfWord
<1>3. QED
  BY <1>1, <1>2, XorType DEF NextCRC

(* A step of the shift register is linear: the difference of two checksums   *)
(* moves as a checksum does.                                                 *)
LEMMA NextIsLinear ==
    ASSUME NEW a \in BitsOfWord, NEW b \in BitsOfWord
    PROVE  Xor(NextCRC(a), NextCRC(b)) = NextCRC(Xor(a, b))
  BY DEF Xor, NextCRC, ShiftRight, BitsOfWord

(* A bit that is set sets the highest, or moves down by one.                 *)
LEMMA LowBit ==
    ASSUME NEW c \in BitsOfWord, 0 \in c
    PROVE  15 \in NextCRC(c)
  BY DEF Xor, NextCRC, ShiftRight, POLYNOMIAL

LEMMA OtherBit ==
    ASSUME NEW c \in BitsOfWord, 0 \notin c, NEW b \in c
    PROVE  b - 1 \in NextCRC(c) /\ b \in 1 .. 15
  BY DEF NextCRC, ShiftRight, BitsOfWord

-----------------------------------------------------------------------------
LEMMA TypeInit == CrcInit => CrcTypeOK
<1> SUFFICES ASSUME CrcInit PROVE CrcTypeOK
  OBVIOUS
<1>1. Len(data) \in Nat
  BY ChunksAssumption DEF CrcInit
<1>2. QED
  BY <1>1 DEF CrcInit, CrcTypeOK, BitsOfWord

LEMMA TypeNext == CrcTypeOK /\ [CrcNext]_crcVars => CrcTypeOK'
<1> SUFFICES ASSUME CrcTypeOK, [CrcNext]_crcVars PROVE CrcTypeOK'
  OBVIOUS
<1> USE DEF CrcTypeOK
<1>0. Len(data) \in Nat
  BY ChunksAssumption
<1>1. CASE TakeByte
  <2>1. i + 1 \in 1 .. Len(data)
    BY <1>0, <1>1 DEF TakeByte
  <2>2. data[i + 1] \in BitsOfWord /\ arrived[i + 1] \in BitsOfWord
    BY <2>1, ChunksAssumption, ByteIsWord
  <2>3. CRC' \in BitsOfWord /\ theirs' \in BitsOfWord
    BY <1>1, <2>2, XorType DEF TakeByte
  <2>4. QED
    BY <1>1, <2>1, <2>3 DEF TakeByte
<1>2. CASE ShiftBit
  <2>1. CRC' \in BitsOfWord /\ theirs' \in BitsOfWord
    BY <1>2, NextType DEF ShiftBit
  <2>2. QED
    BY <1>2, <2>1 DEF ShiftBit
<1>3. CASE UNCHANGED crcVars
  BY <1>3 DEF crcVars
<1>4. QED
  BY <1>1, <1>2, <1>3 DEF CrcNext

LEMMA DifferenceInit == CrcInit => DifferenceInv
<1> SUFFICES ASSUME CrcInit, NEW k \in 1 .. Len(data)
             PROVE  i < k /\ Difference = {}
  BY ChunksAssumption DEF CrcInit, DifferenceInv
<1>1. QED
  BY ChunksAssumption DEF CrcInit, Difference, Xor

(* The difference after a byte: the one before it, and that of the byte. *)
LEMMA TakeByteDiffers ==
    ASSUME CrcTypeOK, TakeByte
    PROVE  /\ i + 1 \in 1 .. Len(data)
           /\ data[i + 1] \in BitsOfByte /\ arrived[i + 1] \in BitsOfByte
           /\ Difference' = Xor(Difference, Xor(data[i + 1], arrived[i + 1]))
<1>0. Len(data) \in Nat
  BY ChunksAssumption DEF CrcTypeOK
<1>1. i + 1 \in 1 .. Len(data)
  BY <1>0 DEF CrcTypeOK, TakeByte
<1>2. data[i + 1] \in BitsOfByte /\ arrived[i + 1] \in BitsOfByte
  BY <1>1, ChunksAssumption DEF CrcTypeOK
<1>3. CRC' = Xor(CRC, data[i + 1]) /\ theirs' = Xor(theirs, arrived[i + 1])
  BY DEF TakeByte
<1>4. QED
  BY <1>1, <1>2, <1>3 DEF Difference, Xor

LEMMA TakeByteKeeps ==
    ASSUME CrcTypeOK, DifferenceInv, TakeByte
    PROVE  DifferenceInv'
<1> SUFFICES ASSUME NEW k \in 1 .. Len(data), GarbledAt(k)
             PROVE  /\ i' < k => Difference' = {}
                    /\ i' = k => (Difference \ Window)' # {}
                    /\ i' > k => Difference' # {}
  BY DEF DifferenceInv, TakeByte, GarbledAt
<1> DEFINE byte == Xor(data[i + 1], arrived[i + 1])
<1>0. i \in Nat /\ k \in Nat /\ i' = i + 1 /\ j = 8 /\ j' = 0
  BY ChunksAssumption DEF CrcTypeOK, TakeByte
<1>1. /\ i < k => Difference = {}
      /\ i = k => Difference \ Window # {}
      /\ i > k => Difference # {}
  BY DEF DifferenceInv
<1>2. /\ i + 1 \in 1 .. Len(data)
      /\ Difference' = Xor(Difference, byte)
      /\ byte \subseteq 0 .. 7
  BY TakeByteDiffers DEF Xor, BitsOfByte
<1>3. i + 1 \notin {k, k + 1} => byte = {}
  BY <1>2 DEF GarbledAt, Xor
<1>4. CASE i + 1 < k
  BY <1>0, <1>1, <1>2, <1>3, <1>4 DEF Xor
<1>5. CASE i + 1 = k
  <2>1. byte # {} /\ Difference = {}
    <3>1. data[i + 1] # arrived[i + 1]
      BY <1>5 DEF GarbledAt
    <3>2. byte # {}
      BY <3>1, TakeByteDiffers, XorTells
    <3>3. QED
      BY <1>0, <1>1, <1>5, <3>2
  <2>2. Difference' = byte
    BY <1>2, <2>1 DEF Xor
  <2>3. Window' \cap (0 .. 7) = {}
    BY <1>0 DEF Window
  <2>4. (Difference \ Window)' # {}
    BY <1>2, <2>1, <2>2, <2>3
  <2>5. QED
    BY <1>0, <1>5, <2>4
<1>6. CASE i = k
  <2>1. PICK b \in Difference : b \notin Window
    BY <1>1, <1>6
  <2>2. b \in 0 .. 15
    BY DEF CrcTypeOK, Difference, Xor, BitsOfWord
  <2>3. b \notin 0 .. 7
    BY <1>0, <2>1 DEF Window
  <2>4. b \in Difference'
    BY <1>2, <2>3 DEF Xor
  <2>5. QED
    BY <1>0, <1>6, <2>4
<1>7. CASE i > k
  BY <1>0, <1>1, <1>2, <1>3, <1>7 DEF Xor
<1>8. QED
  BY <1>0, <1>4, <1>5, <1>6, <1>7

LEMMA ShiftBitKeeps ==
    ASSUME CrcTypeOK, DifferenceInv, ShiftBit
    PROVE  DifferenceInv'
<1> SUFFICES ASSUME NEW k \in 1 .. Len(data), GarbledAt(k)
             PROVE  /\ i < k => Difference' = {}
                    /\ i = k => (Difference \ Window)' # {}
                    /\ i > k => Difference' # {}
  BY DEF DifferenceInv, ShiftBit, GarbledAt
<1>1. /\ i < k => Difference = {}
      /\ i = k => Difference \ Window # {}
      /\ i > k => Difference # {}
  BY DEF DifferenceInv
<1>2. Difference \in BitsOfWord
  BY XorType DEF CrcTypeOK, Difference
<1>3. Difference' = NextCRC(Difference)
  BY NextIsLinear DEF CrcTypeOK, Difference, ShiftBit
<1>4. Difference = {} => Difference' = {}
  BY <1>3 DEF NextCRC, ShiftRight
<1>5. Difference # {} => Difference' # {}
  BY <1>2, <1>3, LowBit, OtherBit
<1>6. ASSUME Difference \ Window # {} PROVE (Difference \ Window)' # {}
  <2>0. j \in 0 .. 7 /\ j' = j + 1
    BY DEF CrcTypeOK, ShiftBit
  <2>1. CASE 0 \in Difference
    <3>1. 15 \in Difference'
      BY <1>2, <1>3, <2>1, LowBit
    <3>2. 15 \notin Window'
      BY <2>0 DEF Window
    <3>3. QED
      BY <3>1, <3>2
  <2>2. CASE 0 \notin Difference
    <3>1. PICK b \in Difference : b \notin Window
      BY <1>6
    <3>2. b - 1 \in Difference' /\ b \in 1 .. 15
      BY <1>2, <1>3, <2>2, OtherBit
    <3>3. b - 1 \notin Window'
      BY <2>0, <3>1, <3>2 DEF Window
    <3>4. QED
      BY <3>2, <3>3
  <2>3. QED
    BY <2>1, <2>2
<1>7. QED
  BY <1>1, <1>4, <1>5, <1>6

LEMMA DifferenceNext == CrcInv /\ [CrcNext]_crcVars => DifferenceInv'
<1> SUFFICES ASSUME CrcTypeOK, DifferenceInv, [CrcNext]_crcVars PROVE DifferenceInv'
  BY DEF CrcInv
<1>1. CASE UNCHANGED crcVars
  BY <1>1 DEF crcVars, DifferenceInv, Difference, Window, GarbledAt
<1>2. QED
  BY <1>1, TakeByteKeeps, ShiftBitKeeps DEF CrcNext

LEMMA CrcInvImplies == CrcInv => BurstIsNoticed
<1> SUFFICES ASSUME CrcInv, Computed, NEW k \in 1 .. Len(data), GarbledAt(k)
             PROVE  CRC # theirs
  BY DEF BurstIsNoticed
<1>1. Difference # {}
  BY ChunksAssumption DEF CrcInv, CrcTypeOK, DifferenceInv, Computed
<1>2. QED
  BY <1>1 DEF Difference, Xor

-----------------------------------------------------------------------------
(* The invariant holds in every reachable state. *)
THEOREM ChecksumInvariant == CrcSpec => []CrcInv
<1>1. CrcInit => CrcInv
  BY TypeInit, DifferenceInit DEF CrcInv
<1>2. CrcInv /\ [CrcNext]_crcVars => CrcInv'
  BY TypeNext, DifferenceNext DEF CrcInv
<1>3. QED
  BY <1>1, <1>2, PTL DEF CrcSpec

(* A chunk garbled within two neighbouring bytes never has the checksum of   *)
(* the one that was sent, whatever its length and its bytes                  *)
(* (crc16.cpp:11-21).                                                        *)
THEOREM BurstsAreNoticed == CrcSpec => []BurstIsNoticed
  BY ChecksumInvariant, CrcInvImplies, PTL

-----------------------------------------------------------------------------
(* The copy of an item of a firmware image.                                  *)

CopyTypeOK ==
    /\ item \in Seq(Contents) /\ disk \in Seq(Contents)
    /\ dest_is_parameter \in BOOLEAN
    /\ call \in {"write_image", "image_compare", "equal", "differs", "unread", "failed"}
    /\ done \in Nat /\ done =< Len(item)
    /\ pos \in Nat /\ dest_remain \in Int
    /\ wrote \in BOOLEAN

Runs == call = "write_image" \/ call = "image_compare"

(* The position in the partition is that in the item, until both are at the  *)
(* end, and dest_remain is not what ends a loop, unless the parameters have  *)
(* more than one block.                                                      *)
PositionInv ==
    /\ Runs => pos = done \/ done = Len(item)
    /\ call = "image_compare" => \E block \in Nat : pos = COMPARE_STEP * block
    /\ call = "image_compare" => dest_remain = IF dest_is_parameter THEN STEP ELSE Len(item)
    /\ call = "write_image" /\ ~dest_is_parameter => dest_remain = Len(item) - done
    /\ call = "write_image" /\ dest_is_parameter =>
         /\ dest_remain = IF done = 0 THEN STEP ELSE 0
         /\ done = 0 \/ done >= STEP \/ done = Len(item)

OneBlock == dest_is_parameter /\ Len(item) =< STEP

(* What is done is in the partition.                                         *)
DoneInv ==
    /\ call = "image_compare" => Holds(0, done)
    /\ call = "equal" => Holds(0, Len(item))
    /\ call = "write_image" /\ ~dest_is_parameter => Holds(0, done)
    /\ call = "write_image" /\ OneBlock => \A c \in 0 .. 3 : Holds(COPY * c, done)

(* What was written stays, for nothing is written after it.                  *)
WroteInv ==
    wrote =>
        /\ call # "write_image"
        /\ ~dest_is_parameter => Holds(0, Len(item))
        /\ OneBlock => \A c \in 0 .. 3 : Holds(COPY * c, Len(item))
        /\ Fits => call # "differs" /\ call # "unread"

CopyInv == CopyTypeOK /\ PositionInv /\ DoneInv /\ WroteInv

-----------------------------------------------------------------------------
(* A block read ends within the item, and comes a whole step further or to   *)
(* its end.                                                                  *)
LEMMA UptoType ==
    ASSUME NEW step \in Nat \ {0}, CopyTypeOK, done < Len(item)
    PROVE  /\ Upto(step) \in Nat /\ done < Upto(step) /\ Upto(step) =< Len(item)
           /\ Upto(step) =< done + step
           /\ Upto(step) = done + step \/ Upto(step) = Len(item)
<1>1. Len(item) \in Nat
  BY DEF CopyTypeOK
<1>2. QED
  BY <1>1 DEF Upto, CopyTypeOK

(* The next block begins where one more ends.                                *)
LEMMA NextBlock ==
    ASSUME NEW step \in Nat, NEW block \in Nat
    PROVE  step * block + step = step * (block + 1)
  OBVIOUS

(* The number of a block within the item is no larger than its position.     *)
LEMMA BlockNumber ==
    ASSUME NEW step \in Nat \ {0}, NEW block \in Nat
    PROVE  block =< step * block
  OBVIOUS

LEMMA BufferType ==
    ASSUME CopyTypeOK
    PROVE  Buffer \in [1 .. STEP -> Contents]
<1>1. ASSUME NEW k \in 1 .. STEP, done + k =< Len(item)
      PROVE  item[done + k] \in Contents
  <2>1. Len(item) \in Nat /\ k \in Nat /\ done + k \in 1 .. Len(item)
    BY <1>1, CopyAssumption DEF CopyTypeOK
  <2>2. QED
    BY <2>1 DEF CopyTypeOK
<1>2. Zero \in Contents
  BY CopyAssumption
<1>3. QED
  BY <1>1, <1>2 DEF Buffer

LEMMA FourTargets ==
    ASSUME dest_is_parameter
    PROVE  Targets = {0, COPY, 2 * COPY, 3 * COPY}
<1>1. 0 .. 3 = {0, 1, 2, 3}
  OBVIOUS
<1>2. COPY * 0 = 0 /\ COPY * 1 = COPY /\ COPY * 2 = 2 * COPY /\ COPY * 3 = 3 * COPY
  BY CopyAssumption
<1>3. QED
  BY <1>1, <1>2 DEF Targets

LEMMA TargetsType ==
    ASSUME CopyTypeOK
    PROVE  \A t \in Targets : t \in Nat
<1>1. CASE dest_is_parameter
  BY <1>1, FourTargets, CopyAssumption
<1>2. CASE ~dest_is_parameter
  BY <1>2 DEF Targets, CopyTypeOK
<1>3. QED
  BY <1>1, <1>2

(* The copies do not overlap: a byte of one is a byte of no other.           *)
LEMMA OneHit ==
    ASSUME CopyTypeOK, NEW t \in Targets, NEW k \in 1 .. STEP
    PROVE  Hits(t + k) = {t}
<1>1. t \in Nat /\ k \in Nat /\ STEP \in Nat /\ COPY \in Nat /\ STEP =< COPY /\ k =< STEP /\ 1 =< k
  BY TargetsType, CopyAssumption
<1>2. t + k \in t + 1 .. t + STEP
  BY <1>1
<1>3. ASSUME NEW u \in Targets, t + k \in u + 1 .. u + STEP
      PROVE  u = t
  <2>1. u \in Nat /\ u + 1 =< t + k /\ t + k =< u + STEP
    BY <1>1, <1>3, TargetsType
  <2>2. CASE dest_is_parameter
    <3>1. t \in {0, COPY, 2 * COPY, 3 * COPY} /\ u \in {0, COPY, 2 * COPY, 3 * COPY}
      BY <2>2, FourTargets
    <3>2. QED
      BY <1>1, <2>1, <3>1
  <2>3. CASE ~dest_is_parameter
    BY <2>3 DEF Targets
  <2>4. QED
    BY <2>2, <2>3
<1>4. QED
  BY <1>2, <1>3 DEF Hits

-----------------------------------------------------------------------------
(* What a block does to the partition.                                       *)
LEMMA BlockWritten ==
    ASSUME CopyTypeOK, WriteBlock
    PROVE  /\ disk' \in Seq(Contents) /\ Len(disk') = Len(disk)
           /\ \A t \in Targets : \A k \in 1 .. STEP :
                 t + k =< Len(disk) => disk'[t + k] = Buffer[k]
           /\ \A k \in 1 .. Len(disk) : Hits(k) = {} => disk'[k] = disk[k]
<1> DEFINE After(k) ==
      IF Hits(k) = {} THEN disk[k] ELSE Buffer[k - (CHOOSE t \in Hits(k) : TRUE)]
<1>1. disk' = [k \in 1 .. Len(disk) |-> After(k)]
  BY DEF WriteBlock
<1>2. Len(disk) \in Nat /\ STEP \in Nat
  BY CopyAssumption DEF CopyTypeOK
<1>3. ASSUME NEW k \in 1 .. Len(disk)
      PROVE  After(k) \in Contents
  <2>1. CASE Hits(k) = {}
    BY <2>1, <1>3 DEF CopyTypeOK
  <2>2. CASE Hits(k) # {}
    <3>1. PICK t \in Hits(k) : t = CHOOSE u \in Hits(k) : TRUE
      BY <2>2
    <3>2. t \in Nat /\ k \in t + 1 .. t + STEP
      BY <3>1, TargetsType DEF Hits
    <3>3. k - t \in 1 .. STEP
      BY <3>2, <1>2
    <3>4. QED
      BY <2>2, <3>1, <3>3, BufferType
  <2>3. QED
    BY <2>1, <2>2
<1>4. disk' \in Seq(Contents) /\ Len(disk') = Len(disk)
  BY <1>1, <1>2, <1>3
<1>5. ASSUME NEW t \in Targets, NEW k \in 1 .. STEP, t + k =< Len(disk)
      PROVE  disk'[t + k] = Buffer[k]
  <2>1. Hits(t + k) = {t}
    BY OneHit
  <2>2. t \in Nat /\ k \in Nat /\ 1 =< k
    BY TargetsType, <1>2
  <2>3. t + k \in 1 .. Len(disk) /\ (t + k) - t = k
    BY <2>2, <1>5, <1>2
  <2>4. (CHOOSE u \in Hits(t + k) : TRUE) = t /\ Hits(t + k) # {}
    BY <2>1
  <2>5. After(t + k) = Buffer[k]
    BY <2>3, <2>4
  <2>6. QED
    BY <1>1, <2>3, <2>5
<1>6. ASSUME NEW k \in 1 .. Len(disk), Hits(k) = {}
      PROVE  disk'[k] = disk[k]
  BY <1>1, <1>6
<1>7. QED
  BY <1>4, <1>5, <1>6

-----------------------------------------------------------------------------
LEMMA CopyStarts ==
    CopyInit => CopyInv
<1> SUFFICES ASSUME CopyInit
             PROVE  CopyInv
  OBVIOUS
<1>1. item \in Seq(Contents) /\ disk \in Seq(Contents) /\ Len(item) \in Nat
  BY CopyAssumption DEF CopyInit
<1>2. CopyTypeOK
  <2>1. call \in {"write_image", "image_compare"}
    BY DEF CopyInit
  <2>2. wrote \in BOOLEAN
    BY Zenon DEF CopyInit
  <2>3. dest_remain \in Int /\ done \in Nat /\ pos \in Nat /\ done =< Len(item)
    BY <1>1, CopyAssumption DEF CopyInit
  <2>4. dest_is_parameter \in BOOLEAN
    BY Zenon DEF CopyInit
  <2>5. QED
    BY <1>1, <2>1, <2>2, <2>3, <2>4 DEF CopyTypeOK
<1>3. PositionInv
  <2>1. COMPARE_STEP * 0 = 0
    BY CopyAssumption
  <2>2. QED
    BY <1>1, <2>1 DEF CopyInit, PositionInv, Runs
<1>4. DoneInv
  BY <1>1 DEF CopyInit, DoneInv, Holds
<1>5. WroteInv
  BY Zenon DEF CopyInit, WroteInv
<1>6. QED
  BY <1>2, <1>3, <1>4, <1>5 DEF CopyInv

LEMMA WriteBlockKeeps ==
    ASSUME CopyInv, WriteBlock
    PROVE  CopyInv'
<1>1. CopyTypeOK /\ PositionInv /\ DoneInv /\ WroteInv
  BY DEF CopyInv
<1>2. /\ call = "write_image" /\ done < Len(item) /\ dest_remain > 0
      /\ UNCHANGED <<item, dest_is_parameter, wrote>>
  BY DEF WriteBlock, Remains
<1>3. Len(item) \in Nat /\ Len(disk) \in Nat /\ STEP \in Nat \ {0}
  BY <1>1, CopyAssumption DEF CopyTypeOK
<1>4. /\ disk' \in Seq(Contents) /\ Len(disk') = Len(disk)
      /\ \A t \in Targets : \A k \in 1 .. STEP :
            t + k =< Len(disk) => disk'[t + k] = Buffer[k]
      /\ \A k \in 1 .. Len(disk) : Hits(k) = {} => disk'[k] = disk[k]
  BY <1>1, BlockWritten
<1>5. ~wrote /\ ~wrote'
  BY <1>1, <1>2 DEF WroteInv
<1>6. WroteInv'
  BY <1>5 DEF WroteInv
<1>7. CASE \A t \in Targets : t + STEP =< Len(disk)
  <2>1. /\ done' = Upto(STEP) /\ pos' = pos + STEP /\ call' = call
        /\ dest_remain' = IF done' = Len(item) THEN 0 ELSE dest_remain - STEP
    BY <1>7 DEF WriteBlock
  <2>2. /\ done' \in Nat /\ done < done' /\ done' =< Len(item) /\ done' =< done + STEP
        /\ done' = done + STEP \/ done' = Len(item)
    BY <1>1, <1>2, <1>3, <2>1, UptoType
  <2>3. CopyTypeOK'
    <3>1. dest_remain' \in Int /\ pos' \in Nat
      BY <1>1, <1>3, <2>1 DEF CopyTypeOK
    <3>2. wrote' \in BOOLEAN /\ dest_is_parameter' \in BOOLEAN
      BY <1>1, <1>2, Zenon DEF CopyTypeOK
    <3>3. QED
      BY <1>1, <1>2, <1>4, <2>1, <2>2, <3>1, <3>2 DEF CopyTypeOK
  <2>4. pos = done
    BY <1>1, <1>2, <1>3 DEF PositionInv, Runs
  <2>5. PositionInv'
    <3>1. Runs' => pos' = done' \/ done' = Len(item)'
      BY <1>2, <2>1, <2>2, <2>4
    <3>2. CASE dest_is_parameter
      <4>1. done = 0 /\ dest_remain = STEP
        BY <1>1, <1>2, <3>2 DEF PositionInv
      <4>2. dest_remain' = 0 /\ done' # 0 /\ (done' >= STEP \/ done' = Len(item))
        BY <1>1, <1>3, <2>1, <2>2, <4>1 DEF CopyTypeOK
      <4>3. QED
        BY <1>2, <2>1, <3>1, <3>2, <4>2 DEF PositionInv
    <3>3. CASE ~dest_is_parameter
      <4>1. dest_remain = Len(item) - done
        BY <1>1, <1>2, <3>3 DEF PositionInv
      <4>2. dest_remain' = Len(item) - done'
        BY <1>1, <1>3, <2>1, <2>2, <4>1 DEF CopyTypeOK
      <4>3. QED
        BY <1>2, <2>1, <3>1, <3>3, <4>2 DEF PositionInv
    <3>4. QED
      BY <3>2, <3>3
  <2>6. ASSUME ~dest_is_parameter
        PROVE  Holds(0, done)'
    <3>1. Holds(0, done)
      BY <1>1, <1>2, <2>6 DEF DoneInv
    <3>2. Targets = {pos}
      BY <2>6 DEF Targets
    <3>3. ASSUME NEW k \in 1 .. done'
          PROVE  k =< Len(disk) /\ disk'[k] = item[k]
      <4>1. CASE k =< done
        <5>1. k \in 1 .. done /\ k \in 1 .. Len(disk) /\ disk[k] = item[k]
          BY <1>1, <1>3, <3>1, <3>3, <4>1, <2>2 DEF Holds, CopyTypeOK
        <5>2. Hits(k) = {}
          BY <3>2, <4>1, <2>4, <1>1, <5>1 DEF Hits, CopyTypeOK
        <5>3. QED
          BY <1>4, <5>1, <5>2
      <4>2. CASE k > done
        <5>1. k - done \in 1 .. STEP /\ done + (k - done) = k /\ k =< Len(item)
          BY <1>1, <1>3, <2>2, <3>3, <4>2 DEF CopyTypeOK
        <5>2. pos + STEP =< Len(disk) /\ pos \in Targets
          BY <1>7, <3>2
        <5>3. pos + (k - done) =< Len(disk) /\ pos + (k - done) = k
          BY <1>1, <1>3, <2>4, <5>1, <5>2 DEF CopyTypeOK
        <5>4. disk'[k] = Buffer[k - done]
          BY <1>4, <5>1, <5>2, <5>3
        <5>5. Buffer[k - done] = item[k]
          BY <5>1 DEF Buffer
        <5>6. QED
          BY <5>3, <5>4, <5>5
      <4>3. QED
        BY <1>1, <2>2, <4>1, <4>2 DEF CopyTypeOK
    <3>4. QED
      BY <1>2, <1>4, <2>2, <3>3 DEF Holds
  <2>7. ASSUME OneBlock, NEW c \in 0 .. 3
        PROVE  Holds(COPY * c, done)'
    <3>1. dest_is_parameter /\ Len(item) =< STEP /\ done = 0
      BY <1>1, <1>2, <2>7 DEF OneBlock, PositionInv
    <3>2. COPY * c \in Targets /\ COPY * c \in Nat
      BY <3>1, CopyAssumption DEF Targets
    <3>3. ASSUME NEW k \in 1 .. done'
          PROVE  COPY * c + k =< Len(disk) /\ disk'[COPY * c + k] = item[k]
      <4>1. k \in 1 .. STEP /\ k =< Len(item) /\ done + k = k
        BY <1>3, <2>2, <3>1, <3>3
      <4>2. COPY * c + STEP =< Len(disk)
        BY <1>7, <3>2
      <4>3. COPY * c + k =< Len(disk)
        BY <1>3, <3>2, <4>1, <4>2
      <4>4. disk'[COPY * c + k] = Buffer[k]
        BY <1>4, <3>2, <4>1, <4>3
      <4>5. Buffer[k] = item[k]
        BY <4>1 DEF Buffer
      <4>6. QED
        BY <4>3, <4>4, <4>5
    <3>4. QED
      BY <1>2, <1>4, <3>3 DEF Holds
  <2>8. DoneInv'
    BY <1>2, <2>1, <2>6, <2>7 DEF DoneInv, OneBlock
  <2>9. QED
    BY <1>6, <2>3, <2>5, <2>8 DEF CopyInv
<1>8. CASE ~(\A t \in Targets : t + STEP =< Len(disk))
  <2>1. call' = "failed" /\ UNCHANGED <<done, pos, dest_remain>>
    BY <1>8 DEF WriteBlock
  <2>2. wrote' \in BOOLEAN /\ dest_is_parameter' \in BOOLEAN
    BY <1>1, <1>2, Zenon DEF CopyTypeOK
  <2>3. CopyTypeOK'
    BY <1>1, <1>2, <1>4, <2>1, <2>2 DEF CopyTypeOK
  <2>4. PositionInv' /\ DoneInv'
    BY <2>1 DEF PositionInv, DoneInv, Runs
  <2>5. QED
    BY <1>6, <2>3, <2>4 DEF CopyInv
<1>9. QED
  BY <1>7, <1>8

LEMMA WriteEndsKeeps ==
    ASSUME CopyInv, WriteEnds
    PROVE  CopyInv'
<1>1. CopyTypeOK /\ PositionInv /\ DoneInv /\ WroteInv
  BY DEF CopyInv
<1>2. /\ call = "write_image" /\ ~(done < Len(item) /\ dest_remain > 0)
      /\ UNCHANGED <<item, disk, dest_is_parameter>>
      /\ wrote' = TRUE
  BY DEF WriteEnds, Remains
<1>3. /\ call' = "image_compare" /\ done' = 0 /\ pos' = 0
      /\ dest_remain' = IF dest_is_parameter THEN STEP ELSE Len(item)
  BY DEF WriteEnds, Call
<1>4. Len(item) \in Nat /\ Len(disk) \in Nat /\ STEP \in Nat \ {0}
  BY <1>1, CopyAssumption DEF CopyTypeOK
<1>5. CopyTypeOK'
  <2>1. dest_remain' \in Int
    BY <1>3, <1>4
  <2>2. wrote' \in BOOLEAN /\ dest_is_parameter' \in BOOLEAN
    BY <1>1, <1>2, Zenon DEF CopyTypeOK
  <2>3. QED
    BY <1>1, <1>2, <1>3, <1>4, <2>1, <2>2 DEF CopyTypeOK
<1>6. PositionInv'
  <2>1. COMPARE_STEP * 0 = 0
    BY CopyAssumption
  <2>2. QED
    BY <1>2, <1>3, <2>1 DEF PositionInv, Runs
<1>7. DoneInv'
  BY <1>2, <1>3 DEF DoneInv, Holds
<1>8. ASSUME ~dest_is_parameter
      PROVE  Holds(0, Len(item))
  <2>1. dest_remain = Len(item) - done /\ Holds(0, done)
    BY <1>1, <1>2, <1>8 DEF PositionInv, DoneInv
  <2>2. done = Len(item)
    BY <1>1, <1>2, <1>4, <2>1 DEF CopyTypeOK
  <2>3. QED
    BY <2>1, <2>2
<1>9. ASSUME OneBlock, NEW c \in 0 .. 3
      PROVE  Holds(COPY * c, Len(item))
  <2>1. dest_is_parameter /\ Len(item) =< STEP /\ Holds(COPY * c, done)
    BY <1>1, <1>2, <1>9 DEF OneBlock, DoneInv
  <2>2. /\ dest_remain = IF done = 0 THEN STEP ELSE 0
        /\ done = 0 \/ done >= STEP \/ done = Len(item)
    BY <1>1, <1>2, <2>1 DEF PositionInv
  <2>3. done = Len(item)
    BY <1>1, <1>2, <1>4, <2>1, <2>2 DEF CopyTypeOK
  <2>4. QED
    BY <2>1, <2>3
<1>10. WroteInv'
  BY <1>2, <1>3, <1>8, <1>9 DEF WroteInv, Holds, OneBlock
<1>11. QED
  BY <1>5, <1>6, <1>7, <1>10 DEF CopyInv

LEMMA CompareBlockKeeps ==
    ASSUME CopyInv, CompareBlock
    PROVE  CopyInv'
<1>1. CopyTypeOK /\ PositionInv /\ DoneInv /\ WroteInv
  BY DEF CopyInv
<1>2. /\ call = "image_compare" /\ done < Len(item)
      /\ UNCHANGED <<item, disk, dest_is_parameter, dest_remain, wrote>>
  BY DEF CompareBlock, Remains
<1>3. Len(item) \in Nat /\ Len(disk) \in Nat /\ COMPARE_STEP \in Nat \ {0}
  BY <1>1, CopyAssumption DEF CopyTypeOK
<1>4. pos = done /\ pos \in Nat
  BY <1>1, <1>2, <1>3 DEF PositionInv, Runs, CopyTypeOK
<1>5. PICK block \in Nat : pos = COMPARE_STEP * block
  BY <1>1, <1>2 DEF PositionInv
<1>6. wrote' \in BOOLEAN /\ dest_is_parameter' \in BOOLEAN
  BY <1>1, <1>2, Zenon DEF CopyTypeOK
<1>7. ASSUME wrote, Fits
      PROVE  pos + COMPARE_STEP =< Len(disk)
  <2>1. block \in 0 .. Len(item)
    BY <1>2, <1>3, <1>4, <1>5, BlockNumber
  <2>2. COMPARE_STEP * block < Len(item)
    BY <1>2, <1>4, <1>5
  <2>3. QED
    BY <1>7, <1>5, <2>1, <2>2 DEF Fits
<1>8. /\ Upto(COMPARE_STEP) \in Nat /\ done < Upto(COMPARE_STEP) /\ Upto(COMPARE_STEP) =< Len(item)
      /\ Upto(COMPARE_STEP) =< done + COMPARE_STEP
      /\ Upto(COMPARE_STEP) = done + COMPARE_STEP \/ Upto(COMPARE_STEP) = Len(item)
  BY <1>1, <1>2, <1>3, UptoType
<1>9. CASE pos + COMPARE_STEP > Len(disk)
  <2>1. call' = "unread" /\ UNCHANGED <<done, pos>>
    BY <1>9 DEF CompareBlock
  <2>2. ~(wrote /\ Fits)
    BY <1>3, <1>4, <1>7, <1>9
  <2>3. CopyTypeOK'
    BY <1>1, <1>2, <1>6, <2>1 DEF CopyTypeOK
  <2>4. WroteInv'
    BY <1>1, <1>2, <2>1, <2>2 DEF WroteInv, Fits, Holds, OneBlock
  <2>5. PositionInv' /\ DoneInv'
    BY <2>1 DEF PositionInv, DoneInv, Runs
  <2>6. QED
    BY <2>3, <2>4, <2>5 DEF CopyInv
<1>10. CASE /\ ~(pos + COMPARE_STEP > Len(disk))
            /\ \E k \in 1 .. Upto(COMPARE_STEP) - done : item[done + k] # disk[pos + k]
  <2>1. call' = "differs" /\ UNCHANGED <<done, pos>>
    BY <1>10 DEF CompareBlock
  <2>2. PICK k \in 1 .. Upto(COMPARE_STEP) - done : item[done + k] # disk[pos + k]
    BY <1>10
  <2>3. done + k \in 1 .. Len(item) /\ done + k \in Nat
    BY <1>1, <1>3, <1>8, <2>2 DEF CopyTypeOK
  <2>4. ~Holds(0, Len(item))
    BY <1>4, <2>2, <2>3 DEF Holds
  <2>5. ASSUME wrote, Fits
        PROVE  FALSE
    <3>1. dest_is_parameter
      BY <1>1, <2>4, <2>5 DEF WroteInv
    <3>2. Holds(COPY * 0, Len(item))
      BY <1>1, <2>5, <3>1 DEF WroteInv, Fits, OneBlock
    <3>3. COPY * 0 = 0
      BY CopyAssumption
    <3>4. QED
      BY <2>4, <3>2, <3>3
  <2>6. CopyTypeOK'
    BY <1>1, <1>2, <1>6, <2>1 DEF CopyTypeOK
  <2>7. WroteInv'
    BY <1>1, <1>2, <2>1, <2>5 DEF WroteInv, Fits, Holds, OneBlock
  <2>8. PositionInv' /\ DoneInv'
    BY <2>1 DEF PositionInv, DoneInv, Runs
  <2>9. QED
    BY <2>6, <2>7, <2>8 DEF CopyInv
<1>11. CASE /\ ~(pos + COMPARE_STEP > Len(disk))
            /\ \A k \in 1 .. Upto(COMPARE_STEP) - done : item[done + k] = disk[pos + k]
  <2>1. done' = Upto(COMPARE_STEP) /\ pos' = pos + COMPARE_STEP /\ call' = call
    BY <1>11 DEF CompareBlock
  <2>2. CopyTypeOK'
    BY <1>1, <1>2, <1>3, <1>4, <1>6, <1>8, <2>1 DEF CopyTypeOK
  <2>3. PositionInv'
    <3>1. pos' = COMPARE_STEP * (block + 1) /\ block + 1 \in Nat
      BY <1>3, <1>5, <2>1, NextBlock
    <3>2. pos' = done' \/ done' = Len(item)'
      BY <1>2, <1>4, <1>8, <2>1
    <3>3. dest_remain = IF dest_is_parameter THEN STEP ELSE Len(item)
      BY <1>1, <1>2 DEF PositionInv
    <3>4. QED
      BY <1>2, <2>1, <3>1, <3>2, <3>3 DEF PositionInv
  <2>4. ASSUME NEW k \in 1 .. done'
        PROVE  k =< Len(disk) /\ disk[k] = item[k]
    <3>1. CASE k =< done
      <4>1. Holds(0, done) /\ k \in 1 .. done
        BY <1>1, <1>2, <1>8, <2>1, <2>4, <3>1 DEF DoneInv, CopyTypeOK
      <4>2. QED
        BY <4>1, <1>3 DEF Holds
    <3>2. CASE k > done
      <4>1. k - done \in 1 .. Upto(COMPARE_STEP) - done /\ done + (k - done) = k
        BY <1>1, <1>8, <2>1, <2>4, <3>2 DEF CopyTypeOK
      <4>2. item[k] = disk[k]
        BY <1>4, <1>11, <4>1
      <4>3. k =< Len(disk)
        BY <1>3, <1>4, <1>8, <1>11, <2>1, <2>4
      <4>4. QED
        BY <4>2, <4>3
    <3>3. QED
      BY <1>1, <1>8, <2>1, <3>1, <3>2 DEF CopyTypeOK
  <2>5. Holds(0, done)'
    BY <1>2, <1>8, <2>1, <2>4 DEF Holds
  <2>6. DoneInv'
    BY <1>2, <2>1, <2>5 DEF DoneInv
  <2>7. WroteInv'
    BY <1>1, <1>2, <2>1 DEF WroteInv, Fits, Holds, OneBlock
  <2>8. QED
    BY <2>2, <2>3, <2>6, <2>7 DEF CopyInv
<1>12. QED
  BY <1>9, <1>10, <1>11

LEMMA CompareEndsKeeps ==
    ASSUME CopyInv, CompareEnds
    PROVE  CopyInv'
<1>1. CopyTypeOK /\ PositionInv /\ DoneInv /\ WroteInv
  BY DEF CopyInv
<1>2. /\ call = "image_compare" /\ ~(done < Len(item) /\ dest_remain > 0) /\ call' = "equal"
      /\ UNCHANGED <<item, disk, dest_is_parameter, done, pos, dest_remain, wrote>>
  BY DEF CompareEnds, Remains
<1>3. Len(item) \in Nat /\ STEP \in Nat \ {0}
  BY <1>1, CopyAssumption DEF CopyTypeOK
<1>4. done = Len(item)
  <2>1. dest_remain = IF dest_is_parameter THEN STEP ELSE Len(item)
    BY <1>1, <1>2 DEF PositionInv
  <2>2. QED
    BY <1>1, <1>2, <1>3, <2>1 DEF CopyTypeOK
<1>5. Holds(0, Len(item))
  BY <1>1, <1>2, <1>4 DEF DoneInv
<1>6. wrote' \in BOOLEAN /\ dest_is_parameter' \in BOOLEAN
  BY <1>1, <1>2, Zenon DEF CopyTypeOK
<1>7. CopyTypeOK'
  BY <1>1, <1>2, <1>6 DEF CopyTypeOK
<1>8. PositionInv' /\ DoneInv'
  BY <1>2, <1>5 DEF PositionInv, DoneInv, Runs, Holds
<1>9. WroteInv'
  BY <1>1, <1>2 DEF WroteInv, Fits, Holds, OneBlock
<1>10. QED
  BY <1>7, <1>8, <1>9 DEF CopyInv

LEMMA UpdateKeeps ==
    ASSUME CopyInv, Update
    PROVE  CopyInv'
<1>1. CopyTypeOK /\ PositionInv /\ DoneInv /\ WroteInv
  BY DEF CopyInv
<1>2. /\ dest_is_parameter /\ ~wrote /\ UNCHANGED <<item, disk, dest_is_parameter, wrote>>
      /\ call' = "write_image" /\ done' = 0 /\ pos' = 0
      /\ dest_remain' = IF dest_is_parameter THEN STEP ELSE Len(item)
  BY DEF Update, Call
<1>3. Len(item) \in Nat /\ STEP \in Nat
  BY <1>1, CopyAssumption DEF CopyTypeOK
<1>4. wrote' \in BOOLEAN /\ dest_is_parameter' \in BOOLEAN
  BY <1>1, <1>2, Zenon DEF CopyTypeOK
<1>5. CopyTypeOK'
  BY <1>1, <1>2, <1>3, <1>4 DEF CopyTypeOK
<1>6. PositionInv'
  BY <1>2 DEF PositionInv, Runs
<1>7. DoneInv'
  BY <1>2 DEF DoneInv, Holds
<1>8. WroteInv'
  BY <1>2 DEF WroteInv
<1>9. QED
  BY <1>5, <1>6, <1>7, <1>8 DEF CopyInv

LEMMA DeviceFailsKeeps ==
    ASSUME CopyInv, DeviceFails
    PROVE  CopyInv'
<1>1. CopyTypeOK /\ PositionInv /\ DoneInv /\ WroteInv
  BY DEF CopyInv
<1>2. /\ call' = "failed" \/ (call' = "unread" /\ ~wrote)
      /\ UNCHANGED <<item, disk, dest_is_parameter, done, pos, dest_remain, wrote>>
  BY DEF DeviceFails
<1>3. wrote' \in BOOLEAN /\ dest_is_parameter' \in BOOLEAN
  BY <1>1, <1>2, Zenon DEF CopyTypeOK
<1>4. CopyTypeOK'
  BY <1>1, <1>2, <1>3 DEF CopyTypeOK
<1>5. PositionInv' /\ DoneInv'
  BY <1>2 DEF PositionInv, DoneInv, Runs
<1>6. WroteInv'
  BY <1>1, <1>2 DEF WroteInv, Fits, Holds, OneBlock
<1>7. QED
  BY <1>4, <1>5, <1>6 DEF CopyInv

-----------------------------------------------------------------------------
LEMMA CopyInvKept ==
    CopyInv /\ [CopyNext]_copyVars => CopyInv'
<1> SUFFICES ASSUME CopyInv, [CopyNext]_copyVars
             PROVE  CopyInv'
  OBVIOUS
<1>1. CASE WriteBlock
  BY <1>1, WriteBlockKeeps
<1>2. CASE WriteEnds
  BY <1>2, WriteEndsKeeps
<1>3. CASE CompareBlock
  BY <1>3, CompareBlockKeeps
<1>4. CASE CompareEnds
  BY <1>4, CompareEndsKeeps
<1>5. CASE Update
  BY <1>5, UpdateKeeps
<1>6. CASE DeviceFails
  BY <1>6, DeviceFailsKeeps
<1>7. CASE UNCHANGED copyVars
  <2>1. CopyTypeOK' /\ PositionInv'
    BY <1>7 DEF CopyInv, copyVars, CopyTypeOK, PositionInv, Runs
  <2>2. DoneInv' /\ WroteInv'
    BY <1>7 DEF CopyInv, copyVars, DoneInv, WroteInv, Holds, OneBlock, Fits
  <2>3. QED
    BY <2>1, <2>2 DEF CopyInv
<1>8. QED
  BY <1>1, <1>2, <1>3, <1>4, <1>5, <1>6, <1>7 DEF CopyNext

(* Whatever the sizes of the blocks and of the item: what is written, read    *)
(* and compared lies where CopyInv says (rkimage.cpp:757-900, 1030-1213).     *)
THEOREM CopyInvariant == CopySpec => []CopyInv
  BY CopyStarts, CopyInvKept, PTL DEF CopySpec

(* image_compare never says equal of a partition that lacks a byte of the    *)
(* item (rkimage.cpp:1128-1212).                                             *)
THEOREM EqualMeansWhole == CopySpec => []EqualIsWhole
<1>1. CopyInv => EqualIsWhole
  BY DEF CopyInv, DoneInv, EqualIsWhole
<1>2. QED
  BY <1>1, CopyInvariant, PTL

(* What write_image has written, image_compare finds equal, and new          *)
(* parameters are there four times, if there is room                         *)
(* (rkimage.cpp:2109-2133, 872-895).                                         *)
THEOREM WrittenIsFoundEqual == CopySpec => []WrittenIsEqual
<1>1. CopyInv => WrittenIsEqual
  BY DEF CopyInv, WroteInv, WrittenIsEqual, Fits, OneBlock
<1>2. QED
  BY <1>1, CopyInvariant, PTL

-----------------------------------------------------------------------------
(* A packet and its frame.                                                   *)

USE DEF CAN_DATA_MAX_LEN, CAN_SUB_PACKET_OFFSET, CAN_SUB_PACKET_SIZE

PriorityBits == 0 .. 7

(* A byte is its two nibbles: what CAN_ID2DATA_*_MODULE puts back together. *)
LEMMA Nibbles ==
    ASSUME NEW b \in Byte
    PROVE  /\ Sys(b) \in Nibble /\ Smod(b) \in Nibble
           /\ b = Sys(b) * 16 + Smod(b)
  BY DEF Byte, Nibble, Sys, Smod

(* The bit fields of the identifier do not overlap: each is read back from *)
(* the packed number whatever the others hold.                             *)
LEMMA Fields ==
    ASSUME NEW pr \in PriorityBits, NEW ss \in Nibble, NEW ds \in Nibble,
           NEW k \in Byte, NEW sm \in Nibble, NEW dm \in Nibble
    PROVE  /\ Priority(PackId(pr, ss, ds, k, sm, dm)) = pr
           /\ Sum(PackId(pr, ss, ds, k, sm, dm)) = k
           /\ S_Module(PackId(pr, ss, ds, k, sm, dm)) = ss * 16 + sm
           /\ D_Module(PackId(pr, ss, ds, k, sm, dm)) = ds * 16 + dm
<1> DEFINE n == PackId(pr, ss, ds, k, sm, dm)
<1> USE DEF PackId, Nibble, Byte, PriorityBits
<1>1. n \in Nat
  BY SMT
<1>2. n \div 67108864 = pr
  <2> DEFINE r == ss * 4194304 + ds * 262144 + k * 256 + sm * 16 + dm
  <2>1. r \in Nat /\ r < 67108864
    BY SMT
  <2>2. n = 67108864 * pr + r
    BY SMT
  <2> HIDE DEF r
  <2>3. QED BY <2>1, <2>2, SMT
<1>3. (n \div 4194304) % 16 = ss
  <2>1. n \div 4194304 = pr * 16 + ss
    BY SMT
  <2>2. QED BY <2>1, SMT
<1>4. (n \div 262144) % 16 = ds
  <2>1. n \div 262144 = (pr * 16 + ss) * 16 + ds
    BY SMT
  <2>2. QED BY <2>1, SMT
<1>5. (n \div 256) % 256 = k
  <2>1. n \div 256 = ((pr * 16 + ss) * 16 + ds) * 1024 + k
    BY SMT
  <2>2. QED BY <2>1, SMT
<1>6. (n \div 16) % 16 = sm
  <2>1. n \div 16 = (((pr * 16 + ss) * 16 + ds) * 1024 + k) * 16 + sm
    BY SMT
  <2>2. QED BY <2>1, SMT
<1>7. n % 16 = dm
  BY SMT
<1>8. (n \div 67108864) % 8 = pr
  BY <1>2, SMT
<1> HIDE DEF n, PackId, Nibble, Byte, PriorityBits
<1>9. /\ Priority(n) = pr
      /\ Sum(n) = k
      /\ S_Module(n) = ss * 16 + sm
      /\ D_Module(n) = ds * 16 + dm
  BY <1>8, <1>3, <1>4, <1>5, <1>6, <1>7, SMT DEF Priority, Sum, S_Module, D_Module
<1>10. QED BY <1>9 DEF n

(* The identifier gives back every field flexcan_send packed into it. *)
LEMMA IdFields ==
    ASSUME NEW p \in Packet
    PROVE  /\ Priority(CanId(p)) = p.priority % 8
           /\ Sum(CanId(p)) = p.sum
           /\ S_Module(CanId(p)) = p.s_id
           /\ D_Module(CanId(p)) = p.d_id
<1>1. /\ p.priority \in Byte /\ p.sum \in Byte
      /\ p.s_id \in Byte /\ p.d_id \in Byte
  BY DEF Packet
<1>2. p.priority % 8 \in PriorityBits /\ p.sum \in Byte
  BY <1>1 DEF Byte, PriorityBits
<1>3. /\ Sys(p.s_id) \in Nibble /\ Smod(p.s_id) \in Nibble
      /\ p.s_id = Sys(p.s_id) * 16 + Smod(p.s_id)
  BY <1>1, Nibbles
<1>4. /\ Sys(p.d_id) \in Nibble /\ Smod(p.d_id) \in Nibble
      /\ p.d_id = Sys(p.d_id) * 16 + Smod(p.d_id)
  BY <1>1, Nibbles
<1>5. /\ Priority(CanId(p)) = p.priority % 8
      /\ Sum(CanId(p)) = p.sum
      /\ S_Module(CanId(p)) = Sys(p.s_id) * 16 + Smod(p.s_id)
      /\ D_Module(CanId(p)) = Sys(p.d_id) * 16 + Smod(p.d_id)
  <2> DEFINE pr == p.priority % 8
             ss == Sys(p.s_id)
             ds == Sys(p.d_id)
             k  == p.sum
             sm == Smod(p.s_id)
             dm == Smod(p.d_id)
  <2>1. CanId(p) = PackId(pr, ss, ds, k, sm, dm)
    BY DEF CanId
  <2>2. /\ pr \in PriorityBits /\ ss \in Nibble /\ ds \in Nibble
        /\ k \in Byte /\ sm \in Nibble /\ dm \in Nibble
    BY <1>2, <1>3, <1>4
  <2> HIDE DEF pr, ss, ds, k, sm, dm
  <2>3. /\ Priority(CanId(p)) = pr
        /\ Sum(CanId(p)) = k
        /\ S_Module(CanId(p)) = ss * 16 + sm
        /\ D_Module(CanId(p)) = ds * 16 + dm
    BY <2>1, <2>2, Fields
  <2>4. QED BY <2>3 DEF pr, ss, ds, k, sm, dm
<1>6. QED
  BY <1>3, <1>4, <1>5

(* The data bytes: a fragment's two header bytes come off where they went on. *)
LEMMA FrameData ==
    ASSUME NEW p \in Packet, Sendable(p)
    PROVE  /\ Readable(Frame(p))
           /\ Unframe(Frame(p)) = OnTheWire(p)
<1>1. /\ p.data \in Seq(Byte) /\ Len(p.data) \in Nat /\ Len(p.data) > 0
      /\ p.packet_id \in Byte /\ p.packet_SN \in Byte
  <2>1. p.data \in Seq(Byte) /\ p.packet_id \in Byte /\ p.packet_SN \in Byte
    BY DEF Packet
  <2>2. 0 < Len(p.data)
    BY DEF Sendable
  <2>3. QED BY <2>1, <2>2, SMT
<1>2. Sum(Frame(p).can_id) = p.sum
  BY IdFields DEF Frame
<1>3. /\ Priority(Frame(p).can_id) = p.priority % 8
      /\ S_Module(Frame(p).can_id) = p.s_id
      /\ D_Module(Frame(p).can_id) = p.d_id
  BY IdFields DEF Frame
<1>4. CASE p.sum = 0
  <2>1. Frame(p).data = p.data
    BY <1>4 DEF Frame
  <2>2. Readable(Frame(p))
    BY <1>2, <1>4 DEF Readable
  <2>3. Unframe(Frame(p)) = OnTheWire(p)
    BY <1>2, <1>3, <1>4, <2>1 DEF Unframe, OnTheWire
  <2>4. QED BY <2>2, <2>3
<1>5. CASE p.sum # 0
  <2> DEFINE d == <<p.packet_id, p.packet_SN>> \o p.data
  <2>1. /\ Frame(p).data = d
        /\ d \in Seq(Byte)
        /\ Len(d) = Len(p.data) + 2
    BY <1>1, <1>5 DEF Frame
  <2>2. d[1] = p.packet_id /\ d[2] = p.packet_SN
    BY <1>1
  <2>3. SubSeq(d, 3, Len(d)) = p.data
    <3>1. /\ SubSeq(d, 3, Len(d)) \in Seq(Byte)
          /\ Len(SubSeq(d, 3, Len(d))) = Len(p.data)
      BY <1>1, <2>1
    <3>2. ASSUME NEW b \in 1 .. Len(p.data)
          PROVE  SubSeq(d, 3, Len(d))[b] = p.data[b]
      BY <1>1, <2>1, <3>1
    <3>3. QED BY <1>1, <3>1, <3>2
  <2> HIDE DEF d
  <2>4. Readable(Frame(p))
    BY <1>1, <2>1 DEF Readable
  <2>5. Unframe(Frame(p)) = OnTheWire(p)
    <3> DEFINE f == Frame(p)
    <3>1. /\ f.data[1] = p.packet_id /\ f.data[2] = p.packet_SN
          /\ SubSeq(f.data, 2 + 1, Len(f.data)) = p.data
      BY <2>1, <2>2, <2>3
    <3>2. /\ Sum(f.can_id) = p.sum
          /\ Priority(f.can_id) = p.priority % 8
          /\ S_Module(f.can_id) = p.s_id
          /\ D_Module(f.can_id) = p.d_id
      BY <1>2, <1>3
    <3> HIDE DEF f
    <3>3. Unframe(f) = [packet_id |-> f.data[1], priority |-> p.priority % 8,
                        s_id |-> p.s_id, d_id |-> p.d_id,
                        data |-> SubSeq(f.data, 2 + 1, Len(f.data)),
                        packet_SN |-> f.data[2], sum |-> p.sum]
      BY <1>5, <3>2 DEF Unframe
    <3>4. QED BY <1>5, <3>1, <3>3 DEF f, OnTheWire
  <2>6. QED BY <2>4, <2>5
<1>6. QED BY <1>4, <1>5

-----------------------------------------------------------------------------

(* The machine's state follows the packet: what is on the wire is its frame. *)
FramingInv ==
    /\ pkt \in Packet
    /\ \A f \in wire : Sendable(pkt) /\ f = Frame(pkt)
    /\ RoundTrip

LEMMA FramingInvariant == Spec => []FramingInv
<1>1. Init => FramingInv
  BY PacketsAssumption DEF Init, FramingInv, RoundTrip
<1>2. FramingInv /\ [Next]_vars => FramingInv'
  <2> SUFFICES ASSUME FramingInv, [Next]_vars PROVE FramingInv'
    OBVIOUS
  <2>1. CASE Send
    BY <2>1 DEF Send, FramingInv, RoundTrip
  <2>2. CASE Recv
    <3>1. PICK f \in wire : got' = {Unframe(f)} /\ wire' = wire \ {f} /\ pkt' = pkt
      BY <2>2 DEF Recv
    <3>2. Unframe(f) = OnTheWire(pkt)
      BY <3>1, FrameData DEF FramingInv
    <3>3. QED BY <3>1, <3>2 DEF FramingInv, RoundTrip
  <2>3. CASE UNCHANGED vars
    BY <2>3 DEF vars, FramingInv, RoundTrip
  <2>4. QED BY <2>1, <2>2, <2>3 DEF Next
<1>3. QED BY <1>1, <1>2, PTL DEF Spec

(* For every packet flexcan_send accepts, flexcan_recv on the other side     *)
(* returns the same source, destination, fragment count, number and data.    *)
THEOREM FramingIsLossless == Spec => []RoundTrip
<1>1. FramingInv => RoundTrip
  BY DEF FramingInv
<1>2. QED BY <1>1, FramingInvariant, PTL

(* No frame that flexcan_send writes is refused by flexcan_recv's length     *)
(* check.                                                                    *)
THEOREM FramesAreReadable == Spec => []SentIsReadable
<1>1. FramingInv => SentIsReadable
  BY FrameData DEF FramingInv, SentIsReadable
<1>2. QED BY <1>1, FramingInvariant, PTL

=============================================================================
