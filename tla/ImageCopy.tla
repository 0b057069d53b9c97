----------------------------- MODULE ImageCopy -----------------------------
(***************************************************************************)
(* rkimage.cpp: write_image copies an item of the firmware image to a        *)
(* partition, image_compare reads both back. install_rkimage and             *)
(* recover_backup call the one and then the other; for the parameter         *)
(* partition install_rkimage compares first, and writes when that does not   *)
(* tell the two equal.                                                       *)
(*                                                                         *)
(* The blocks have 16 K (write) and 1 M (compare), the copies of the         *)
(* parameters are 512 K apart. An item is less than 2 G long: its size is    *)
(* held in an int.                                                           *)
(***************************************************************************)
EXTENDS Integers, Sequences

CONSTANTS
    STEP,           \* src_step and dest_step of write_image
    COMPARE_STEP,   \* COMPARE_BUFFER_SIZE
    COPY,           \* from one copy of the parameters to the next
    Contents,       \* the bytes
    Zero,           \* the byte that fills the last block
    Items,          \* what the image may hold for the partition
    Disks           \* what the partition may hold

ASSUME CopyAssumption ==
    /\ STEP \in Nat \ {0} /\ COMPARE_STEP \in Nat \ {0} /\ COPY \in Nat /\ STEP =< COPY
    /\ Zero \in Contents
    /\ Items \subseteq Seq(Contents) /\ Disks \subseteq Seq(Contents)

VARIABLES
    item, disk,
    dest_is_parameter,
    call,           \* the function that runs, or what the last one has returned
    done,           \* the bytes of the item read, in blocks
    pos,            \* the position in the partition
    dest_remain,
    wrote           \* has write_image returned 0?

copyVars == <<item, disk, dest_is_parameter, call, done, pos, dest_remain, wrote>>

CopyInit ==
    /\ item \in Items /\ disk \in Disks /\ dest_is_parameter \in BOOLEAN
    /\ call = IF dest_is_parameter THEN "image_compare" ELSE "write_image"
    /\ done = 0 /\ pos = 0 /\ wrote = FALSE
    /\ dest_remain = IF dest_is_parameter THEN STEP ELSE Len(item)

Call(function) ==
    /\ call' = function
    /\ done' = 0 /\ pos' = 0
    /\ dest_remain' = IF dest_is_parameter THEN STEP ELSE Len(item)

\* Mutant: the loops end before a last block that is not full.
Remains_FullBlocks == done + STEP =< Len(item) /\ dest_remain > 0

Remains == done < Len(item) /\ dest_remain > 0

\* What is read from done on: a full block, or what is left.
Upto(step) == IF done + step < Len(item) THEN done + step ELSE Len(item)

-----------------------------------------------------------------------------
(* write_image.                                                              *)

\* data_buf, zero behind the end of the item.
Buffer == [k \in 1 .. STEP |-> IF done + k =< Len(item) THEN item[done + k] ELSE Zero]

\* Mutant: the copies are counted from one.
Targets_FromOne == IF dest_is_parameter THEN { COPY * c : c \in 1 .. 4 } ELSE {pos}

\* A block of parameters is written four times, at the same places for every block.
Targets == IF dest_is_parameter THEN { COPY * c : c \in 0 .. 3 } ELSE {pos}

\* Where the block lies that comes to the byte k of the partition, if any.
Hits(k) == { t \in Targets : k \in t + 1 .. t + STEP }

\* A block that has no room to its end is written in part, and refused.
WriteBlock ==
    /\ call = "write_image" /\ Remains
    /\ disk' = [k \in 1 .. Len(disk) |->
                  IF Hits(k) = {} THEN disk[k] ELSE Buffer[k - (CHOOSE t \in Hits(k) : TRUE)]]
    /\ IF \A t \in Targets : t + STEP =< Len(disk)
         THEN /\ done' = Upto(STEP) /\ pos' = pos + STEP
              /\ dest_remain' = IF done' = Len(item) THEN 0 ELSE dest_remain - STEP
              /\ UNCHANGED call
         ELSE call' = "failed" /\ UNCHANGED <<done, pos, dest_remain>>
    /\ UNCHANGED <<item, dest_is_parameter, wrote>>

WriteEnds ==
    /\ call = "write_image" /\ ~Remains
    /\ Call("image_compare") /\ wrote' = TRUE
    /\ UNCHANGED <<item, disk, dest_is_parameter>>

-----------------------------------------------------------------------------
(* image_compare.                                                            *)

\* A whole block is read from the partition, for the last of the item, too. What is
\* left of the partition is counted down behind the loop, to no effect.
CompareBlock ==
    /\ call = "image_compare" /\ Remains
    /\ IF pos + COMPARE_STEP > Len(disk)
         THEN call' = "unread" /\ UNCHANGED <<done, pos>>
         ELSE IF \E k \in 1 .. Upto(COMPARE_STEP) - done : item[done + k] # disk[pos + k]
                THEN call' = "differs" /\ UNCHANGED <<done, pos>>
                ELSE done' = Upto(COMPARE_STEP) /\ pos' = pos + COMPARE_STEP /\ UNCHANGED call
    /\ UNCHANGED <<item, disk, dest_is_parameter, dest_remain, wrote>>

CompareEnds ==
    /\ call = "image_compare" /\ ~Remains
    /\ call' = "equal"
    /\ UNCHANGED <<item, disk, dest_is_parameter, done, pos, dest_remain, wrote>>

-----------------------------------------------------------------------------
\* The parameters do not tell equal: install_rkimage writes them.
Update ==
    /\ call \in {"differs", "unread"} /\ dest_is_parameter /\ ~wrote
    /\ Call("write_image")
    /\ UNCHANGED <<item, disk, dest_is_parameter, wrote>>

\* The image or the partition cannot be read or written.
DeviceFails ==
    /\ call \in {"write_image", "image_compare"}
    /\ call' = IF call = "image_compare" /\ ~wrote THEN "unread" ELSE "failed"
    /\ UNCHANGED <<item, disk, dest_is_parameter, done, pos, dest_remain, wrote>>

CopyNext ==
    WriteBlock \/ WriteEnds \/ CompareBlock \/ CompareEnds \/ Update \/ DeviceFails

CopySpec == CopyInit /\ [][CopyNext]_copyVars

-----------------------------------------------------------------------------
Holds(at, length) == \A k \in 1 .. length : at + k =< Len(disk) /\ disk[at + k] = item[k]

(* When image_compare returns 0, the partition holds every byte of the item, *)
(* to the last of a block that is not full, whatever it held before and      *)
(* however the two block sizes and the sizes of the item and of the          *)
(* partition go together (rkimage.cpp:1128-1212).                            *)
EqualIsWhole == call = "equal" => Holds(0, Len(item))

\* Room for a whole block of image_compare behind the item, and parameters of one block.
Fits ==
    /\ \A block \in 0 .. Len(item) :
          COMPARE_STEP * block < Len(item) => COMPARE_STEP * block + COMPARE_STEP =< Len(disk)
    /\ dest_is_parameter => Len(item) =< STEP

(* What write_image has written, image_compare finds equal, if the partition *)
(* has room: otherwise every installation would fail, and that of new        *)
(* parameters would restart for ever (rkimage.cpp:2109-2133, 872-895). The   *)
(* parameters are there four times.                                          *)
WrittenIsEqual ==
    wrote /\ Fits =>
        /\ call \notin {"differs", "unread"}
        /\ dest_is_parameter => \A c \in 0 .. 3 : Holds(COPY * c, Len(item))

=============================================================================
