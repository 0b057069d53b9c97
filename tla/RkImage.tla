------------------------------ MODULE RkImage ------------------------------
(***************************************************************************)
(* install_rkimage of rkimage.cpp: a firmware image is written partition by *)
(* partition, each one read back and compared, and the message for the boot *)
(* loader is left in the misc partition.  The partitions, the boot message   *)
(* and the loader's data survive a loss of power; the rest does not.         *)
(*                                                                         *)
(* A partition holds what it held before, a part of the image, or the image. *)
(* The update script an image may carry is not modelled: its result is       *)
(* ignored by the code, and its commands are outside this repository.       *)
(***************************************************************************)
EXTENDS Integers

CONSTANT
    Images,      \* the images that may be installed, each the set of its items
    Options      \* the options a boot message can hold

Partitions == {"parameter", "boot", "system", "backup", "recovery"}
Items == Partitions \cup {"bootloader"}
Content == {"old", "torn", "new"}

ASSUME RkImageAssumption ==
    /\ Images \subseteq SUBSET Items /\ Images # {}
    /\ {"update_rkimage", "external_sd"} \subseteq Options

VARIABLES
    image,        \* the items of the image being installed
    disk,         \* what each partition holds
    loaderData,   \* what the misc partition holds behind the boot message
    boot,         \* the boot message (bootloader control block)
    fromCard,     \* update_file begins with /mnt/external_sd
    step,         \* the item install_rkimage is at
    stage,        \* where it is with that item
    result,       \* what install_rkimage returned
    bIfUpdateLoader

volatile == <<fromCard, step, stage, result, bIfUpdateLoader>>
rkVars == <<image, disk, loaderData, boot, volatile>>

----------------------------------------------------------------------------
\* struct bootloader_message, as the code fills it in.
Message(command, recovery, args) ==
    [command |-> command, recovery |-> recovery, args |-> args]
Cleared == Message("none", "none", {})
RecoveryMessage(args) == Message("boot-recovery", "recovery", args)
LoaderMessage == Message("bootloader", "update-bootloader", {})

RkInit ==
    /\ image \in Images
    /\ disk \in { [p \in Partitions |-> IF p = "parameter" THEN c ELSE "old"] :
                    c \in {"old", "new"} }
    /\ loaderData = "old"
    /\ fromCard = FALSE /\ step = "idle" /\ stage = "write" /\ result = 0
    /\ bIfUpdateLoader = FALSE

\* Mutant: a step that is not there follows the last partition.
Following_Beyond(p) ==
    CASE p = "parameter" -> "boot"
      [] p = "boot"      -> "system"
      [] p = "system"    -> "backup"
      [] p = "backup"    -> "recovery"
      [] p = "recovery"  -> "finished"

\* The partition written after p.
Following(p) ==
    CASE p = "parameter" -> "boot"
      [] p = "boot"      -> "system"
      [] p = "system"    -> "backup"
      [] p = "backup"    -> "recovery"
      [] p = "recovery"  -> "message"

GoTo(s) == step' = s /\ stage' = "write" /\ UNCHANGED result
Return(r) == step' = "done" /\ stage' = "write" /\ result' = r

\* The call.
Install(card) ==
    /\ step' = "find" /\ stage' = "write" /\ fromCard' = card
    /\ UNCHANGED <<image, disk, loaderData, boot, result, bIfUpdateLoader>>

\* find_update_img: mount, header and checksum.  An image on the external card
\* begins with the parameter partition.
FindImage ==
    /\ step = "find"
    /\ \/ Return(1)
       \/ ~fromCard /\ GoTo("boot")
       \/ fromCard /\ step' = "parameter" /\ stage' = "probe" /\ UNCHANGED result
    /\ UNCHANGED <<image, disk, loaderData, boot, fromCard, bIfUpdateLoader>>

\* image_compare before the parameter partition is written: anything but a match
\* (no such item, an unreadable one, a difference) means write.
ParameterMatches ==
    /\ step = "parameter" /\ stage = "probe"
    /\ "parameter" \in image /\ disk["parameter"] = "new"
    /\ GoTo("boot")
    /\ UNCHANGED <<image, disk, loaderData, boot, fromCard, bIfUpdateLoader>>

ParameterDiffers ==
    /\ step = "parameter" /\ stage = "probe"
    /\ stage' = "write"
    /\ UNCHANGED <<image, disk, loaderData, boot, fromCard, step, result, bIfUpdateLoader>>

\* write_image of an item the image has not (-4): boot and system may be missing,
\* backup is asked for first, the others must be there.
MissingItem(p) ==
    /\ step = p /\ stage = "write" /\ p \notin image
    /\ IF p \in {"boot", "system", "backup"} THEN GoTo(Following(p)) ELSE Return(-1)
    /\ UNCHANGED <<image, disk, loaderData, boot, fromCard, bIfUpdateLoader>>

\* write_image fails before it writes, or has written a part.
BeginWrite(p) ==
    /\ step = p /\ stage = "write" /\ p \in image
    /\ \/ Return(-1) /\ UNCHANGED disk
       \/ /\ disk' = [disk EXCEPT ![p] = "torn"]
          /\ stage' = "writing" /\ UNCHANGED <<step, result>>
    /\ UNCHANGED <<image, loaderData, boot, fromCard, bIfUpdateLoader>>

\* The last write: an error, a partition that holds the image, or one that took
\* the data and does not hold it.
EndWrite(p) ==
    /\ step = p /\ stage = "writing"
    /\ \/ Return(-1) /\ UNCHANGED disk
       \/ /\ \E c \in {"torn", "new"} : disk' = [disk EXCEPT ![p] = c]
          /\ stage' = "check" /\ UNCHANGED <<step, result>>
    /\ UNCHANGED <<image, loaderData, boot, fromCard, bIfUpdateLoader>>

\* Mutant: what was written is not compared.
CheckWrite_Unchecked(p) ==
    /\ step = p /\ stage = "check" /\ p # "parameter"
    /\ GoTo(Following(p))
    /\ UNCHANGED <<image, disk, loaderData, boot, fromCard, bIfUpdateLoader>>

\* image_compare after the write, and the check of the file system of system.
CheckWrite(p) ==
    /\ step = p /\ stage = "check" /\ p # "parameter"
    /\ \/ Return(-1)
       \/ disk[p] = "new" /\ GoTo(Following(p))
    /\ UNCHANGED <<image, disk, loaderData, boot, fromCard, bIfUpdateLoader>>

\* A new parameter partition takes effect at a restart into recovery, whose boot
\* message now asks for this image and nothing else.  Whether the message could be
\* written is not looked at: the restart may find the one of before.
CheckParameter ==
    /\ step = "parameter" /\ stage = "check"
    /\ \/ Return(-1) /\ UNCHANGED boot
       \/ /\ disk["parameter"] = "new"
          /\ boot' \in {boot, RecoveryMessage({"update_rkimage", "external_sd"})}
          /\ GoTo("restart")
    /\ UNCHANGED <<image, disk, loaderData, fromCard, bIfUpdateLoader>>

\* The message that makes the loader update itself.
WriteMessage ==
    /\ step = "message"
    /\ \/ Return(-1) /\ UNCHANGED boot
       \/ boot' = LoaderMessage /\ GoTo("bootloader")
    /\ UNCHANGED <<image, disk, loaderData, fromCard, bIfUpdateLoader>>

\* write_loader: find, read and convert the loader, then write it behind the message.
BeginLoader ==
    /\ step = "bootloader" /\ stage = "write"
    /\ \/ Return(-1) /\ UNCHANGED loaderData
       \/ /\ "bootloader" \in image
          /\ loaderData' = "torn" /\ stage' = "writing" /\ UNCHANGED <<step, result>>
    /\ UNCHANGED <<image, disk, boot, fromCard, bIfUpdateLoader>>

\* The rest of write_loader: the data is read back and compared.
EndLoader ==
    /\ step = "bootloader" /\ stage = "writing"
    /\ \/ Return(-1) /\ UNCHANGED <<loaderData, bIfUpdateLoader>>
       \/ loaderData' = "new" /\ bIfUpdateLoader' = TRUE /\ Return(0)
    /\ UNCHANGED <<image, disk, boot, fromCard>>

RkStep ==
    \/ FindImage \/ ParameterMatches \/ ParameterDiffers \/ CheckParameter
    \/ \E p \in Partitions : MissingItem(p) \/ BeginWrite(p) \/ EndWrite(p) \/ CheckWrite(p)
    \/ WriteMessage \/ BeginLoader \/ EndLoader

\* Back in the caller.
Returned ==
    /\ step = "done" /\ step' = "idle"
    /\ UNCHANGED <<image, disk, loaderData, boot, fromCard, stage, result, bIfUpdateLoader>>

\* recovery is gone: its variables are what the next one starts with.
RkReset ==
    /\ fromCard' = FALSE /\ step' = "idle" /\ stage' = "write" /\ result' = 0
    /\ bIfUpdateLoader' = FALSE

----------------------------------------------------------------------------
RkTypeOK ==
    /\ image \in Images
    /\ disk \in [Partitions -> Content]
    /\ loaderData \in Content
    /\ boot \in [command : {"none", "boot-recovery", "bootloader"},
                 recovery : {"none", "recovery", "update-bootloader"},
                 args : SUBSET Options]
    /\ fromCard \in BOOLEAN
    /\ step \in Partitions \cup {"idle", "find", "message", "bootloader", "restart", "done"}
    /\ stage \in {"probe", "write", "writing", "check"}
    /\ result \in {0, 1, -1}
    /\ bIfUpdateLoader \in BOOLEAN

\* install_rkimage reports success only when every partition of the image has
\* been written and compared since it was called, whatever an earlier attempt
\* left behind, and the loader's data is whole.  (The parameter partition is
\* part of it for an image on the external card.)
SuccessMeansInstalled ==
    (step = "done" /\ result = 0) =>
        /\ \A p \in image \cap (Partitions \ {"parameter"}) : disk[p] = "new"
        /\ fromCard => disk["parameter"] = "new"
        /\ loaderData = "new"

=============================================================================
