----------------------------- MODULE Recovery ------------------------------
(***************************************************************************)
(* recovery.cpp around an installation: the main system asks for it through  *)
(* the command file (RecoverySystem.java), get_args turns that into the boot  *)
(* message, main or sdtool_main carries it out, finish_recovery takes both    *)
(* away.  Power may fail between any two steps.  On the next start the boot   *)
(* loader chooses between the main system and recovery by the boot message.  *)
(*                                                                         *)
(* RkImage has the installation of a firmware image.  The boot loader, the   *)
(* package installer (install_package) and the boards' update are given by    *)
(* what recovery.cpp relies on; the user interface by what the user can pick. *)
(* Files and the boot message are read and written without errors, except    *)
(* where the code acts on one.                                               *)
(***************************************************************************)
EXTENDS RkImage

CONSTANTS
    Requests,      \* what the main system may ask for: sets of options
    FactoryBoot,   \* boot messages a factory tool may have left: sets of options
    Cards,         \* cards in the external slot: "none", "tag", "sdboot"
    FwUpdate,      \* fw_update in sd_boot_config.config
    MaxAsks,       \* bound: requests of the main system
    MaxPicks,      \* bound: operations picked from the menu
    MaxCrashes     \* bound: losses of power

RequestOptions ==
    {"update_rkimage", "external_sd", "update_package", "update_boards",
     "wipe_data", "wipe_cache", "wipe_all", "just_exit", "factory_mode", "small"}

ASSUME RecoveryAssumption ==
    /\ Options = RequestOptions
    /\ Requests \subseteq SUBSET Options /\ {} \notin Requests
    /\ FactoryBoot \subseteq SUBSET Options
    /\ Cards \subseteq {"none", "tag", "sdboot"}
    /\ FwUpdate \in BOOLEAN
    /\ MaxAsks \in Nat /\ MaxPicks \in Nat /\ MaxCrashes \in Nat

VARIABLES
    pc,            \* where the device is; "off" is between a restart and the loader
    reason,        \* the restart asked for recovery
    command,       \* /cache/recovery/command: its options, {} when there is none
    card,
    userdata,      \* /data, and
    cache,         \*   /cache: "old", "torn" or "new" (formatted)
    boards,        \* robotSubSysUpdate has run for this request
    last_flag,     \* /cache/recovery/last_flag says success
    args,          \* the options get_args found
    status,        \* an INSTALL_ value; "FAILED" is the -1 of install_rkimage
    bNeedClearMisc,
    bAutoUpdateComplete,
    caller,        \* who installs: "main", "sdtool" or "menu"
    next,          \* where finish_recovery returns to: "menu" or "restart"
    asked,         \* the last request of the main system
    finished,      \* finish_recovery took its boot message away
    excused,       \* an operation failed, or the user picked one from the menu
    asks, picks, crashes

process == <<args, status, bNeedClearMisc, bAutoUpdateComplete, caller, next>>
wiped   == <<userdata, cache>>
ghosts  == <<asked, finished, excused>>
counts  == <<asks, picks, crashes>>
recVars == <<pc, reason, command, card, wiped, boards, last_flag, process, ghosts, counts>>
vars == <<rkVars, recVars>>

Init ==
    /\ RkInit
    /\ boot \in {Cleared} \cup { RecoveryMessage(a) : a \in FactoryBoot }
    /\ pc = "off" /\ reason = "none" /\ command = {} /\ card \in Cards
    /\ userdata = "old" /\ cache = "old" /\ boards = FALSE /\ last_flag = FALSE
    /\ args = {} /\ status = "SUCCESS" /\ bNeedClearMisc = TRUE
    /\ bAutoUpdateComplete = FALSE /\ caller = "main" /\ next = "restart"
    /\ asked = {} /\ finished = FALSE /\ excused = FALSE
    /\ asks = 0 /\ picks = 0 /\ crashes = 0

----------------------------------------------------------------------------
(* The main system and the boot loader.                                      *)

\* A new start has the variables of the program as they are initialised.
Stop(why) ==
    /\ pc' = "off" /\ reason' = why
    /\ args' = {} /\ status' = "SUCCESS" /\ bNeedClearMisc' = TRUE
    /\ bAutoUpdateComplete' = FALSE /\ caller' = "main" /\ next' = "restart"
    /\ RkReset

\* The loader: a card with sdfwupdate on its command line, a restart into recovery
\* or a boot-recovery message start recovery; an update-bootloader message is
\* carried out and removed; otherwise the main system starts.
ToRecovery ==
    card = "sdboot" \/ reason = "recovery" \/ boot.command = "boot-recovery"

StartUp ==
    /\ pc = "off"
    /\ reason' = "none"
    /\ IF ToRecovery
         THEN pc' = "get_args" /\ UNCHANGED boot
         ELSE pc' = "booted" /\ boot' = Cleared
    /\ UNCHANGED <<image, disk, loaderData, volatile, command, card, wiped, boards,
                   last_flag, process, ghosts, counts>>

\* handleAftermath removes everything from /cache/recovery but last_*.
HandleAftermath ==
    /\ pc = "booted" /\ pc' = "idle"
    /\ command' = {}
    /\ UNCHANGED <<rkVars, reason, card, wiped, boards, last_flag, process, ghosts, counts>>

\* bootCommand: delete the old file, write the new one, restart.
BootCommand(r) ==
    /\ pc = "idle" /\ asks < MaxAsks
    /\ asks' = asks + 1
    /\ asked' = r /\ finished' = FALSE /\ boards' = FALSE
    /\ userdata' = "old" /\ cache' = "old"      \* both are in use again
    /\ command' = {} /\ pc' = "write_command"
    /\ UNCHANGED <<rkVars, reason, card, last_flag, process, excused, picks, crashes>>

WriteCommand ==
    /\ pc = "write_command" /\ pc' = "reboot_recovery"
    /\ command' = asked
    /\ UNCHANGED <<rkVars, reason, card, wiped, boards, last_flag, process, ghosts, counts>>

RebootRecovery ==
    /\ pc = "reboot_recovery" /\ Stop("recovery")
    /\ UNCHANGED <<image, disk, loaderData, boot, command, card, wiped, boards, last_flag,
                   ghosts, counts>>

PowerLoss ==
    /\ pc # "off" /\ crashes < MaxCrashes
    /\ crashes' = crashes + 1
    /\ Stop("none")
    /\ UNCHANGED <<image, disk, loaderData, boot, command, card, wiped, boards, last_flag,
                   ghosts, asks, picks>>

----------------------------------------------------------------------------
(* main.                                                                     *)

\* Mutant: the boot message is not written.
GetArgs_NoMessage ==
    /\ pc = "get_args" /\ pc' = "dispatch"
    /\ args' = IF boot.recovery = "recovery" /\ boot.args # {} THEN boot.args ELSE command
    /\ UNCHANGED <<rkVars, reason, command, card, wiped, boards,
                   last_flag, status, bNeedClearMisc, bAutoUpdateComplete, caller, next,
                   ghosts, counts>>

\* get_args: the boot message if it has options, else the command file; what is
\* found is written into the boot message.
GetArgs ==
    /\ pc = "get_args" /\ pc' = "dispatch"
    /\ args' = IF boot.recovery = "recovery" /\ boot.args # {} THEN boot.args ELSE command
    /\ boot' = RecoveryMessage(args')
    /\ UNCHANGED <<image, disk, loaderData, volatile, reason, command, card, wiped, boards,
                   last_flag, status, bNeedClearMisc, bAutoUpdateComplete, caller, next,
                   ghosts, counts>>

\* The getopt loop.
WipeAll   == "wipe_all" \in args
WipeData  == WipeAll \/ "wipe_data" \in args
WipeCache == WipeData \/ "wipe_cache" \in args
JustExit  == "just_exit" \in args \/ "update_boards" \in args

Jump(from, to) == pc = from /\ pc' = to

Dispatch ==
    /\ Jump("dispatch", IF card = "sdboot" \/ "factory_mode" \in args THEN "pcba_test"
                        ELSE IF "update_boards" \in args THEN "boards"
                        ELSE "command")
    /\ UNCHANGED <<rkVars, reason, command, card, wiped, boards, last_flag, process, ghosts,
                   counts>>

\* robotSubSysUpdate; its result is not looked at.
UpdateBoards ==
    /\ Jump("boards", "command")
    /\ boards' = TRUE
    /\ UNCHANGED <<rkVars, reason, command, card, wiped, last_flag, process, ghosts, counts>>

Installs  == "update_rkimage" \in args /\ "update_package" \notin args
AutoCard  == card = "tag" /\ args \cap {"update_package", "update_rkimage"} = {}
NoUpdate  == card # "tag" /\ args \cap {"update_package", "update_rkimage"} = {}

InstallCommand ==
    /\ Jump("command", "install")
    /\ Installs \/ AutoCard
    /\ caller' = "main"
    /\ Install(AutoCard \/ "external_sd" \in args)
    /\ UNCHANGED <<reason, command, card, wiped, boards, last_flag, args, status,
                   bNeedClearMisc, bAutoUpdateComplete, next, ghosts, counts>>

PackageCommand ==
    /\ Jump("command", "package")
    /\ "update_package" \in args
    /\ caller' = "main"
    /\ UNCHANGED <<rkVars, reason, command, card, wiped, boards, last_flag, args, status,
                   bNeedClearMisc, bAutoUpdateComplete, next, ghosts, counts>>

\* The other commands, and none.
OtherCommand ==
    /\ NoUpdate
    /\ Jump("command", IF WipeData THEN "wipe_data"
                       ELSE IF WipeCache THEN "wipe_cache" ELSE "verdict")
    /\ status' = IF ~WipeCache /\ ~JustExit THEN "NONE" ELSE status
    /\ UNCHANGED <<rkVars, reason, command, card, wiped, boards, last_flag, args,
                   bNeedClearMisc, bAutoUpdateComplete, caller, next, ghosts, counts>>

\* install_rkimage goes on.
InstallStep ==
    /\ pc = "install" /\ RkStep
    /\ UNCHANGED recVars

\* It restarts the device for a new parameter partition.
InstallRestarts ==
    /\ pc = "install" /\ step = "restart"
    /\ Stop("recovery")
    /\ UNCHANGED <<image, disk, loaderData, boot, command, card, wiped, boards, last_flag,
                   ghosts, counts>>

\* erase_volume("/cache"): the command file goes with it.
EraseCache == cache' = "new" /\ command' = {}
KeepCache  == UNCHANGED <<cache, command>>

\* It returns to main: the status, the flag for the main system, and for the card's
\* image the wipe of the cache that came with it.
InstallReturns ==
    /\ Jump("install", "verdict") /\ caller = "main" /\ Returned
    /\ status' = IF result = 0 THEN "SUCCESS" ELSE IF result = 1 THEN "ERROR" ELSE "FAILED"
    /\ bAutoUpdateComplete' = (bAutoUpdateComplete \/ (result = 0 /\ Installs))
    /\ excused' = (excused \/ result # 0)
    /\ IF result = 0 /\ AutoCard /\ WipeCache THEN EraseCache ELSE KeepCache
    /\ UNCHANGED <<reason, card, userdata, boards, last_flag, args, bNeedClearMisc,
                   caller, next, asked, finished, counts>>

\* install_package refuses the package, or begins to write the system.
PackageBegins ==
    /\ pc = "package"
    /\ \/ /\ pc' = "packaging"
          /\ disk' = [disk EXCEPT !["system"] = "torn"]
          /\ UNCHANGED <<status, excused>>
       \/ /\ pc' = IF caller = "menu" THEN "picked" ELSE "verdict"
          /\ status' = "ERROR" /\ excused' = TRUE /\ UNCHANGED disk
    /\ UNCHANGED <<image, loaderData, boot, volatile, reason, command, card, wiped, boards,
                   last_flag, args, bNeedClearMisc, bAutoUpdateComplete, caller, next,
                   asked, finished, counts>>

\* It succeeds, and may ask for the cache to be wiped, or fails half way.
PackageEnds ==
    /\ pc = "packaging" /\ pc' = IF caller = "menu" THEN "picked" ELSE "verdict"
    /\ \/ /\ status' = "SUCCESS" /\ disk' = [disk EXCEPT !["system"] = "new"]
          /\ bAutoUpdateComplete' = (bAutoUpdateComplete \/ caller = "main")
          /\ EraseCache \/ KeepCache
          /\ UNCHANGED excused
       \/ /\ status' = "ERROR" /\ excused' = TRUE
          /\ KeepCache /\ UNCHANGED <<disk, bAutoUpdateComplete>>
    /\ UNCHANGED <<image, loaderData, boot, volatile, reason, card, userdata, boards,
                   last_flag, args, bNeedClearMisc, caller, next, asked, finished, counts>>

\* clone_data_if_exist, or erase_volume("/data"), begins ...
BeginWipe(from, to) ==
    /\ Jump(from, to)
    /\ userdata' = "torn"
    /\ UNCHANGED <<rkVars, reason, command, card, cache, boards, last_flag, process, ghosts,
                   counts>>

\* ... and ends, or fails.
EndWipe(from, to) ==
    /\ Jump(from, to)
    /\ \/ userdata' = "new" /\ UNCHANGED <<status, excused>>
       \/ status' = "ERROR" /\ excused' = TRUE /\ UNCHANGED userdata
    /\ UNCHANGED <<rkVars, reason, command, card, cache, boards, last_flag, args,
                   bNeedClearMisc, bAutoUpdateComplete, caller, next, asked, finished, counts>>

\* Mutant: --wipe_data forgets the cache.
WipeDataEnds_KeepsCache == EndWipe("wiping_data", "verdict")

WipeDataBegins == BeginWipe("wipe_data", "wiping_data")
WipeDataEnds   == EndWipe("wiping_data", "wipe_cache")

\* The cache, and for wipe_all the system's file system and the user partition.
WipeRest ==
    /\ Jump("wipe_cache", "verdict")
    /\ \/ EraseCache /\ UNCHANGED <<status, excused>>
       \/ WipeAll /\ EraseCache /\ status' = "ERROR" /\ excused' = TRUE
       \/ status' = "ERROR" /\ excused' = TRUE /\ KeepCache
    /\ UNCHANGED <<rkVars, reason, card, userdata, boards, last_flag, args, bNeedClearMisc,
                   bAutoUpdateComplete, caller, next, asked, finished, counts>>

\* An error is shown and the user asked; so is a start without a command.
Verdict ==
    /\ Jump("verdict", "finish")
    /\ bNeedClearMisc' = (bNeedClearMisc \/ status = "ERROR")
    /\ next' = IF status = "SUCCESS" THEN "restart" ELSE "menu"
    /\ UNCHANGED <<rkVars, reason, command, card, wiped, boards, last_flag, args, status,
                   bAutoUpdateComplete, caller, ghosts, counts>>

----------------------------------------------------------------------------
(* finish_recovery, and what it returns to.                                  *)

\* Mutant: the flag is read the wrong way round.
FinishMisc_Inverted ==
    /\ Jump("finish", "finish_flag")
    /\ boot' = IF bNeedClearMisc THEN boot ELSE Cleared
    /\ finished' = (finished \/ boot'.command # "boot-recovery")
    /\ UNCHANGED <<image, disk, loaderData, volatile, reason, command, card, wiped, boards,
                   last_flag, process, asked, excused, counts>>

FinishMisc ==
    /\ Jump("finish", "finish_flag")
    /\ boot' = IF bNeedClearMisc THEN Cleared ELSE boot
    /\ finished' = (finished \/ boot'.command # "boot-recovery")
    /\ UNCHANGED <<image, disk, loaderData, volatile, reason, command, card, wiped, boards,
                   last_flag, process, asked, excused, counts>>

FinishFlag ==
    /\ Jump("finish_flag", "unlink")
    /\ last_flag' = (last_flag \/ bAutoUpdateComplete)
    /\ bAutoUpdateComplete' = FALSE
    /\ UNCHANGED <<rkVars, reason, command, card, wiped, boards, args, status,
                   bNeedClearMisc, caller, next, ghosts, counts>>

\* Mutant: the command file stays.
FinishUnlink_Kept ==
    /\ Jump("unlink", next)
    /\ UNCHANGED <<rkVars, reason, command, card, wiped, boards, last_flag, process, ghosts,
                   counts>>

FinishUnlink ==
    /\ Jump("unlink", next)
    /\ command' = {}
    /\ UNCHANGED <<rkVars, reason, card, wiped, boards, last_flag, process, ghosts, counts>>

SdToolWith(a) == card = "sdboot" \/ "factory_mode" \in a
SdTool == SdToolWith(args)

\* android_reboot; sdtool_main first waits until the card has been removed.
Restart ==
    /\ pc = "restart" /\ Stop("none")
    /\ card' = IF SdTool THEN "none" ELSE card
    /\ UNCHANGED <<image, disk, loaderData, boot, command, wiped, boards, last_flag, ghosts,
                   counts>>

----------------------------------------------------------------------------
(* prompt_and_wait.  An operation ends at "picked": the menu comes back, after *)
(* another finish_recovery, or recovery goes on if its text is not visible.   *)

MenuReboot ==
    /\ Jump("menu", "finish") /\ next' = "restart"
    /\ UNCHANGED <<rkVars, reason, command, card, wiped, boards, last_flag, args, status,
                   bNeedClearMisc, bAutoUpdateComplete, caller, ghosts, counts>>

Pick == excused' = TRUE /\ picks < MaxPicks /\ picks' = picks + 1

\* WIPE_DATA and WIPE_CACHE; the results of erase_volume are not looked at.
MenuWipe ==
    /\ Jump("menu", "picked")
    /\ userdata' \in {userdata, "torn", "new"}
    /\ EraseCache \/ KeepCache
    /\ Pick
    /\ UNCHANGED <<rkVars, reason, card, boards, last_flag, process, asked, finished, asks, crashes>>

\* APPLY_EXT and APPLY_CACHE start recovery again if power fails; sideload does not.
MenuPackage ==
    /\ Jump("menu", "package")
    /\ boot' \in {boot, RecoveryMessage({})}
    /\ caller' = "menu" /\ Pick
    /\ UNCHANGED <<image, disk, loaderData, volatile, reason, command, card, wiped, boards,
                   last_flag, args, status, bNeedClearMisc, bAutoUpdateComplete, next,
                   asked, finished, asks, crashes>>

\* APPLY_INT_RKIMG.
MenuInstall ==
    /\ Jump("menu", "install")
    /\ step' = "find" /\ stage' = "write" /\ fromCard' = TRUE
    /\ boot' = RecoveryMessage({})
    /\ caller' = "menu" /\ Pick
    /\ UNCHANGED <<image, disk, loaderData, result, bIfUpdateLoader, reason, command, card,
                   wiped, boards, last_flag, args, status, bNeedClearMisc,
                   bAutoUpdateComplete, next, asked, finished, asks, crashes>>

MenuInstallReturns ==
    /\ Jump("install", "picked") /\ caller = "menu" /\ Returned
    /\ UNCHANGED <<reason, command, card, wiped, boards, last_flag, process, ghosts,
                   counts>>

\* RECOVER_SYSTEM writes the system from the backup partition.
MenuRecover ==
    /\ Jump("menu", "picked")
    /\ disk' \in { [disk EXCEPT !["system"] = c] : c \in {disk["system"], "torn", "old"} }
    /\ Pick
    /\ UNCHANGED <<image, loaderData, boot, volatile, reason, command, card, wiped, boards,
                   last_flag, process, asked, finished, asks, crashes>>

Picked ==
    /\ Jump("picked", "finish")
    /\ next' \in {"menu", "restart"}
    /\ UNCHANGED <<rkVars, reason, command, card, wiped, boards, last_flag, args, status,
                   bNeedClearMisc, bAutoUpdateComplete, caller, ghosts, counts>>

Menu ==
    \/ MenuReboot \/ MenuWipe \/ MenuPackage \/ MenuInstall \/ MenuRecover

----------------------------------------------------------------------------
(* sdtool_main.                                                              *)

\* The board test passes, is not asked for, or fails.
PcbaTest ==
    /\ \/ Jump("pcba_test", "format") /\ UNCHANGED <<status, excused>>
       \/ Jump("pcba_test", "sd_verdict") /\ status' = "ERROR" /\ excused' = TRUE
    /\ UNCHANGED <<rkVars, reason, command, card, wiped, boards, last_flag, args,
                   bNeedClearMisc, bAutoUpdateComplete, caller, next, asked, finished, counts>>

FormatBegins == BeginWipe("format", "formatting")
FormatEnds   == EndWipe("formatting", IF FwUpdate THEN "fw_update" ELSE "sd_verdict")

SdInstall ==
    /\ Jump("fw_update", "install")
    /\ caller' = "sdtool"
    /\ Install(TRUE)
    /\ UNCHANGED <<reason, command, card, wiped, boards, last_flag, args, status,
                   bNeedClearMisc, bAutoUpdateComplete, next, ghosts, counts>>

\* The status of the formatting is lost here, as in the code.
SdInstallReturns ==
    /\ Jump("install", "sd_verdict") /\ caller = "sdtool" /\ Returned
    /\ status' = IF result = 0 THEN "SUCCESS" ELSE IF result = 1 THEN "ERROR" ELSE "FAILED"
    /\ excused' = (excused \/ result # 0)
    /\ UNCHANGED <<reason, command, card, wiped, boards, last_flag, args,
                   bNeedClearMisc, bAutoUpdateComplete, caller, next, asked, finished, counts>>

\* Mutant: the loader's update is not looked at.
SdVerdict_NoLoader ==
    /\ Jump("sd_verdict", "finish")
    /\ bNeedClearMisc' = (status = "SUCCESS" /\ "small" \notin args)
    /\ next' = IF status = "SUCCESS" THEN "restart" ELSE "menu"
    /\ UNCHANGED <<rkVars, reason, command, card, wiped, boards, last_flag, args, status,
                   bAutoUpdateComplete, caller, ghosts, counts>>

SdVerdict ==
    /\ Jump("sd_verdict", "finish")
    /\ bNeedClearMisc' = (status = "SUCCESS" /\ "small" \notin args /\ ~bIfUpdateLoader)
    /\ next' = IF status = "SUCCESS" THEN "restart" ELSE "menu"
    /\ UNCHANGED <<rkVars, reason, command, card, wiped, boards, last_flag, args, status,
                   bAutoUpdateComplete, caller, ghosts, counts>>

----------------------------------------------------------------------------
Installation == InstallStep \/ InstallRestarts \/ InstallReturns \/ MenuInstallReturns
                \/ SdInstallReturns

Command ==
    \/ GetArgs \/ Dispatch \/ UpdateBoards
    \/ InstallCommand \/ PackageCommand \/ OtherCommand
    \/ PackageBegins \/ PackageEnds
    \/ WipeDataBegins \/ WipeDataEnds \/ WipeRest \/ Verdict

SdCommand == PcbaTest \/ FormatBegins \/ FormatEnds \/ SdInstall \/ SdVerdict

Finish == FinishMisc \/ FinishFlag \/ FinishUnlink \/ Restart \/ Picked

\* What the device does by itself.
Running == StartUp \/ Command \/ Installation \/ SdCommand \/ Finish

MainSystem ==
    \/ HandleAftermath \/ (\E r \in Requests : BootCommand(r))
    \/ WriteCommand \/ RebootRecovery

Next == Running \/ MainSystem \/ Menu \/ PowerLoss

Spec == Init /\ [][Next]_vars

\* The device keeps running, and reading the parameter partition does not fail every
\* time: otherwise each attempt writes it and restarts.
RunsOn ==
    /\ WF_vars(Running)
    /\ SF_vars(pc = "install" /\ ParameterMatches /\ UNCHANGED recVars)

FairSpec == Spec /\ RunsOn

----------------------------------------------------------------------------
(* What must hold.                                                           *)

Places ==
    {"off", "booted", "idle", "write_command", "reboot_recovery", "get_args", "dispatch",
     "boards", "command", "install", "package", "packaging", "wipe_data", "wiping_data",
     "wipe_cache", "verdict", "finish", "finish_flag", "unlink", "restart", "menu",
     "picked", "pcba_test", "format", "formatting", "fw_update", "sd_verdict"}

TypeOK ==
    /\ RkTypeOK
    /\ pc \in Places /\ reason \in {"none", "recovery"}
    /\ command \in SUBSET Options /\ card \in {"none", "tag", "sdboot"}
    /\ userdata \in Content /\ cache \in Content
    /\ boards \in BOOLEAN /\ last_flag \in BOOLEAN
    /\ args \in SUBSET Options
    /\ status \in {"SUCCESS", "ERROR", "FAILED", "NONE"}
    /\ bNeedClearMisc \in BOOLEAN /\ bAutoUpdateComplete \in BOOLEAN
    /\ caller \in {"main", "sdtool", "menu"} /\ next \in {"menu", "restart"}
    /\ asked \in SUBSET Options /\ finished \in BOOLEAN /\ excused \in BOOLEAN
    /\ asks \in 0 .. MaxAsks /\ picks \in 0 .. MaxPicks /\ crashes \in 0 .. MaxCrashes

TornPartitions == { p \in Partitions : disk[p] = "torn" }
SystemTorn == TornPartitions # {} \/ userdata = "torn"

ParameterToo(card_too) == IF card_too THEN {} ELSE {"parameter"}

\* The partitions a start with the options a writes, and whether it wipes the data.
Writes(a) ==
    IF SdToolWith(a) THEN IF FwUpdate THEN image \cap Partitions ELSE {}
    ELSE IF "update_package" \in a THEN {"system"}
    ELSE IF "update_rkimage" \in a
           THEN (image \cap Partitions) \ ParameterToo("external_sd" \in a)
    ELSE IF card = "tag" THEN image \cap Partitions
    ELSE {}
Wipes(a) ==
    \/ SdToolWith(a)
    \/ /\ a \cap {"wipe_data", "wipe_all"} # {}
       /\ a \cap {"update_package", "update_rkimage"} = {} /\ card # "tag"

\* "These important scenarios must be safely restartable at any point"
\* (recovery.cpp:163), for the partitions and the user data: whichever of them is
\* half written, and whenever power fails, the next start is recovery, with a command
\* that writes it again -- unless an operation has reported a failure or the user
\* has worked from the menu.  The loader's data is LoaderIsResumed's.
SystemIsResumed ==
    (SystemTorn /\ ~excused) =>
        /\ card = "sdboot" \/ boot.command = "boot-recovery"
        /\ TornPartitions \subseteq Writes(boot.args)
        /\ userdata = "torn" => Wipes(boot.args)

\* The same of the loader's data: when it is half written and power fails, the next
\* start is recovery, and not the loader that takes what is there.
LoaderIsResumed ==
    (pc = "off" /\ loaderData = "torn" /\ ~excused) => ToRecovery

\* The main system never runs on partitions or user data half written, unless
\* an operation has reported a failure or the user has worked from the menu.
MainSystemIsWhole ==
    (pc \in {"booted", "idle", "write_command", "reboot_recovery"} /\ ~excused) => ~SystemTorn

\* "Remove the command file, so recovery won't repeat indefinitely"
\* (recovery.cpp:574).  Once finish_recovery has taken its boot message away a
\* request is not carried out again, not even after a loss of power between that
\* and the removal of the command file, or while the user works from the menu.
\* (The menu may install an image from the card: requests for one are left out.)
NotCarriedOutTwice ==
    [][ (pc = "dispatch" /\ pc' # "off" /\ args # {} /\ args = asked) =>
            ~finished \/ "external_sd" \in asked ]_vars

\* main restarts the device with status SUCCESS only when everything asked for
\* has been done since, however often power failed: the boards were tried (what came
\* of it is not looked at), the image or the package is written, the data and the
\* cache are wiped.  A card in the slot takes the place of a wipe and is left out.
SuccessMeansDone ==
    (pc = "restart" /\ status = "SUCCESS" /\ ~SdTool /\ ~excused /\ card = "none") =>
        /\ "update_boards" \in asked => boards
        /\ "update_rkimage" \in asked => \A p \in image \ {"parameter"} :
                                            p \in Partitions => disk[p] = "new"
        /\ "update_package" \in asked => disk["system"] = "new"
        /\ asked \cap {"wipe_data", "wipe_all"} # {} => userdata = "new"
        /\ asked \cap {"wipe_data", "wipe_all", "wipe_cache"} # {} => cache = "new"

\* At the restart after an installation the message for the loader it has written is
\* still there exactly when sdtool_main asked for it ("avoid deleting command in misc
\* when exit recovery", rkimage.cpp:1227): main does not look at bIfUpdateLoader, and
\* after its installations the loader is never updated.
SdToolKeepsMessage ==
    (pc = "restart" /\ caller # "menu" /\ bIfUpdateLoader) =>
        (boot = LoaderMessage <=> caller = "sdtool")

\* A request whose boot message has been written is carried out or its failure is
\* shown, however often power fails, as long as it does not fail for ever.
RequestSettles ==
    (pc = "dispatch" /\ args # {}) ~> (pc = "menu" \/ pc = "booted")

=============================================================================
