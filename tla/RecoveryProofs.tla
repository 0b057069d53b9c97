-------------------------- MODULE RecoveryProofs ---------------------------
(* Types, the installation's success, and that partitions and user data half   *)
(* written are written again: for any requests, images, cards and losses of    *)
(* power.                                                                     *)
EXTENDS Recovery, TLAPS

MainPlaces == {"booted", "idle", "write_command", "reboot_recovery"}
SdPlaces == {"pcba_test", "format", "formatting", "fw_update"}
WipePlaces == {"wipe_data", "wiping_data", "wipe_cache"}
CommandPlaces == {"boards", "command"} \cup WipePlaces
CleanPlaces ==
    MainPlaces \cup {"wipe_cache", "verdict", "sd_verdict", "finish", "finish_flag", "unlink",
                     "restart", "menu", "picked"}

\* The partitions behind the step s of an installation.
Behind(s) ==
    CASE s = "boot"     -> {"parameter"}
      [] s = "system"   -> {"parameter", "boot"}
      [] s = "backup"   -> {"parameter", "boot", "system"}
      [] s = "recovery" -> {"parameter", "boot", "system", "backup"}
      [] s \in {"message", "bootloader", "done"} -> Partitions
      [] OTHER          -> {}

\* An installation has written everything behind it.
Walk ==
    /\ (pc = "install") <=> (step # "idle")
    /\ (step # "done" \/ result = 0) =>
          \A p \in image \cap Behind(step) : (p = "parameter" => fromCard) => disk[p] = "new"
    /\ (step = "done" /\ result = 0) => loaderData = "new"
    /\ (fromCard /\ "parameter" \in Behind(step) /\ (step # "done" \/ result = 0)) =>
          disk["parameter"] = "new"

\* Where the device can be with which options.
Routes ==
    /\ boot.recovery = "recovery" <=> boot.command = "boot-recovery"
    /\ pc \in MainPlaces => card # "sdboot" /\ boot.command # "boot-recovery"
    /\ pc \in SdPlaces => SdTool
    /\ pc = "fw_update" => FwUpdate
    /\ pc \in CommandPlaces => ~SdTool
    /\ pc \in WipePlaces => NoUpdate
    /\ pc \in {"wipe_data", "wiping_data"} => WipeData
    /\ stage = "writing" /\ step \in Partitions => step \in image
    /\ pc \in {"package", "packaging"} => caller # "sdtool"
    /\ pc \in {"package", "packaging"} /\ caller = "main" => ~SdTool /\ "update_package" \in args
    /\ pc = "install" /\ caller = "main" =>
          /\ ~SdTool /\ (Installs \/ AutoCard)
          /\ fromCard <=> (AutoCard \/ "external_sd" \in args)
    /\ pc = "install" /\ caller = "sdtool" => SdTool /\ FwUpdate /\ fromCard
    /\ pc = "install" /\ step \in {"parameter", "restart"} => fromCard

BusyPlaces ==
    {"dispatch", "package", "packaging"} \cup SdPlaces \cup CommandPlaces

\* What is half written will be written by the next start.
Resumed ==
    /\ caller # "menu"
    /\ SystemIsResumed
    /\ pc \in CleanPlaces => ~SystemTorn
    /\ pc \in BusyPlaces => boot = RecoveryMessage(args)
    /\ pc = "install" =>
          \/ boot = RecoveryMessage(args)
          \/ step = "restart" /\ boot = RecoveryMessage({"update_rkimage", "external_sd"})
          \/ step \in {"bootloader", "done"} /\ ~SystemTorn
    /\ pc \in {"install", "fw_update"} => userdata # "torn"
    /\ pc = "install" => TornPartitions \subseteq (image \cap Partitions) \ ParameterToo(fromCard)
    /\ boot.command = "boot-recovery" /\ boot.args = {} => command = {}

Inv == TypeOK /\ Walk /\ Routes /\ (excused \/ Resumed)

----------------------------------------------------------------------------
\* The two halves of TypeOK.
FlagsOK ==
    /\ fromCard \in BOOLEAN /\ bIfUpdateLoader \in BOOLEAN
    /\ boards \in BOOLEAN /\ last_flag \in BOOLEAN
    /\ bNeedClearMisc \in BOOLEAN /\ bAutoUpdateComplete \in BOOLEAN
    /\ finished \in BOOLEAN /\ excused \in BOOLEAN

RestOK ==
    /\ image \in Images
    /\ disk \in [Partitions -> Content]
    /\ loaderData \in Content
    /\ boot \in [command : {"none", "boot-recovery", "bootloader"},
                 recovery : {"none", "recovery", "update-bootloader"},
                 args : SUBSET Options]
    /\ step \in Partitions \cup {"idle", "find", "message", "bootloader", "restart", "done"}
    /\ stage \in {"probe", "write", "writing", "check"}
    /\ result \in {0, 1, -1}
    /\ pc \in Places /\ reason \in {"none", "recovery"}
    /\ command \in SUBSET Options /\ card \in {"none", "tag", "sdboot"}
    /\ userdata \in Content /\ cache \in Content
    /\ args \in SUBSET Options
    /\ status \in {"SUCCESS", "ERROR", "FAILED", "NONE"}
    /\ caller \in {"main", "sdtool", "menu"} /\ next \in {"menu", "restart"}
    /\ asked \in SUBSET Options
    /\ asks \in 0 .. MaxAsks /\ picks \in 0 .. MaxPicks /\ crashes \in 0 .. MaxCrashes

LEMMA TypeStep ==
    TypeOK /\ [Next]_vars => TypeOK'
  <1> SUFFICES ASSUME TypeOK, [Next]_vars PROVE TypeOK'
    OBVIOUS
  <1> USE RkImageAssumption, RecoveryAssumption DEF TypeOK, RkTypeOK, RequestOptions
  <1> USE DEF rkVars, volatile, process, wiped, ghosts, counts, recVars, vars, Places, Content,
              Partitions, Items
  <1>1. ASSUME NEW r \in Requests, BootCommand(r) PROVE TypeOK'
    <2>1. FlagsOK'
      BY <1>1, Zenon DEF FlagsOK, BootCommand
    <2>2. RestOK'
      BY <1>1 DEF RestOK, BootCommand
    <2> QED
      BY <2>1, <2>2 DEF FlagsOK, RestOK
  <1>2. CASE StartUp
    BY <1>2 DEF StartUp, Cleared, Message, ToRecovery
  <1>3. CASE HandleAftermath
    BY <1>3 DEF HandleAftermath
  <1>4. CASE WriteCommand
    BY <1>4 DEF WriteCommand
  <1>5. CASE RebootRecovery
    <2>1. FlagsOK'
      BY <1>5, Zenon DEF FlagsOK, RebootRecovery, Stop, RkReset
    <2>2. RestOK'
      BY <1>5 DEF RestOK, RebootRecovery, Stop, RkReset
    <2> QED
      BY <2>1, <2>2 DEF FlagsOK, RestOK
  <1>6. CASE PowerLoss
    <2>1. FlagsOK'
      BY <1>6, Zenon DEF FlagsOK, PowerLoss, Stop, RkReset
    <2>2. RestOK'
      BY <1>6 DEF RestOK, PowerLoss, Stop, RkReset
    <2> QED
      BY <2>1, <2>2 DEF FlagsOK, RestOK
  <1>7. CASE GetArgs
    BY <1>7 DEF GetArgs, RecoveryMessage, Message
  <1>8. CASE Dispatch
    BY <1>8 DEF Dispatch, Jump
  <1>9. CASE UpdateBoards
    BY <1>9 DEF UpdateBoards, Jump
  <1>10. CASE InstallCommand
    BY <1>10 DEF InstallCommand, Jump, Install
  <1>11. CASE PackageCommand
    BY <1>11 DEF PackageCommand, Jump
  <1>12. CASE OtherCommand
    BY <1>12 DEF OtherCommand, Jump
  <1>13. CASE InstallRestarts
    <2>1. FlagsOK'
      BY <1>13, Zenon DEF FlagsOK, InstallRestarts, Stop, RkReset
    <2>2. RestOK'
      BY <1>13 DEF RestOK, InstallRestarts, Stop, RkReset
    <2> QED
      BY <2>1, <2>2 DEF FlagsOK, RestOK
  <1>14. CASE InstallReturns
    <2>1. FlagsOK'
      BY <1>14, Zenon DEF FlagsOK, InstallReturns, Jump, Returned, EraseCache, KeepCache
    <2>2. EraseCache \/ KeepCache
      BY <1>14 DEF InstallReturns, Jump, Returned
    <2>3. cache' \in Content /\ command' \in SUBSET Options
      BY <2>2 DEF EraseCache, KeepCache
    <2>4. RestOK'
      BY <1>14, <2>3 DEF RestOK, InstallReturns, Jump, Returned
    <2> QED
      BY <2>1, <2>4 DEF FlagsOK, RestOK
  <1>15. CASE MenuInstallReturns
    BY <1>15 DEF MenuInstallReturns, Jump, Returned
  <1>16. CASE SdInstallReturns
    BY <1>16 DEF SdInstallReturns, Jump, Returned
  <1>17. CASE PackageBegins
    <2>1. FlagsOK'
      BY <1>17, Zenon DEF FlagsOK, PackageBegins
    <2>2. RestOK'
      BY <1>17 DEF RestOK, PackageBegins
    <2> QED
      BY <2>1, <2>2 DEF FlagsOK, RestOK
  <1>18. CASE PackageEnds
    <2>1. FlagsOK'
      BY <1>18, Zenon DEF FlagsOK, PackageEnds, EraseCache, KeepCache
    <2>2. EraseCache \/ KeepCache
      BY <1>18 DEF PackageEnds
    <2>3. cache' \in Content /\ command' \in SUBSET Options
      BY <2>2 DEF EraseCache, KeepCache
    <2>4. RestOK'
      BY <1>18, <2>3 DEF RestOK, PackageEnds
    <2> QED
      BY <2>1, <2>4 DEF FlagsOK, RestOK
  <1>19. CASE WipeDataBegins
    BY <1>19 DEF WipeDataBegins, BeginWipe, Jump
  <1>20. CASE WipeDataEnds
    <2>1. FlagsOK'
      BY <1>20, Zenon DEF FlagsOK, WipeDataEnds, EndWipe, Jump
    <2>2. RestOK'
      BY <1>20 DEF RestOK, WipeDataEnds, EndWipe, Jump
    <2> QED
      BY <2>1, <2>2 DEF FlagsOK, RestOK
  <1>21. CASE WipeRest
    <2>1. FlagsOK'
      BY <1>21, Zenon DEF FlagsOK, WipeRest, Jump, EraseCache, KeepCache
    <2>2. EraseCache \/ KeepCache
      BY <1>21 DEF WipeRest, Jump
    <2>3. cache' \in Content /\ command' \in SUBSET Options
      BY <2>2 DEF EraseCache, KeepCache
    <2>4. RestOK'
      BY <1>21, <2>3 DEF RestOK, WipeRest, Jump
    <2> QED
      BY <2>1, <2>4 DEF FlagsOK, RestOK
  <1>22. CASE Verdict
    BY <1>22 DEF Verdict, Jump
  <1>23. CASE FinishMisc
    BY <1>23 DEF FinishMisc, Jump, Cleared, Message
  <1>24. CASE FinishFlag
    <2>1. FlagsOK'
      BY <1>24, Zenon DEF FlagsOK, FinishFlag, Jump
    <2>2. RestOK'
      BY <1>24 DEF RestOK, FinishFlag, Jump
    <2> QED
      BY <2>1, <2>2 DEF FlagsOK, RestOK
  <1>25. CASE FinishUnlink
    BY <1>25 DEF FinishUnlink, Jump
  <1>26. CASE Restart
    <2>1. FlagsOK'
      BY <1>26, Zenon DEF FlagsOK, Restart, Stop, RkReset
    <2>2. RestOK'
      BY <1>26 DEF RestOK, Restart, Stop, RkReset
    <2> QED
      BY <2>1, <2>2 DEF FlagsOK, RestOK
  <1>27. CASE MenuReboot
    BY <1>27 DEF MenuReboot, Jump
  <1>28. CASE MenuWipe
    <2>1. FlagsOK'
      BY <1>28, Zenon DEF FlagsOK, MenuWipe, Jump, Pick, EraseCache, KeepCache
    <2>2. EraseCache \/ KeepCache
      BY <1>28 DEF MenuWipe, Jump, Pick
    <2>3. cache' \in Content /\ command' \in SUBSET Options
      BY <2>2 DEF EraseCache, KeepCache
    <2>4. RestOK'
      BY <1>28, <2>3 DEF RestOK, MenuWipe, Jump, Pick
    <2> QED
      BY <2>1, <2>4 DEF FlagsOK, RestOK
  <1>29. CASE MenuPackage
    BY <1>29 DEF MenuPackage, Jump, Pick, RecoveryMessage, Message
  <1>30. CASE MenuInstall
    BY <1>30 DEF MenuInstall, Jump, Pick, RecoveryMessage, Message
  <1>31. CASE MenuRecover
    BY <1>31 DEF MenuRecover, Jump, Pick
  <1>32. CASE Picked
    BY <1>32 DEF Picked, Jump
  <1>33. CASE PcbaTest
    <2>1. FlagsOK'
      BY <1>33, Zenon DEF FlagsOK, PcbaTest, Jump
    <2>2. RestOK'
      BY <1>33 DEF RestOK, PcbaTest, Jump
    <2> QED
      BY <2>1, <2>2 DEF FlagsOK, RestOK
  <1>34. CASE FormatBegins
    BY <1>34 DEF FormatBegins, BeginWipe, Jump
  <1>35. CASE FormatEnds
    <2>1. FlagsOK'
      BY <1>35, Zenon DEF FlagsOK, FormatEnds, EndWipe, Jump
    <2>2. RestOK'
      BY <1>35 DEF RestOK, FormatEnds, EndWipe, Jump
    <2> QED
      BY <2>1, <2>2 DEF FlagsOK, RestOK
  <1>36. CASE SdInstall
    BY <1>36 DEF SdInstall, Jump, Install
  <1>37. CASE SdVerdict
    BY <1>37 DEF SdVerdict, Jump
  <1>38. CASE InstallStep /\ FindImage
    BY <1>38 DEF InstallStep, FindImage, Return, GoTo
  <1>39. CASE InstallStep /\ ParameterMatches
    BY <1>39 DEF InstallStep, ParameterMatches, GoTo
  <1>40. CASE InstallStep /\ ParameterDiffers
    BY <1>40 DEF InstallStep, ParameterDiffers
  <1>41. CASE InstallStep /\ CheckParameter
    BY <1>41 DEF InstallStep, CheckParameter, Return, GoTo, RecoveryMessage, Message
  <1>42. CASE InstallStep /\ WriteMessage
    BY <1>42 DEF InstallStep, WriteMessage, Return, GoTo, LoaderMessage, Message
  <1>43. CASE InstallStep /\ BeginLoader
    BY <1>43 DEF InstallStep, BeginLoader, Return
  <1>44. CASE InstallStep /\ EndLoader
    <2>1. FlagsOK'
      BY <1>44, Zenon DEF FlagsOK, InstallStep, EndLoader, Return
    <2>2. RestOK'
      BY <1>44 DEF RestOK, InstallStep, EndLoader, Return
    <2> QED
      BY <2>1, <2>2 DEF FlagsOK, RestOK
  <1>45. ASSUME NEW p \in Partitions, InstallStep, MissingItem(p) PROVE TypeOK'
    BY <1>45 DEF InstallStep, MissingItem, GoTo, Return, Following
  <1>46. ASSUME NEW p \in Partitions, InstallStep, BeginWrite(p) PROVE TypeOK'
    BY <1>46 DEF InstallStep, BeginWrite, Return
  <1>47. ASSUME NEW p \in Partitions, InstallStep, EndWrite(p) PROVE TypeOK'
    BY <1>47 DEF InstallStep, EndWrite, Return
  <1>48. ASSUME NEW p \in Partitions, InstallStep, CheckWrite(p) PROVE TypeOK'
    BY <1>48 DEF InstallStep, CheckWrite, Return, GoTo, Following
  <1>49. CASE UNCHANGED vars
    BY <1>49
  <1> QED
    BY <1>1, <1>2, <1>3, <1>4, <1>5, <1>6, <1>7, <1>8, <1>9, <1>10, <1>11, <1>12, <1>13,
      <1>14, <1>15, <1>16, <1>17, <1>18, <1>19, <1>20, <1>21, <1>22, <1>23, <1>24, <1>25,
      <1>26, <1>27, <1>28, <1>29, <1>30, <1>31, <1>32, <1>33, <1>34, <1>35, <1>36, <1>37,
      <1>38, <1>39, <1>40, <1>41, <1>42, <1>43, <1>44, <1>45, <1>46, <1>47, <1>48, <1>49 DEF
      Next, Running, Command, Installation, InstallStep, RkStep, SdCommand, Finish,
      MainSystem, Menu

\* The state is always of its type.
THEOREM RecoveryTypes == Spec => []TypeOK
  <1>1. ASSUME Init PROVE TypeOK
    <2>1. disk \in [Partitions -> Content]
      <3>1. PICK c \in {"old", "new"} :
              disk = [p \in Partitions |-> IF p = "parameter" THEN c ELSE "old"]
        BY <1>1 DEF Init, RkInit
      <3> QED
        BY <3>1 DEF Content
    <2>2. boot \in [command : {"none", "boot-recovery", "bootloader"},
                   recovery : {"none", "recovery", "update-bootloader"},
                   args : SUBSET Options]
      BY <1>1, RecoveryAssumption DEF Init, Cleared, RecoveryMessage, Message
    <2>3. FlagsOK
      BY <1>1 DEF Init, RkInit, FlagsOK
    <2>4. RestOK
      BY <1>1, <2>1, <2>2, RecoveryAssumption DEF Init, RkInit, RestOK, Places, Content
    <2> QED
      BY <2>3, <2>4 DEF FlagsOK, RestOK, TypeOK, RkTypeOK
  <1> QED
    BY <1>1, TypeStep, PTL DEF Spec

----------------------------------------------------------------------------
\* What does not install leaves installing, or was never there.
LEMMA Calm ==
    ASSUME (pc = "install") <=> (step # "idle"), next \in {"menu", "restart"}, [Next]_vars,
           ~InstallStep, ~InstallCommand, ~MenuInstall, ~SdInstall, ~UNCHANGED vars
    PROVE  pc' # "install" /\ step' = "idle"
  <1> USE DEF rkVars, volatile, Jump, Stop, RkReset, Returned
  <1>1. CASE PowerLoss \/ Restart \/ InstallRestarts \/ RebootRecovery
    BY <1>1 DEF PowerLoss, Restart, InstallRestarts, RebootRecovery
  <1>2. CASE StartUp \/ GetArgs \/ Dispatch \/ UpdateBoards \/ PackageCommand \/ OtherCommand
    BY <1>2 DEF StartUp, GetArgs, Dispatch, UpdateBoards, PackageCommand, OtherCommand
  <1>3. CASE InstallReturns \/ MenuInstallReturns \/ SdInstallReturns
    BY <1>3 DEF InstallReturns, MenuInstallReturns, SdInstallReturns
  <1>4. CASE PackageBegins \/ PackageEnds
    BY <1>4 DEF PackageBegins, PackageEnds
  <1>5. CASE WipeDataBegins \/ WipeDataEnds \/ WipeRest \/ Verdict
    BY <1>5 DEF WipeDataBegins, WipeDataEnds, BeginWipe, EndWipe, WipeRest, Verdict
  <1>6. CASE FinishMisc \/ FinishFlag \/ FinishUnlink \/ Picked
    BY <1>6 DEF FinishMisc, FinishFlag, FinishUnlink, Picked
  <1>7. CASE MenuReboot \/ MenuWipe \/ MenuPackage \/ MenuRecover
    BY <1>7 DEF MenuReboot, MenuWipe, MenuPackage, MenuRecover
  <1>8. CASE PcbaTest \/ FormatBegins \/ FormatEnds \/ SdVerdict
    BY <1>8 DEF PcbaTest, FormatBegins, FormatEnds, BeginWipe, EndWipe, SdVerdict
  <1>9. CASE HandleAftermath \/ WriteCommand
    BY <1>9 DEF HandleAftermath, WriteCommand
  <1>10. ASSUME NEW r \in Requests, BootCommand(r) PROVE pc' # "install" /\ step' = "idle"
    BY <1>10 DEF BootCommand
  <1> QED
    BY <1>1, <1>2, <1>3, <1>4, <1>5, <1>6, <1>7, <1>8, <1>9, <1>10
       DEF Next, Running, Command, Installation, SdCommand, Finish, MainSystem, Menu

\* A step of the installation keeps what is behind it written.
LEMMA WalkStep ==
    ASSUME TypeOK, TypeOK', Walk, [Next]_vars
    PROVE  Walk'
  <1> USE DEF Walk
  <1>a. /\ disk \in [Partitions -> Content] /\ image \subseteq Items
        /\ next \in {"menu", "restart"}
    BY RkImageAssumption DEF TypeOK, RkTypeOK
  <1>1. CASE UNCHANGED vars
    BY <1>1 DEF vars, rkVars, recVars, volatile, Behind
  <1>2. CASE InstallCommand \/ MenuInstall \/ SdInstall
    BY <1>2 DEF InstallCommand, MenuInstall, SdInstall, Jump, Install, Behind
  <1>3. CASE InstallStep
    <2> USE <1>3, <1>a DEF InstallStep, recVars, Behind, GoTo, Return, Partitions, Items
    <2>1. CASE FindImage
      BY <2>1 DEF FindImage
    <2>2. CASE ParameterMatches
      BY <2>2 DEF ParameterMatches
    <2>3. CASE ParameterDiffers
      BY <2>3 DEF ParameterDiffers
    <2>4. CASE CheckParameter
      BY <2>4 DEF CheckParameter
    <2>5. ASSUME NEW p \in Partitions, MissingItem(p) PROVE Walk'
      BY <2>5 DEF MissingItem, Following
    <2>6. ASSUME NEW p \in Partitions, BeginWrite(p) PROVE Walk'
      BY <2>6 DEF BeginWrite
    <2>7. ASSUME NEW p \in Partitions, EndWrite(p) PROVE Walk'
      BY <2>7 DEF EndWrite
    <2>8. ASSUME NEW p \in Partitions, CheckWrite(p) PROVE Walk'
      BY <2>8 DEF CheckWrite, Following
    <2>9. CASE WriteMessage
      BY <2>9 DEF WriteMessage
    <2>10. CASE BeginLoader
      BY <2>10 DEF BeginLoader
    <2>11. CASE EndLoader
      BY <2>11 DEF EndLoader
    <2> QED
      BY <2>1, <2>2, <2>3, <2>4, <2>5, <2>6, <2>7, <2>8, <2>9, <2>10, <2>11 DEF RkStep
  <1>4. CASE /\ ~InstallStep /\ ~InstallCommand /\ ~MenuInstall /\ ~SdInstall
             /\ ~UNCHANGED vars
    <2>1. pc' # "install" /\ step' = "idle"
      BY <1>4, <1>a, Calm
    <2> QED
      BY <2>1 DEF Behind
  <1> QED
    BY <1>1, <1>2, <1>3, <1>4

\* A reported success is an installed image, for any image and any earlier attempts.
THEOREM InstallationTold == Spec => []SuccessMeansInstalled
  <1>1. ASSUME Init PROVE Walk
    BY <1>1 DEF Init, RkInit, Walk, Behind
  <1>2. ASSUME TypeOK, Walk PROVE SuccessMeansInstalled
    BY <1>2 DEF Walk, SuccessMeansInstalled, Behind, Partitions
  <1>3. TypeOK /\ TypeOK' /\ Walk /\ [Next]_vars => Walk'
    BY WalkStep
  <1> QED
    BY <1>1, <1>2, <1>3, RecoveryTypes, PTL DEF Spec

----------------------------------------------------------------------------
\* Where the device can be with which options, after a step.
LEMMA RoutesStep ==
    ASSUME TypeOK, TypeOK', Walk, Routes, [Next]_vars
    PROVE  Routes'
  <1> USE RecoveryAssumption DEF TypeOK, RkTypeOK, Routes, rkVars, volatile, process, wiped, ghosts, counts,
          recVars, MainPlaces, SdPlaces, WipePlaces, CommandPlaces, SdTool, SdToolWith, NoUpdate,
          WipeData, WipeAll, Installs, AutoCard
  <1>1. ASSUME NEW r \in Requests, BootCommand(r) PROVE Routes'
    BY <1>1 DEF BootCommand
  <1>2. CASE StartUp
    BY <1>2 DEF StartUp, Cleared, Message, ToRecovery
  <1>3. CASE HandleAftermath
    BY <1>3 DEF HandleAftermath
  <1>4. CASE WriteCommand
    BY <1>4 DEF WriteCommand
  <1>5. CASE RebootRecovery
    BY <1>5 DEF RebootRecovery, Stop, RkReset
  <1>6. CASE PowerLoss
    BY <1>6 DEF PowerLoss, Stop, RkReset
  <1>7. CASE GetArgs
    BY <1>7 DEF GetArgs, RecoveryMessage, Message
  <1>8. CASE Dispatch
    BY <1>8 DEF Dispatch, Jump
  <1>9. CASE UpdateBoards
    BY <1>9 DEF UpdateBoards, Jump
  <1>10. CASE InstallCommand
    BY <1>10 DEF InstallCommand, Jump, Install
  <1>11. CASE PackageCommand
    BY <1>11 DEF PackageCommand, Jump
  <1>12. CASE OtherCommand
    BY <1>12 DEF OtherCommand, Jump
  <1>13. CASE InstallRestarts
    BY <1>13 DEF InstallRestarts, Stop, RkReset
  <1>14. CASE InstallReturns
    BY <1>14 DEF InstallReturns, Jump, Returned, EraseCache, KeepCache, Partitions
  <1>15. CASE MenuInstallReturns
    BY <1>15 DEF MenuInstallReturns, Jump, Returned, Partitions
  <1>16. CASE SdInstallReturns
    BY <1>16 DEF SdInstallReturns, Jump, Returned, Partitions
  <1>17. CASE PackageBegins
    BY <1>17 DEF PackageBegins
  <1>18. CASE PackageEnds
    BY <1>18 DEF PackageEnds, EraseCache, KeepCache
  <1>19. CASE WipeDataBegins
    BY <1>19 DEF WipeDataBegins, BeginWipe, Jump
  <1>20. CASE WipeDataEnds
    BY <1>20 DEF WipeDataEnds, EndWipe, Jump
  <1>21. CASE WipeRest
    BY <1>21 DEF WipeRest, Jump, EraseCache, KeepCache
  <1>22. CASE Verdict
    BY <1>22 DEF Verdict, Jump
  <1>23. CASE FinishMisc
    BY <1>23 DEF FinishMisc, Jump, Cleared, Message
  <1>24. CASE FinishFlag
    BY <1>24 DEF FinishFlag, Jump
  <1>25. CASE FinishUnlink
    BY <1>25 DEF FinishUnlink, Jump
  <1>26. CASE Restart
    BY <1>26 DEF Restart, Stop, RkReset
  <1>27. CASE MenuReboot
    BY <1>27 DEF MenuReboot, Jump
  <1>28. CASE MenuWipe
    BY <1>28 DEF MenuWipe, Jump, Pick, EraseCache, KeepCache
  <1>29. CASE MenuPackage
    BY <1>29 DEF MenuPackage, Jump, Pick, RecoveryMessage, Message
  <1>30. CASE MenuInstall
    BY <1>30 DEF MenuInstall, Jump, Pick, RecoveryMessage, Message
  <1>31. CASE MenuRecover
    BY <1>31 DEF MenuRecover, Jump, Pick
  <1>32. CASE Picked
    BY <1>32 DEF Picked, Jump
  <1>33. CASE PcbaTest
    BY <1>33 DEF PcbaTest, Jump
  <1>34. CASE FormatBegins
    BY <1>34 DEF FormatBegins, BeginWipe, Jump
  <1>35. CASE FormatEnds
    BY <1>35 DEF FormatEnds, EndWipe, Jump
  <1>36. CASE SdInstall
    BY <1>36 DEF SdInstall, Jump, Install
  <1>37. CASE SdVerdict
    BY <1>37 DEF SdVerdict, Jump
  <1>38. CASE InstallStep /\ FindImage
    BY <1>38 DEF InstallStep, FindImage, Return, GoTo
  <1>39. CASE InstallStep /\ ParameterMatches
    BY <1>39 DEF InstallStep, ParameterMatches, GoTo
  <1>40. CASE InstallStep /\ ParameterDiffers
    BY <1>40 DEF InstallStep, ParameterDiffers
  <1>41. CASE InstallStep /\ CheckParameter
    BY <1>41 DEF InstallStep, CheckParameter, Return, GoTo, RecoveryMessage, Message
  <1>42. CASE InstallStep /\ WriteMessage
    BY <1>42 DEF InstallStep, WriteMessage, Return, GoTo, LoaderMessage, Message
  <1>43. CASE InstallStep /\ BeginLoader
    BY <1>43 DEF InstallStep, BeginLoader, Return
  <1>44. CASE InstallStep /\ EndLoader
    BY <1>44 DEF InstallStep, EndLoader, Return
  <1>45. ASSUME NEW p \in Partitions, InstallStep, MissingItem(p) PROVE Routes'
    BY <1>45 DEF InstallStep, MissingItem, GoTo, Return, Following
  <1>46. ASSUME NEW p \in Partitions, InstallStep, BeginWrite(p) PROVE Routes'
    BY <1>46 DEF InstallStep, BeginWrite, Return
  <1>47. ASSUME NEW p \in Partitions, InstallStep, EndWrite(p) PROVE Routes'
    BY <1>47 DEF InstallStep, EndWrite, Return
  <1>48. ASSUME NEW p \in Partitions, InstallStep, CheckWrite(p) PROVE Routes'
    <2>1. Following(p) \notin {"parameter", "restart"}
      BY DEF Following, Partitions
    <2>2. step' \notin {"parameter", "restart"}
      BY <1>48, <2>1 DEF InstallStep, CheckWrite, Return, GoTo
    <2> QED
      BY <1>48, <2>2 DEF InstallStep, CheckWrite, Return, GoTo
  <1>49. CASE UNCHANGED vars
    BY <1>49 DEF vars
  <1> QED
    BY <1>1, <1>2, <1>3, <1>4, <1>5, <1>6, <1>7, <1>8, <1>9, <1>10, <1>11, <1>12,
       <1>13, <1>14, <1>15, <1>16, <1>17, <1>18, <1>19, <1>20, <1>21, <1>22, <1>23, <1>24,
       <1>25, <1>26, <1>27, <1>28, <1>29, <1>30, <1>31, <1>32, <1>33, <1>34, <1>35, <1>36,
       <1>37, <1>38, <1>39, <1>40, <1>41, <1>42, <1>43, <1>44, <1>45, <1>46, <1>47, <1>48,
       <1>49
       DEF Next, Running, Command, Installation, InstallStep, RkStep, SdCommand, Finish,
       MainSystem, Menu

----------------------------------------------------------------------------
\* What an installation that goes on may leave half written, the next start writes.
LEMMA InstallResumed ==
    ASSUME TypeOK, Routes, Resumed, pc = "install", step \in Partitions \cup {"message"}
    PROVE  /\ boot = RecoveryMessage(args)
           /\ (image \cap Partitions) \ ParameterToo(fromCard) \subseteq Writes(boot.args)
  <1>1. boot = RecoveryMessage(args)
    BY DEF Resumed, Partitions
  <1>2. caller = "main" \/ caller = "sdtool"
    BY DEF TypeOK, Resumed
  <1>3. CASE caller = "sdtool"
    BY <1>1, <1>3 DEF Routes, SdTool, SdToolWith, RecoveryMessage, Message, Writes, ParameterToo
  <1>4. CASE caller = "main"
    BY <1>1, <1>4
       DEF Routes, SdTool, SdToolWith, RecoveryMessage, Message, Writes, ParameterToo, Installs,
           AutoCard
  <1> QED
    BY <1>1, <1>2, <1>3, <1>4

\* A step at a partition tears that partition and no other.
LEMMA PartitionResumed ==
    ASSUME TypeOK, Routes, Resumed, InstallStep, step \in Partitions,
           UNCHANGED <<image, fromCard, boot>>,
           \A q \in Partitions : disk'[q] = "torn" =>
               disk[q] = "torn" \/ (q = step /\ q \in image),
           step' \in Partitions \cup {"message", "done"}
    PROVE  Resumed'
  <1> DEFINE ToWrite == (image \cap Partitions) \ ParameterToo(fromCard)
  <1>1. boot = RecoveryMessage(args) /\ ToWrite \subseteq Writes(boot.args)
    BY InstallResumed DEF InstallStep
  <1>2. pc = "install" /\ pc' = "install" /\ UNCHANGED <<card, args, caller, command, userdata>>
    BY DEF InstallStep, recVars, wiped, process
  <1>3. step = "parameter" => fromCard
    BY <1>2 DEF Routes
  <1>4. TornPartitions' \subseteq ToWrite
    BY <1>2, <1>3 DEF Resumed, TornPartitions, ParameterToo
  <1>5. Writes(boot.args)' = Writes(boot.args) /\ ToWrite' = ToWrite
    BY <1>2 DEF Writes, SdToolWith, ParameterToo
  <1>6. SystemIsResumed'
    BY <1>1, <1>2, <1>4, <1>5 DEF SystemIsResumed, RecoveryMessage, Message, Resumed
  <1>7. boot' = RecoveryMessage(args)'
    BY <1>1, <1>2 DEF RecoveryMessage, Message
  <1> QED
    BY <1>2, <1>4, <1>5, <1>6, <1>7 DEF Resumed, CleanPlaces, MainPlaces, BusyPlaces, SdPlaces,
       CommandPlaces, WipePlaces

\* Which installations from main take the image on the card.
LEMMA CommandCard ==
    ASSUME InstallCommand
    PROVE  (fromCard' <=> (AutoCard \/ "external_sd" \in args)) /\ pc = "command" /\ pc' = "install"
  BY Zenon DEF InstallCommand, Jump, Install

\* An installation with everything behind it written has left nothing half written.
LEMMA Whole ==
    ASSUME TypeOK, Walk, Resumed, pc = "install",
           step = "message" \/ (step = "done" /\ result = 0)
    PROVE  ~SystemTorn
  <1>1. userdata # "torn" /\ TornPartitions \subseteq (image \cap Partitions) \ ParameterToo(fromCard)
    BY DEF Resumed
  <1>2. \A p \in image \cap Partitions : (p = "parameter" => fromCard) => disk[p] = "new"
    BY DEF Walk, Behind
  <1>3. TornPartitions = {}
    BY <1>1, <1>2 DEF TornPartitions, ParameterToo
  <1> QED
    BY <1>1, <1>3 DEF SystemTorn

\* What is half written after a step will be written by the next start.
LEMMA ResumedStep ==
    ASSUME TypeOK, TypeOK', Walk, Routes, excused \/ Resumed, [Next]_vars
    PROVE  excused' \/ Resumed'
  <1> USE RecoveryAssumption DEF TypeOK, RkTypeOK, Routes, rkVars, volatile, process, wiped, ghosts, counts,
          recVars, MainPlaces, SdPlaces, WipePlaces, CommandPlaces, SdTool, SdToolWith, NoUpdate,
          WipeData, WipeAll, Installs, AutoCard, Resumed, BusyPlaces, CleanPlaces, SystemIsResumed,
          SystemTorn, TornPartitions, Writes, Wipes, ParameterToo, RecoveryMessage, Message
  <1>1. ASSUME NEW r \in Requests, BootCommand(r) PROVE excused' \/ Resumed'
    BY <1>1 DEF BootCommand
  <1>2. CASE StartUp
    BY <1>2 DEF StartUp, Cleared, Message, ToRecovery
  <1>3. CASE HandleAftermath
    BY <1>3 DEF HandleAftermath
  <1>4. CASE WriteCommand
    BY <1>4 DEF WriteCommand
  <1>5. CASE RebootRecovery
    BY <1>5 DEF RebootRecovery, Stop, RkReset
  <1>6. CASE PowerLoss
    BY <1>6 DEF PowerLoss, Stop, RkReset
  <1>7. CASE GetArgs
    BY <1>7 DEF GetArgs, RecoveryMessage, Message
  <1>8. CASE Dispatch
    BY <1>8 DEF Dispatch, Jump
  <1>9. CASE UpdateBoards
    BY <1>9 DEF UpdateBoards, Jump
  <1>10. CASE InstallCommand
    <2>1. CASE excused
      BY <1>10, <2>1 DEF InstallCommand, Jump, Install
    <2>2. CASE ~excused
      <3>1. (fromCard' <=> (AutoCard \/ "external_sd" \in args)) /\ pc = "command" /\ pc' = "install"
        BY <1>10, CommandCard
      <3>2. UNCHANGED <<image, disk, boot, card, args, userdata, command, excused>> /\ caller' = "main"
            /\ step' = "find"
        BY <1>10 DEF InstallCommand, Jump, Install
      <3>3. TornPartitions' \subseteq ((image \cap Partitions) \ ParameterToo(fromCard))'
        BY <1>10, <2>2, <3>1, <3>2 DEF InstallCommand
      <3>4. userdata' # "torn"
        BY <1>10, <2>2, <3>1, <3>2 DEF InstallCommand
      <3> QED
        BY <2>2, <3>1, <3>2, <3>3, <3>4
    <2> QED
      BY <2>1, <2>2
  <1>11. CASE PackageCommand
    BY <1>11 DEF PackageCommand, Jump
  <1>12. CASE OtherCommand
    BY <1>12 DEF OtherCommand, Jump
  <1>13. CASE InstallRestarts
    BY <1>13 DEF InstallRestarts, Stop, RkReset
  <1>14. CASE InstallReturns
    <2>1. CASE excused \/ result # 0
      BY <1>14, <2>1 DEF InstallReturns, Jump, Returned, EraseCache, KeepCache
    <2>2. CASE ~excused /\ result = 0
      <3>1. ~SystemTorn
        BY <1>14, <2>2, Whole DEF InstallReturns, Jump, Returned
      <3>2. UNCHANGED <<image, disk, boot, card, args, userdata, caller>> /\ command' \in {command, {}}
            /\ pc' = "verdict"
        BY <1>14 DEF InstallReturns, Jump, Returned, EraseCache, KeepCache
      <3> QED
        BY <2>2, <3>1, <3>2
    <2> QED
      BY <2>1, <2>2
  <1>15. CASE MenuInstallReturns
    BY <1>15 DEF MenuInstallReturns, Jump, Returned
  <1>16. CASE SdInstallReturns
    <2>1. CASE excused \/ result # 0
      BY <1>16, <2>1 DEF SdInstallReturns, Jump, Returned
    <2>2. CASE ~excused /\ result = 0
      <3>1. ~SystemTorn
        BY <1>16, <2>2, Whole DEF SdInstallReturns, Jump, Returned
      <3>2. UNCHANGED <<image, disk, boot, card, args, userdata, caller, command>>
            /\ pc' = "sd_verdict"
        BY <1>16 DEF SdInstallReturns, Jump, Returned
      <3> QED
        BY <2>2, <3>1, <3>2
    <2> QED
      BY <2>1, <2>2
  <1>17. CASE PackageBegins
    <2>1. CASE excused \/ excused'
      BY <1>17, <2>1 DEF PackageBegins
    <2>2. CASE ~excused /\ ~excused'
      <3>1. /\ pc = "package" /\ pc' = "packaging" /\ disk' = [disk EXCEPT !["system"] = "torn"]
            /\ UNCHANGED <<image, boot, card, args, userdata, caller, command>>
        BY <1>17, <2>2 DEF PackageBegins
      <3>2. caller = "main" /\ ~SdTool /\ "update_package" \in args /\ boot = RecoveryMessage(args)
        BY <2>2, <3>1
      <3>3. Writes(boot.args) = {"system"} /\ Writes(boot.args)' = {"system"} /\ ~Wipes(boot.args)
        BY <3>1, <3>2
      <3>4. TornPartitions' \subseteq {"system"} /\ userdata # "torn"
        BY <2>2, <3>1, <3>3
      <3> QED
        BY <3>1, <3>2, <3>3, <3>4
    <2> QED
      BY <2>1, <2>2
  <1>18. CASE PackageEnds
    <2>1. CASE excused \/ excused'
      BY <1>18, <2>1 DEF PackageEnds
    <2>2. CASE ~excused /\ ~excused'
      <3>1. /\ pc = "packaging" /\ pc' = "verdict" /\ disk' = [disk EXCEPT !["system"] = "new"]
            /\ UNCHANGED <<image, boot, card, args, userdata, caller>> /\ command' \in {command, {}}
        BY <1>18, <2>2 DEF PackageEnds, EraseCache, KeepCache
      <3>2. caller = "main" /\ ~SdTool /\ "update_package" \in args /\ boot = RecoveryMessage(args)
        BY <2>2, <3>1
      <3>3. Writes(boot.args) = {"system"} /\ ~Wipes(boot.args)
        BY <3>2
      <3>4. TornPartitions' = {} /\ userdata # "torn"
        BY <2>2, <3>1, <3>3
      <3> QED
        BY <3>1, <3>2, <3>4
    <2> QED
      BY <2>1, <2>2
  <1>19. CASE WipeDataBegins
    BY <1>19 DEF WipeDataBegins, BeginWipe, Jump
  <1>20. CASE WipeDataEnds
    BY <1>20 DEF WipeDataEnds, EndWipe, Jump
  <1>21. CASE WipeRest
    BY <1>21 DEF WipeRest, Jump, EraseCache, KeepCache
  <1>22. CASE Verdict
    BY <1>22 DEF Verdict, Jump
  <1>23. CASE FinishMisc
    BY <1>23 DEF FinishMisc, Jump, Cleared, Message
  <1>24. CASE FinishFlag
    BY <1>24 DEF FinishFlag, Jump
  <1>25. CASE FinishUnlink
    BY <1>25 DEF FinishUnlink, Jump
  <1>26. CASE Restart
    BY <1>26 DEF Restart, Stop, RkReset
  <1>27. CASE MenuReboot
    BY <1>27 DEF MenuReboot, Jump
  <1>28. CASE MenuWipe
    BY <1>28 DEF MenuWipe, Jump, Pick, EraseCache, KeepCache
  <1>29. CASE MenuPackage
    BY <1>29 DEF MenuPackage, Jump, Pick, RecoveryMessage, Message
  <1>30. CASE MenuInstall
    BY <1>30 DEF MenuInstall, Jump, Pick, RecoveryMessage, Message
  <1>31. CASE MenuRecover
    BY <1>31 DEF MenuRecover, Jump, Pick
  <1>32. CASE Picked
    BY <1>32 DEF Picked, Jump
  <1>33. CASE PcbaTest
    BY <1>33 DEF PcbaTest, Jump
  <1>34. CASE FormatBegins
    BY <1>34 DEF FormatBegins, BeginWipe, Jump
  <1>35. CASE FormatEnds
    BY <1>35 DEF FormatEnds, EndWipe, Jump
  <1>36. CASE SdInstall
    BY <1>36 DEF SdInstall, Jump, Install
  <1>37. CASE SdVerdict
    BY <1>37 DEF SdVerdict, Jump
  <1>38. CASE InstallStep /\ FindImage
    BY <1>38 DEF InstallStep, FindImage, Return, GoTo
  <1>39. CASE InstallStep /\ ParameterMatches
    BY <1>39 DEF InstallStep, ParameterMatches, GoTo
  <1>40. CASE InstallStep /\ ParameterDiffers
    BY <1>40 DEF InstallStep, ParameterDiffers
  <1>41. CASE InstallStep /\ CheckParameter
    BY <1>41 DEF InstallStep, CheckParameter, Return, GoTo, RecoveryMessage, Message
  <1>42. CASE InstallStep /\ WriteMessage
    <2>1. CASE excused
      BY <1>42, <2>1 DEF InstallStep
    <2>2. CASE ~excused
      <3>1. ~SystemTorn
        BY <1>42, <2>2, Whole DEF InstallStep, WriteMessage
      <3>2. /\ UNCHANGED <<image, disk, fromCard, card, args, userdata, caller, command>>
            /\ pc = "install" /\ pc' = "install" /\ step' \in {"bootloader", "done"}
            /\ boot' \in {boot, LoaderMessage}
        BY <1>42 DEF InstallStep, WriteMessage, Return, GoTo
      <3> QED
        BY <2>2, <3>1, <3>2 DEF LoaderMessage
    <2> QED
      BY <2>1, <2>2
  <1>43. CASE InstallStep /\ BeginLoader
    BY <1>43 DEF InstallStep, BeginLoader, Return
  <1>44. CASE InstallStep /\ EndLoader
    BY <1>44 DEF InstallStep, EndLoader, Return
  <1>45. ASSUME NEW p \in Partitions, InstallStep, MissingItem(p) PROVE excused' \/ Resumed'
    <2>1. Following(p) \in Partitions \cup {"message"}
      BY DEF Following, Partitions
    <2>2. step \in Partitions /\ UNCHANGED <<image, fromCard, boot>>
      BY <1>45 DEF MissingItem
    <2>3. \A q \in Partitions : disk'[q] = "torn" =>
              disk[q] = "torn" \/ (q = step /\ q \in image)
      BY <1>45 DEF MissingItem
    <2>4. step' \in Partitions \cup {"message", "done"}
      BY <1>45, <2>1 DEF MissingItem, GoTo, Return
    <2> QED
      BY <1>45, <2>2, <2>3, <2>4, PartitionResumed DEF InstallStep
  <1>46. ASSUME NEW p \in Partitions, InstallStep, BeginWrite(p) PROVE excused' \/ Resumed'
    <2>2. step \in Partitions /\ UNCHANGED <<image, fromCard, boot>>
      BY <1>46 DEF BeginWrite
    <2>3. \A q \in Partitions : disk'[q] = "torn" =>
              disk[q] = "torn" \/ (q = step /\ q \in image)
      BY <1>46 DEF BeginWrite
    <2>4. step' \in Partitions \cup {"message", "done"}
      BY <1>46 DEF BeginWrite, Return
    <2> QED
      BY <1>46, <2>2, <2>3, <2>4, PartitionResumed DEF InstallStep
  <1>47. ASSUME NEW p \in Partitions, InstallStep, EndWrite(p) PROVE excused' \/ Resumed'
    <2>2. step \in Partitions /\ UNCHANGED <<image, fromCard, boot>>
      BY <1>47 DEF EndWrite
    <2>3. \A q \in Partitions : disk'[q] = "torn" =>
              disk[q] = "torn" \/ (q = step /\ q \in image)
      BY <1>47 DEF EndWrite
    <2>4. step' \in Partitions \cup {"message", "done"}
      BY <1>47 DEF EndWrite, Return
    <2> QED
      BY <1>47, <2>2, <2>3, <2>4, PartitionResumed DEF InstallStep
  <1>48. ASSUME NEW p \in Partitions, InstallStep, CheckWrite(p) PROVE excused' \/ Resumed'
    <2>1. Following(p) \in Partitions \cup {"message"}
      BY DEF Following, Partitions
    <2>2. step \in Partitions /\ UNCHANGED <<image, fromCard, boot>>
      BY <1>48 DEF CheckWrite
    <2>3. \A q \in Partitions : disk'[q] = "torn" =>
              disk[q] = "torn" \/ (q = step /\ q \in image)
      BY <1>48 DEF CheckWrite
    <2>4. step' \in Partitions \cup {"message", "done"}
      BY <1>48, <2>1 DEF CheckWrite, GoTo, Return
    <2> QED
      BY <1>48, <2>2, <2>3, <2>4, PartitionResumed DEF InstallStep
  <1>49. CASE UNCHANGED vars
    BY <1>49 DEF vars
  <1> QED
    BY <1>1, <1>2, <1>3, <1>4, <1>5, <1>6, <1>7, <1>8, <1>9, <1>10, <1>11, <1>12,
       <1>13, <1>14, <1>15, <1>16, <1>17, <1>18, <1>19, <1>20, <1>21, <1>22, <1>23, <1>24,
       <1>25, <1>26, <1>27, <1>28, <1>29, <1>30, <1>31, <1>32, <1>33, <1>34, <1>35, <1>36,
       <1>37, <1>38, <1>39, <1>40, <1>41, <1>42, <1>43, <1>44, <1>45, <1>46, <1>47, <1>48,
       <1>49
       DEF Next, Running, Command, Installation, InstallStep, RkStep, SdCommand, Finish,
       MainSystem, Menu

\* Every part of the invariant, together.
LEMMA InvHolds == Spec => []Inv
  <1>1. ASSUME Init PROVE Walk /\ Routes /\ Resumed
    <2>1. Walk
      BY <1>1 DEF Init, RkInit, Walk, Behind
    <2>2. /\ pc = "off" /\ step = "idle" /\ stage = "write" /\ caller = "main" /\ command = {}
          /\ boot = Cleared \/ (\E a \in FactoryBoot : boot = RecoveryMessage(a))
      BY <1>1 DEF Init, RkInit
    <2>3. ~SystemTorn
      BY <1>1 DEF Init, RkInit, SystemTorn, TornPartitions
    <2>4. Routes
      BY <2>2 DEF Routes, MainPlaces, SdPlaces, CommandPlaces, WipePlaces, Cleared,
         RecoveryMessage, Message, Partitions
    <2>5. Resumed
      BY <2>2, <2>3 DEF Resumed, SystemIsResumed, CleanPlaces, MainPlaces, BusyPlaces, SdPlaces,
         CommandPlaces, WipePlaces
    <2> QED
      BY <2>1, <2>4, <2>5
  <1>2. TypeOK /\ TypeOK' /\ Inv /\ [Next]_vars => Inv'
    BY WalkStep, RoutesStep, ResumedStep DEF Inv
  <1>3. ASSUME Init, TypeOK PROVE Inv
    BY <1>1, <1>3 DEF Inv
  <1> QED
    BY <1>2, <1>3, RecoveryTypes, PTL DEF Spec

\* A partition or user data half written when power fails is written again by the next
\* start, for any requests, images, cards and number of losses of power (recovery.cpp:163;
\* the loader's data is not: LoaderIsResumed).
THEOREM Restartable == Spec => []SystemIsResumed
  <1>1. Inv => SystemIsResumed
    BY DEF Inv, Resumed, SystemIsResumed
  <1> QED
    BY <1>1, InvHolds, PTL

\* The main system never runs on what is half written.
THEOREM MainWhole == Spec => []MainSystemIsWhole
  <1>1. Inv => MainSystemIsWhole
    BY DEF Inv, Resumed, MainSystemIsWhole, CleanPlaces, MainPlaces
  <1> QED
    BY <1>1, InvHolds, PTL

----------------------------------------------------------------------------
\* The loader that sdtool_main or main installs.
FreshPlaces == {"off", "booted", "idle", "write_command", "reboot_recovery", "get_args",
                "dispatch", "boards", "command"} \cup SdPlaces

\* From the installation to the restart the message of sdtool_main is there; main's
\* is gone with finish_recovery.
LoaderInv ==
    /\ pc \in FreshPlaces => ~bIfUpdateLoader /\ bNeedClearMisc
    /\ pc = "install" /\ caller = "main" => bNeedClearMisc
    /\ pc = "install" /\ step = "bootloader" => boot = LoaderMessage
    /\ caller = "sdtool" /\ bIfUpdateLoader =>
          /\ boot = LoaderMessage
          /\ pc \in {"install", "sd_verdict", "finish", "finish_flag", "unlink", "restart"}
          /\ pc = "install" => step = "done" /\ result = 0
          /\ pc = "sd_verdict" => status = "SUCCESS"
          /\ pc = "finish" => ~bNeedClearMisc
          /\ pc \in {"finish", "finish_flag", "unlink"} => next = "restart"
    /\ caller = "main" /\ bIfUpdateLoader =>
          /\ pc \in {"install", "verdict", "finish", "finish_flag", "unlink", "restart"}
          /\ pc = "install" => step = "done" /\ result = 0
          /\ pc = "verdict" => status = "SUCCESS"
          /\ pc \in {"verdict", "finish"} => bNeedClearMisc
          /\ pc \in {"finish", "finish_flag", "unlink"} => next = "restart"
          /\ pc \in {"finish_flag", "unlink", "restart"} => boot # LoaderMessage

\* A step at a partition is far from the message.
LEMMA PartitionKeepsLoader ==
    ASSUME TypeOK, LoaderInv, InstallStep, step \in Partitions,
           UNCHANGED <<boot, bIfUpdateLoader>>, step' # "bootloader"
    PROVE  LoaderInv'
  <1>1. pc = "install" /\ pc' = "install" /\ UNCHANGED <<caller, status, bNeedClearMisc, next>>
    BY DEF InstallStep, recVars, process
  <1>2. step # "done"
    BY DEF Partitions
  <1>3. caller # "menu" => ~bIfUpdateLoader
    BY <1>1, <1>2 DEF LoaderInv, TypeOK
  <1> QED
    BY <1>1, <1>3 DEF LoaderInv, FreshPlaces, SdPlaces

\* No step loses the message.
LEMMA LoaderStep ==
    ASSUME TypeOK, Walk, LoaderInv, [Next]_vars
    PROVE  LoaderInv'
  <1> USE RecoveryAssumption DEF TypeOK, RkTypeOK, LoaderInv, Walk, FreshPlaces, SdPlaces, rkVars,
          volatile, process, wiped, ghosts, counts, recVars
  <1>1. ASSUME NEW r \in Requests, BootCommand(r) PROVE LoaderInv'
    BY <1>1 DEF BootCommand
  <1>2. CASE StartUp
    BY <1>2 DEF StartUp
  <1>3. CASE HandleAftermath
    BY <1>3 DEF HandleAftermath
  <1>4. CASE WriteCommand
    BY <1>4 DEF WriteCommand
  <1>5. CASE RebootRecovery
    BY <1>5 DEF RebootRecovery, Stop, RkReset
  <1>6. CASE PowerLoss
    BY <1>6 DEF PowerLoss, Stop, RkReset
  <1>7. CASE GetArgs
    BY <1>7 DEF GetArgs, RecoveryMessage, Message
  <1>8. CASE Dispatch
    BY <1>8 DEF Dispatch, Jump
  <1>9. CASE UpdateBoards
    BY <1>9 DEF UpdateBoards, Jump
  <1>10. CASE InstallCommand
    BY <1>10 DEF InstallCommand, Jump, Install
  <1>11. CASE PackageCommand
    BY <1>11 DEF PackageCommand, Jump
  <1>12. CASE OtherCommand
    BY <1>12 DEF OtherCommand, Jump
  <1>13. CASE InstallRestarts
    BY <1>13 DEF InstallRestarts, Stop, RkReset
  <1>14. CASE InstallReturns
    BY <1>14 DEF InstallReturns, Jump, Returned
  <1>15. CASE MenuInstallReturns
    BY <1>15 DEF MenuInstallReturns, Jump, Returned
  <1>16. CASE SdInstallReturns
    BY <1>16 DEF SdInstallReturns, Jump, Returned
  <1>17. CASE PackageBegins
    BY <1>17 DEF PackageBegins
  <1>18. CASE PackageEnds
    BY <1>18 DEF PackageEnds
  <1>19. CASE WipeDataBegins
    BY <1>19 DEF WipeDataBegins, BeginWipe, Jump
  <1>20. CASE WipeDataEnds
    BY <1>20 DEF WipeDataEnds, EndWipe, Jump
  <1>21. CASE WipeRest
    BY <1>21 DEF WipeRest, Jump
  <1>22. CASE Verdict
    BY <1>22 DEF Verdict, Jump
  <1>23. CASE FinishMisc
    BY <1>23 DEF FinishMisc, Jump, Cleared, LoaderMessage, Message
  <1>24. CASE FinishFlag
    BY <1>24 DEF FinishFlag, Jump
  <1>25. CASE FinishUnlink
    BY <1>25 DEF FinishUnlink, Jump
  <1>26. CASE Restart
    BY <1>26 DEF Restart, Stop, RkReset
  <1>27. CASE MenuReboot
    BY <1>27 DEF MenuReboot, Jump
  <1>28. CASE MenuWipe
    BY <1>28 DEF MenuWipe, Jump, Pick, EraseCache, KeepCache
  <1>29. CASE MenuPackage
    BY <1>29 DEF MenuPackage, Jump, Pick
  <1>30. CASE MenuInstall
    BY <1>30 DEF MenuInstall, Jump, Pick
  <1>31. CASE MenuRecover
    BY <1>31 DEF MenuRecover, Jump, Pick
  <1>32. CASE Picked
    BY <1>32 DEF Picked, Jump
  <1>33. CASE PcbaTest
    BY <1>33 DEF PcbaTest, Jump
  <1>34. CASE FormatBegins
    BY <1>34 DEF FormatBegins, BeginWipe, Jump
  <1>35. CASE FormatEnds
    BY <1>35 DEF FormatEnds, EndWipe, Jump
  <1>36. CASE SdInstall
    BY <1>36 DEF SdInstall, Jump, Install
  <1>37. CASE SdVerdict
    BY <1>37 DEF SdVerdict, Jump
  <1>38. CASE InstallStep /\ FindImage
    BY <1>38 DEF InstallStep, FindImage, Return, GoTo
  <1>39. CASE InstallStep /\ ParameterMatches
    BY <1>39 DEF InstallStep, ParameterMatches, GoTo
  <1>40. CASE InstallStep /\ ParameterDiffers
    BY <1>40 DEF InstallStep, ParameterDiffers
  <1>41. CASE InstallStep /\ CheckParameter
    BY <1>41 DEF InstallStep, CheckParameter, Return, GoTo
  <1>42. CASE InstallStep /\ WriteMessage
    BY <1>42 DEF InstallStep, WriteMessage, Return, GoTo
  <1>43. CASE InstallStep /\ BeginLoader
    BY <1>43 DEF InstallStep, BeginLoader, Return
  <1>44. CASE InstallStep /\ EndLoader
    BY <1>44 DEF InstallStep, EndLoader, Return
  <1>45. ASSUME NEW p \in Partitions, InstallStep, MissingItem(p) PROVE LoaderInv'
    <2>1. Following(p) # "bootloader"
      BY DEF Following, Partitions
    <2>2. step \in Partitions /\ UNCHANGED <<boot, bIfUpdateLoader>> /\ step' # "bootloader"
      BY <1>45, <2>1 DEF MissingItem, GoTo, Return
    <2> QED
      BY <1>45, <2>2, PartitionKeepsLoader
  <1>46. ASSUME NEW p \in Partitions, InstallStep, BeginWrite(p) PROVE LoaderInv'
    <2>1. step \in Partitions /\ UNCHANGED <<boot, bIfUpdateLoader>> /\ step' # "bootloader"
      BY <1>46 DEF BeginWrite, Return, Partitions
    <2> QED
      BY <1>46, <2>1, PartitionKeepsLoader
  <1>47. ASSUME NEW p \in Partitions, InstallStep, EndWrite(p) PROVE LoaderInv'
    <2>1. step \in Partitions /\ UNCHANGED <<boot, bIfUpdateLoader>> /\ step' # "bootloader"
      BY <1>47 DEF EndWrite, Return, Partitions
    <2> QED
      BY <1>47, <2>1, PartitionKeepsLoader
  <1>48. ASSUME NEW p \in Partitions, InstallStep, CheckWrite(p) PROVE LoaderInv'
    <2>1. Following(p) # "bootloader"
      BY DEF Following, Partitions
    <2>2. step \in Partitions /\ UNCHANGED <<boot, bIfUpdateLoader>> /\ step' # "bootloader"
      BY <1>48, <2>1 DEF CheckWrite, Return, GoTo
    <2> QED
      BY <1>48, <2>2, PartitionKeepsLoader
  <1>49. CASE UNCHANGED vars
    BY <1>49 DEF vars
  <1> QED
    BY <1>1, <1>2, <1>3, <1>4, <1>5, <1>6, <1>7, <1>8, <1>9, <1>10, <1>11, <1>12, <1>13,
       <1>14, <1>15, <1>16, <1>17, <1>18, <1>19, <1>20, <1>21, <1>22, <1>23, <1>24,
       <1>25, <1>26, <1>27, <1>28, <1>29, <1>30, <1>31, <1>32, <1>33, <1>34, <1>35,
       <1>36, <1>37, <1>38, <1>39, <1>40, <1>41, <1>42, <1>43, <1>44, <1>45, <1>46,
       <1>47, <1>48, <1>49
       DEF Next, Running, Command, Installation, InstallStep, RkStep, SdCommand, Finish,
       MainSystem, Menu

\* sdtool_main restarts with the message for the loader it has installed still in
\* place, main without it, whatever ran before, for any requests, images, cards and
\* losses of power.
THEOREM LoaderTold == Spec => []SdToolKeepsMessage
  <1>1. Init => LoaderInv
    BY DEF Init, RkInit, LoaderInv, FreshPlaces, SdPlaces
  <1>2. TypeOK /\ Inv /\ LoaderInv /\ [Next]_vars => LoaderInv'
    BY LoaderStep DEF Inv
  <1>3. TypeOK /\ LoaderInv => SdToolKeepsMessage
    BY DEF TypeOK, LoaderInv, SdToolKeepsMessage
  <1> QED
    BY <1>1, <1>2, <1>3, RecoveryTypes, InvHolds, PTL DEF Spec

----------------------------------------------------------------------------
(* What was asked for has been done.                                         *)

\* One command at a time, as RecoverySystem.java asks; no factory test.
OneCommand ==
    \A r \in Requests :
        /\ "factory_mode" \notin r
        /\ ~({"update_package", "update_rkimage"} \subseteq r)
        /\ r \cap {"wipe_data", "wipe_all", "wipe_cache"} # {} =>
              r \cap {"update_package", "update_rkimage"} = {}

EndPlaces == {"verdict", "finish", "finish_flag", "unlink", "restart", "menu", "picked"}
BoardPlaces == {"command", "install", "package", "packaging"} \cup WipePlaces \cup EndPlaces
RunPlaces == {"dispatch", "boards"} \cup BoardPlaces

CardArgs == {"update_rkimage", "external_sd"}

\* The options a are those of the request, or what is left of it after a new
\* parameter partition.
Carried(a) ==
    \/ a = asked
    \/ /\ a = CardArgs /\ CardArgs \subseteq asked
       /\ "update_boards" \in asked => boards

AllDone ==
    /\ "update_rkimage" \in asked => \A p \in image \ {"parameter"} :
                                        p \in Partitions => disk[p] = "new"
    /\ "update_package" \in asked => disk["system"] = "new"
    /\ asked \cap {"wipe_data", "wipe_all"} # {} => userdata = "new"
    /\ asked \cap {"wipe_data", "wipe_all", "wipe_cache"} # {} => cache = "new"

\* A request of the main system never turns into a factory test.
NoFactory ==
    /\ asked = {} \/ asked \in Requests
    /\ command = {} \/ command = asked
    /\ asked # {} =>
          /\ card # "sdboot"
          /\ boot.command = "boot-recovery" => "factory_mode" \notin boot.args
          /\ "factory_mode" \notin args
    /\ pc \in {"off", "get_args"} \cup MainPlaces => args = {}

\* The request goes on from where it was.
Request ==
    /\ boot.command = "boot-recovery" => Carried(boot.args)
    /\ \/ pc = "reboot_recovery"
       \/ pc = "off" /\ reason = "recovery" /\ boot.command # "boot-recovery"
       \/ pc = "get_args" /\ boot.command # "boot-recovery"
       => command = asked
    /\ pc \in RunPlaces => Carried(args)
    /\ pc # "sd_verdict"
    /\ pc \in BoardPlaces /\ "update_boards" \in asked => boards
    /\ pc = "wipe_cache" /\ asked \cap {"wipe_data", "wipe_all"} # {} => userdata = "new"
    /\ pc \in EndPlaces /\ status = "SUCCESS" => AllDone

Pending == asked # {} /\ ~excused /\ card = "none"

DoneInv == NoFactory /\ (Pending => Request)

LEMMA DoneStep ==
    ASSUME OneCommand, TypeOK, Walk, Routes, excused \/ Resumed, DoneInv, [Next]_vars
    PROVE  DoneInv'
  <1> USE RecoveryAssumption DEF OneCommand, DoneInv, NoFactory, Pending, Request, Carried, CardArgs,
          AllDone, EndPlaces, BoardPlaces, RunPlaces, WipePlaces, MainPlaces, rkVars, volatile, process,
          wiped, ghosts, counts, recVars, RecoveryMessage, Message

  <1>1. ASSUME NEW r \in Requests, BootCommand(r) PROVE DoneInv'
    BY <1>1 DEF BootCommand, Routes
  <1>2. CASE StartUp
    BY <1>2 DEF StartUp, Cleared, ToRecovery
  <1>3. CASE HandleAftermath
    BY <1>3 DEF HandleAftermath
  <1>4. CASE WriteCommand
    BY <1>4 DEF WriteCommand
  <1>5. CASE RebootRecovery
    BY <1>5 DEF RebootRecovery, Stop, RkReset
  <1>6. CASE PowerLoss
    BY <1>6 DEF PowerLoss, Stop, RkReset
  <1>7. CASE GetArgs
    <2>1. boot.recovery = "recovery" <=> boot.command = "boot-recovery"
      BY DEF Routes
    <2>2. command = {} \/ command = asked
      OBVIOUS
    <2> QED
      BY <1>7, <2>1, <2>2 DEF GetArgs
  <1>8. CASE Dispatch
    BY <1>8 DEF Dispatch, Jump
  <1>9. CASE UpdateBoards
    BY <1>9 DEF UpdateBoards, Jump
  <1>10. CASE InstallCommand
    BY <1>10 DEF InstallCommand, Jump, Install
  <1>11. CASE PackageCommand
    BY <1>11 DEF PackageCommand, Jump
  <1>12. CASE OtherCommand
    BY <1>12 DEF OtherCommand, Jump, NoUpdate, WipeData, WipeAll, WipeCache
  <1>13. CASE InstallRestarts
    <2>1. ~excused => boot.command = "boot-recovery"
      BY <1>13 DEF InstallRestarts, Resumed
    <2> QED
      BY <1>13, <2>1 DEF InstallRestarts, Stop, RkReset
  <1>14. CASE InstallReturns
    <2>1. /\ pc = "install" /\ pc' = "verdict" /\ command' \in {command, {}}
          /\ UNCHANGED <<image, disk, boot, asked, card, boards, args, userdata>>
          /\ excused' <=> (excused \/ result # 0)
          /\ status' = "SUCCESS" => result = 0
      BY <1>14 DEF InstallReturns, Jump, Returned, EraseCache, KeepCache
    <2>2. Pending => "update_rkimage" \in asked
      BY <1>14 DEF InstallReturns, Jump, Routes, Installs, AutoCard
    <2>3. result = 0 => \A p \in image \ {"parameter"} : p \in Partitions => disk[p] = "new"
      BY <1>14 DEF InstallReturns, Returned, Walk, Behind, Partitions
    <2> QED
      BY <2>1, <2>2, <2>3
  <1>15. CASE MenuInstallReturns
    BY <1>15 DEF MenuInstallReturns, Jump, Returned, Resumed
  <1>16. CASE SdInstallReturns
    <2>1. ~Pending
      BY <1>16 DEF SdInstallReturns, Jump, Routes, SdTool, SdToolWith
    <2> QED
      BY <1>16, <2>1 DEF SdInstallReturns, Jump, Returned
  <1>17. CASE PackageBegins
    BY <1>17 DEF PackageBegins
  <1>18. CASE PackageEnds
    <2>1. /\ pc = "packaging" /\ pc' \in {"picked", "verdict"} /\ command' \in {command, {}}
          /\ UNCHANGED <<image, boot, asked, card, boards, args, userdata>>
          /\ excused => excused'
      BY <1>18 DEF PackageEnds, EraseCache, KeepCache
    <2>2. Pending => "update_package" \in args
      BY <1>18 DEF PackageEnds, Routes, Resumed, TypeOK
    <2>3. Pending => args = asked
      BY <2>1, <2>2
    <2>4. excused' \/ (disk' = [disk EXCEPT !["system"] = "new"])
      BY <1>18 DEF PackageEnds
    <2>5. Pending' => disk'["system"] = "new"
      BY <2>4 DEF TypeOK, RkTypeOK, Partitions
    <2>6. Pending' /\ Pending => AllDone'
      BY <2>1, <2>2, <2>3, <2>5
    <2> QED
      BY <2>1, <2>6
  <1>19. CASE WipeDataBegins
    BY <1>19 DEF WipeDataBegins, BeginWipe, Jump
  <1>20. CASE WipeDataEnds
    BY <1>20 DEF WipeDataEnds, EndWipe, Jump
  <1>21. CASE WipeRest
    <2>1. /\ pc = "wipe_cache" /\ pc' = "verdict" /\ command' \in {command, {}}
          /\ UNCHANGED <<image, disk, boot, asked, card, boards, args, userdata>>
          /\ excused => excused'
          /\ cache' = "new" \/ excused'
      BY <1>21 DEF WipeRest, Jump, EraseCache, KeepCache
    <2>2. Pending => args \cap {"update_rkimage", "update_package"} = {}
      BY <1>21, <2>1 DEF Routes, NoUpdate
    <2>3. Pending => args = asked
      BY <2>1, <2>2
    <2>4. Pending /\ asked \cap {"wipe_data", "wipe_all"} # {} => userdata = "new"
      BY <2>1
    <2>5. Pending /\ Pending' => AllDone'
      BY <2>1, <2>2, <2>3, <2>4
    <2> QED
      BY <2>1, <2>5
  <1>22. CASE Verdict
    BY <1>22 DEF Verdict, Jump
  <1>23. CASE FinishMisc
    BY <1>23 DEF FinishMisc, Jump, Cleared
  <1>24. CASE FinishFlag
    BY <1>24 DEF FinishFlag, Jump
  <1>25. CASE FinishUnlink
    BY <1>25 DEF FinishUnlink, Jump, TypeOK
  <1>26. CASE Restart
    <2>1. asked # {} => card' = card
      BY <1>26 DEF Restart, SdTool, SdToolWith
    <2> QED
      BY <1>26, <2>1 DEF Restart, Stop, RkReset
  <1>27. CASE MenuReboot
    BY <1>27 DEF MenuReboot, Jump
  <1>28. CASE MenuWipe
    BY <1>28 DEF MenuWipe, Jump, Pick, EraseCache, KeepCache
  <1>29. CASE MenuPackage
    BY <1>29 DEF MenuPackage, Jump, Pick
  <1>30. CASE MenuInstall
    BY <1>30 DEF MenuInstall, Jump, Pick
  <1>31. CASE MenuRecover
    BY <1>31 DEF MenuRecover, Jump, Pick
  <1>32. CASE Picked
    BY <1>32 DEF Picked, Jump
  <1>33. CASE PcbaTest
    BY <1>33 DEF PcbaTest, Jump
  <1>34. CASE FormatBegins
    BY <1>34 DEF FormatBegins, BeginWipe, Jump
  <1>35. CASE FormatEnds
    <2>1. ~Pending
      BY <1>35 DEF FormatEnds, EndWipe, Jump, Routes, SdTool, SdToolWith, SdPlaces
    <2> QED
      BY <1>35, <2>1 DEF FormatEnds, EndWipe, Jump
  <1>36. CASE SdInstall
    <2>1. ~Pending
      BY <1>36 DEF SdInstall, Jump, Routes, SdTool, SdToolWith, SdPlaces
    <2> QED
      BY <1>36, <2>1 DEF SdInstall, Jump, Install
  <1>37. CASE SdVerdict
    BY <1>37 DEF SdVerdict, Jump
  <1>38. CASE InstallStep /\ FindImage
    BY <1>38 DEF InstallStep, FindImage, Return, GoTo
  <1>39. CASE InstallStep /\ ParameterMatches
    BY <1>39 DEF InstallStep, ParameterMatches, GoTo
  <1>40. CASE InstallStep /\ ParameterDiffers
    BY <1>40 DEF InstallStep, ParameterDiffers
  <1>41. CASE InstallStep /\ CheckParameter
    <2>1. step = "parameter" /\ pc = "install" /\ (Pending => caller # "menu")
      BY <1>41 DEF InstallStep, CheckParameter, Resumed
    <2>2. Pending => "update_rkimage" \in args /\ "external_sd" \in args
      BY <2>1 DEF Routes, Installs, AutoCard, SdTool, SdToolWith, TypeOK
    <2>3. Pending => CardArgs \subseteq asked /\ ("update_boards" \in asked => boards)
      BY <2>1, <2>2
    <2> QED
      BY <1>41, <2>3 DEF InstallStep, CheckParameter, Return, GoTo
  <1>42. CASE InstallStep /\ WriteMessage
    BY <1>42 DEF InstallStep, WriteMessage, Return, GoTo, LoaderMessage
  <1>43. CASE InstallStep /\ BeginLoader
    BY <1>43 DEF InstallStep, BeginLoader, Return
  <1>44. CASE InstallStep /\ EndLoader
    BY <1>44 DEF InstallStep, EndLoader, Return
  <1>45. ASSUME NEW p \in Partitions, InstallStep, MissingItem(p) PROVE DoneInv'
    BY <1>45 DEF InstallStep, MissingItem, GoTo, Return, Following
  <1>46. ASSUME NEW p \in Partitions, InstallStep, BeginWrite(p) PROVE DoneInv'
    BY <1>46 DEF InstallStep, BeginWrite, Return
  <1>47. ASSUME NEW p \in Partitions, InstallStep, EndWrite(p) PROVE DoneInv'
    BY <1>47 DEF InstallStep, EndWrite, Return
  <1>48. ASSUME NEW p \in Partitions, InstallStep, CheckWrite(p) PROVE DoneInv'
    BY <1>48 DEF InstallStep, CheckWrite, Return, GoTo, Following
  <1>49. CASE UNCHANGED vars
    BY <1>49 DEF vars
  <1> QED
    BY <1>1, <1>2, <1>3, <1>4, <1>5, <1>6, <1>7, <1>8, <1>9, <1>10, <1>11, <1>12, <1>13,
       <1>14, <1>15, <1>16, <1>17, <1>18, <1>19, <1>20, <1>21, <1>22, <1>23, <1>24,
       <1>25, <1>26, <1>27, <1>28, <1>29, <1>30, <1>31, <1>32, <1>33, <1>34, <1>35,
       <1>36, <1>37, <1>38, <1>39, <1>40, <1>41, <1>42, <1>43, <1>44, <1>45, <1>46,
       <1>47, <1>48, <1>49
       DEF Next, Running, Command, Installation, InstallStep, RkStep, SdCommand, Finish,
       MainSystem, Menu

\* When main restarts with SUCCESS, what was asked for has been done, for any requests of
\* one command, any images, cards and losses of power.
THEOREM RequestDone ==
    ASSUME OneCommand
    PROVE  Spec => []SuccessMeansDone
  <1>1. Init => DoneInv
    BY DEF Init, RkInit, DoneInv, NoFactory, Pending
  <1>2. TypeOK /\ Inv /\ DoneInv /\ [Next]_vars => DoneInv'
    BY DoneStep, OneCommand DEF Inv
  <1>3. DoneInv => SuccessMeansDone
    BY DEF DoneInv, Pending, Request, AllDone, SuccessMeansDone, EndPlaces, BoardPlaces
  <1> QED
    BY <1>1, <1>2, <1>3, RecoveryTypes, InvHolds, PTL DEF Spec

----------------------------------------------------------------------------
(* A request is not carried out again.                                       *)

\* Once its boot message is gone, what could start it again goes with the next start of
\* the main system, and a later boot message is one of the menu.
NotAgain ==
    /\ pc \notin {"write_command", "reboot_recovery"}
    /\ command # {} =>
          pc \in {"finish_flag", "unlink", "off", "booted"} /\ boot.command # "boot-recovery"
    /\ boot.command = "boot-recovery" => boot.args \in {{}, CardArgs}
    /\ (pc = "off" /\ reason = "recovery") \/ pc = "get_args" => boot.command = "boot-recovery"
    /\ pc = "dispatch" => args \in {{}, CardArgs}

OnceInv ==
    /\ asked # {} => card # "sdboot"
    /\ pc \in {"dispatch", "boards", "command"} \cup SdPlaces => boot.command = "boot-recovery"
    /\ pc = "install" /\ step \notin {"bootloader", "done"} => boot.command = "boot-recovery"
    /\ finished /\ asked # {} => NotAgain

LEMMA OnceStep ==
    ASSUME TypeOK, Walk, Routes, OnceInv, [Next]_vars
    PROVE  OnceInv'
  <1> USE RecoveryAssumption DEF OnceInv, NotAgain, CardArgs, SdPlaces, Walk, rkVars, volatile, process, wiped,
          ghosts, counts, recVars, RecoveryMessage, Message

  <1>1. ASSUME NEW r \in Requests, BootCommand(r) PROVE OnceInv'
    BY <1>1 DEF BootCommand, Routes, MainPlaces
  <1>2. CASE StartUp
    BY <1>2 DEF StartUp, Cleared, ToRecovery
  <1>3. CASE HandleAftermath
    BY <1>3 DEF HandleAftermath
  <1>4. CASE WriteCommand
    BY <1>4 DEF WriteCommand
  <1>5. CASE RebootRecovery
    BY <1>5 DEF RebootRecovery, Stop, RkReset
  <1>6. CASE PowerLoss
    BY <1>6 DEF PowerLoss, Stop, RkReset
  <1>7. CASE GetArgs
    BY <1>7 DEF GetArgs
  <1>8. CASE Dispatch
    BY <1>8 DEF Dispatch, Jump
  <1>9. CASE UpdateBoards
    BY <1>9 DEF UpdateBoards, Jump
  <1>10. CASE InstallCommand
    BY <1>10 DEF InstallCommand, Jump, Install
  <1>11. CASE PackageCommand
    BY <1>11 DEF PackageCommand, Jump
  <1>12. CASE OtherCommand
    BY <1>12 DEF OtherCommand, Jump
  <1>13. CASE InstallRestarts
    BY <1>13 DEF InstallRestarts, Stop, RkReset
  <1>14. CASE InstallReturns
    <2>1. command' \in {command, {}}
      BY <1>14 DEF InstallReturns, EraseCache, KeepCache
    <2> QED
      BY <1>14, <2>1 DEF InstallReturns, Jump, Returned
  <1>15. CASE MenuInstallReturns
    BY <1>15 DEF MenuInstallReturns, Jump, Returned
  <1>16. CASE SdInstallReturns
    BY <1>16 DEF SdInstallReturns, Jump, Returned
  <1>17. CASE PackageBegins
    BY <1>17 DEF PackageBegins
  <1>18. CASE PackageEnds
    <2>1. command' \in {command, {}}
      BY <1>18 DEF PackageEnds, EraseCache, KeepCache
    <2> QED
      BY <1>18, <2>1 DEF PackageEnds
  <1>19. CASE WipeDataBegins
    BY <1>19 DEF WipeDataBegins, BeginWipe, Jump
  <1>20. CASE WipeDataEnds
    BY <1>20 DEF WipeDataEnds, EndWipe, Jump
  <1>21. CASE WipeRest
    <2>1. command' \in {command, {}}
      BY <1>21 DEF WipeRest, EraseCache, KeepCache
    <2> QED
      BY <1>21, <2>1 DEF WipeRest, Jump
  <1>22. CASE Verdict
    BY <1>22 DEF Verdict, Jump
  <1>23. CASE FinishMisc
    BY <1>23 DEF FinishMisc, Jump, Cleared, TypeOK
  <1>24. CASE FinishFlag
    BY <1>24 DEF FinishFlag, Jump
  <1>25. CASE FinishUnlink
    BY <1>25 DEF FinishUnlink, Jump, TypeOK
  <1>26. CASE Restart
    BY <1>26 DEF Restart, Stop, RkReset
  <1>27. CASE MenuReboot
    BY <1>27 DEF MenuReboot, Jump
  <1>28. CASE MenuWipe
    BY <1>28 DEF MenuWipe, Jump, Pick, EraseCache, KeepCache
  <1>29. CASE MenuPackage
    BY <1>29 DEF MenuPackage, Jump, Pick
  <1>30. CASE MenuInstall
    BY <1>30 DEF MenuInstall, Jump, Pick
  <1>31. CASE MenuRecover
    BY <1>31 DEF MenuRecover, Jump, Pick
  <1>32. CASE Picked
    BY <1>32 DEF Picked, Jump
  <1>33. CASE PcbaTest
    BY <1>33 DEF PcbaTest, Jump
  <1>34. CASE FormatBegins
    BY <1>34 DEF FormatBegins, BeginWipe, Jump
  <1>35. CASE FormatEnds
    BY <1>35 DEF FormatEnds, EndWipe, Jump
  <1>36. CASE SdInstall
    BY <1>36 DEF SdInstall, Jump, Install
  <1>37. CASE SdVerdict
    BY <1>37 DEF SdVerdict, Jump
  <1>38. CASE InstallStep /\ FindImage
    BY <1>38 DEF InstallStep, FindImage, Return, GoTo
  <1>39. CASE InstallStep /\ ParameterMatches
    BY <1>39 DEF InstallStep, ParameterMatches, GoTo
  <1>40. CASE InstallStep /\ ParameterDiffers
    BY <1>40 DEF InstallStep, ParameterDiffers
  <1>41. CASE InstallStep /\ CheckParameter
    BY <1>41 DEF InstallStep, CheckParameter, Return, GoTo
  <1>42. CASE InstallStep /\ WriteMessage
    BY <1>42 DEF InstallStep, WriteMessage, Return, GoTo, LoaderMessage
  <1>43. CASE InstallStep /\ BeginLoader
    BY <1>43 DEF InstallStep, BeginLoader, Return
  <1>44. CASE InstallStep /\ EndLoader
    BY <1>44 DEF InstallStep, EndLoader, Return
  <1>45. ASSUME NEW p \in Partitions, InstallStep, MissingItem(p) PROVE OnceInv'
    BY <1>45 DEF InstallStep, MissingItem, GoTo, Return, Following
  <1>46. ASSUME NEW p \in Partitions, InstallStep, BeginWrite(p) PROVE OnceInv'
    BY <1>46 DEF InstallStep, BeginWrite, Return
  <1>47. ASSUME NEW p \in Partitions, InstallStep, EndWrite(p) PROVE OnceInv'
    BY <1>47 DEF InstallStep, EndWrite, Return
  <1>48. ASSUME NEW p \in Partitions, InstallStep, CheckWrite(p) PROVE OnceInv'
    <2>1. Following(p) # "restart"
      BY DEF Following, Partitions
    <2>2. UNCHANGED boot /\ step' # "restart"
      BY <1>48, <2>1 DEF CheckWrite, Return, GoTo
    <2>3. step \notin {"bootloader", "done"}
      BY <1>48 DEF CheckWrite, Partitions
    <2> QED
      BY <1>48, <2>2, <2>3 DEF InstallStep
  <1>49. CASE UNCHANGED vars
    BY <1>49 DEF vars
  <1> QED
    BY <1>1, <1>2, <1>3, <1>4, <1>5, <1>6, <1>7, <1>8, <1>9, <1>10, <1>11, <1>12, <1>13,
       <1>14, <1>15, <1>16, <1>17, <1>18, <1>19, <1>20, <1>21, <1>22, <1>23, <1>24,
       <1>25, <1>26, <1>27, <1>28, <1>29, <1>30, <1>31, <1>32, <1>33, <1>34, <1>35,
       <1>36, <1>37, <1>38, <1>39, <1>40, <1>41, <1>42, <1>43, <1>44, <1>45, <1>46,
       <1>47, <1>48, <1>49
       DEF Next, Running, Command, Installation, InstallStep, RkStep, SdCommand, Finish,
       MainSystem, Menu

\* finish_recovery ends a request for good: for any requests, images, cards, picks from
\* the menu and losses of power, also between its two files.
THEOREM CarriedOutOnce == Spec => NotCarriedOutTwice
  <1> DEFINE Once == (pc = "dispatch" /\ pc' # "off" /\ args # {} /\ args = asked) =>
                         ~finished \/ "external_sd" \in asked
  <1>1. Init => OnceInv
    BY DEF Init, RkInit, OnceInv, SdPlaces
  <1>2. TypeOK /\ Inv /\ OnceInv /\ [Next]_vars => OnceInv'
    BY OnceStep DEF Inv
  <1>3. OnceInv /\ [Next]_vars => [Once]_vars
    BY DEF OnceInv, NotAgain, CardArgs
  <1>4. Spec => [][Once]_vars
    BY <1>1, <1>2, <1>3, RecoveryTypes, InvHolds, PTL DEF Spec
  <1> QED
    BY <1>4 DEF NotCarriedOutTwice

=============================================================================
