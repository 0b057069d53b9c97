# Verification of the robot OTA update

TLA+ models of the over-the-air update of this repository, the TLC runs that
check them on small instances, and the theorems TLAPS proves about them.

## 1. The system

An Android application finds, downloads and unpacks an update and reboots into
the recovery system. Recovery updates the robot's boards over a CAN bus, then
installs the firmware image, and boots the main system again.

| Component | Source | State it keeps | Operations | Interacts with |
|---|---|---|---|---|
| CAN framing | `robot_update/flexcan.cpp`, `flexcan.h` | the socket | `flexcan_send`, `flexcan_recv`, open, close | the socket; called by rmCAN |
| CAN packet layer | `robot_update/rmCAN.cpp` | `g_PacketsId`, `InCompletePackets`, `RecvList` | `sendToCan`, `recvFromCan`, `popFromRecvList` | framing below, `sendCANData`/`readCANData` above |
| CAN device and receive thread | `robot_update/rmCAN.cpp` | `sock_fd`, `g_flag`, `list_mutex`, the thread | `openCANDevice`, `closeCANDevice`, `thread_recv` | shares all of it between two threads |
| Robot module update | `robotUpdate.cpp` | the position in the image, attempts left, the current module | `robotSubSysUpdate`, `upgrade`, the eight exchanges | the boards, through the packet layer |
| Hex image | `robot_update/Image.cpp`, `Image.h` | the list of elements, the bases in force | `LoadHex`, `CompactElements` | called by `upgrade` |
| CRC-16 | `robot_update/crc16.cpp` | none | `crc16` | called by `upgrade` for each chunk |
| Recovery main program | `recovery.cpp` | boot message, command file, `bNeedClearMisc`, status | `get_args`, `main`, `finish_recovery`, `sdtool_main` | boot loader, `/cache`, installers |
| Firmware image | `rkimage.cpp` | partitions, loader message | `install_rkimage`, `CheckImageFile`, `write_image`, `image_compare` | called by recovery |
| RecoverySystem | `RecoverySystem.java` | the command file | `installPackages`, `bootCommand`, `handleAftermath` | written by the app, read by recovery |
| OTA update service | `OTAUpdateService.java`, `UpdateStatus.java` | status, URL, MD5, `mError`, `mQueryThrad`, `mICallback` | query, download, install | threads: timer, query, MD5, install, and the main looper, on which the binder calls run |
| Download manager of the app | `OTADownloadMgr.java` | `mDwloadId`, the stored id, the observer | `download`, `queryDownload`, `downloadSuccess`, `downloadFailed` | the system's download manager; called by the main and the query threads |
| User interface | `OTAUpdateActivity.java`, the views | the view, two buttons | `onResume`, `onStop`, `handleResponse`, the binder calls | the service, in the same process |
| Utilities, boot receiver | `Util.java`, `ConstValue.java`, `BootReceiver.java` | none | `getFileMD5`, `unzipFile` | called by the installation thread |
| Linux CAN core | `dev.c` | vendored driver code | - | - |

What is hard about it, and where the properties aim (`hazards` in
`PROJECT.json` has each of them at its line):

- *Delivery.* Frames are lost, sends fail half way, ids of eight bits are reused,
  boards interleave, answers arrive after the attempt they answer was given up.
- *Retries.* Three nested loops share counters; repeating a step must not undo
  or repeat what a board already did.
- *Threads.* The receive thread is started before what it shares is set up, and
  is stopped by a flag it writes itself.
- *Crashes* between the boot message, the command file and the partitions
  (recovery), and between a download and the record of it (the app).
- *Shared status* of the app, written by five threads without a lock.

## 2. Modules

| Module | Models | Correctness |
|---|---|---|
| `FlexCan` | one packet through `flexcan_send` and `flexcan_recv` | packets survive the framing |
| `HexImage` | `LoadHex` and `CompactElements` over a firmware file | the image holds what the file says |
| `Crc16` | `crc16` over a chunk and over what arrives of it | garbled chunks have another checksum |
| `ImageCopy` | the loops of `write_image` and `image_compare` | equal means all of it, and what was written is found equal |
| `RmCan` | fragments between any number of sources and this node | packets are whole, in order, not mixed |
| `PacketLink` | the promise of the packet layer: a lossy in-order channel | abstract specification of `RmCan` |
| `RmCanLink` (extends `RmCan`) | `RmCan` with the packets in flight remembered | implements `PacketLink` |
| `CanDevice` | open, session and close against the receive thread | shared state is used only while alive; the close returns |
| `RobotUpdate` | the update protocol and the boards | a reported success is a flashed image |
| `ModuleUpdate` | what the update promises of the modules' firmware | abstract specification of `RobotUpdate` |
| `RkImage` | `install_rkimage` over the partitions | a reported success is an installed image |
| `Recovery` (extends `RkImage`) | `recovery.cpp`, the command file's writer, the boot loader's choice, loss of power | half-written partitions and user data are written again; nothing is done twice |
| `OtaDownload` | `OTADownloadMgr.java` over the system's download manager and the files | (checked in `OtaService`) |
| `OtaService` (extends `OtaDownload`) | the service's threads, the activity, the process's death | no download is lost, only whole packages are installed, the user can go on |
| `ConversionsMC`, `RmCanMC`, `RobotUpdateMC`, `RecoveryMC`, `OtaMC` | instances for TLC | |
| `HexImageProofs`, `ConversionsProofs` (of `FlexCan`, `Crc16` and `ImageCopy`), `CanDeviceProofs`, `RmCanProofs`, `RmCanLinkProofs`, `RobotUpdateProofs`, `RecoveryProofs`, `OtaServiceProofs` | theorems | |

Operators whose name has an underscore and a suffix and whose comment begins
with "Mutant" are faulty variants of the definition they precede. No
specification uses them; substituting one for the definition it imitates makes
a property fail, which shows that the property depends on the code.

### FlexCan

`Packets` are the packets a caller hands over. `Send` frames the packet
(`flexcan_send`, its length checks are `Sendable`), `Recv` unframes it
(`flexcan_recv`, whose check is `Readable`). Masks and shifts are divisions,
remainders and products. `ConversionsMC` enumerates boundary values of every
field and lengths on both sides of every check: each instance is independent of
the others, so boundaries are all there is to try, and the theorems cover the
rest.

### HexImage

A file is a sequence of lines, each with its type, address, data and check sum as
numbers; how characters become numbers is left out. `pc` is the part of `LoadHex`
that runs, `n` the next line, later the iterator of `CompactElements`. `ReadData`,
`ReadBase`, `ReadStart`, `ReadEnd` and `Refuse` are the branches for a line,
`Sort`, `Compact` and `Compacted` the statements of `CompactElements`. `sort` may
leave elements with equal addresses in any order. An iterator that has left the
vector is undefined behaviour: one step leads to the place `undefined`, where
anything may be in the image. `LoadedIsFile` compares the image with what the file
format says (`FileBytes`), which is written without reference to the reader.

### Crc16

A byte and a register are sets of bits, so that a step of the shift register is a
set operation and the argument of section 6 needs no arithmetic modulo 2^16. Two
calculations run in step, one over the chunk that was sent (`CRC`) and one over
what arrived of it (`theirs`); `i` and `j` are the loop counters. `BurstIsNoticed` is
about damage within two neighbouring bytes. `RobotUpdate` assumes more: there a chunk
stands for its own checksum although its garbled chunks are fragments of two packets
put together, any number of bytes of which differ. That such a mixture has another
checksum is an assumption of `RobotUpdate`, not a consequence of `BurstIsNoticed`.

### ImageCopy

One item of the firmware image and the partition it goes to. `done` is how far the
item is read, `pos` how far the partition; `dest_remain` is the variable of that
name, `call` the function that runs or what it has returned ("unread": the
partition or the image could not be read, "failed": the installation ends).
`WriteBlock` is one turn of the loop of `write_image`: it reads what is left of the
item but at most a block, fills the rest with zeros, and writes a whole block, for
the parameter partition at four places. `CompareBlock` is one turn of the loop of
`image_compare`, which reads a whole block of the partition even for the last of
the item and compares what the item has. `Update` is the call of `write_image` after
the first comparison of the parameters. `recover_backup` makes the same two calls as
`install_rkimage` does for an ordinary partition. `RkImage` takes both functions as
single steps that leave a part, the whole or something else: `EqualIsWhole` is what
its `CheckWrite` relies on.

### RmCan

Per source `s`: `out[s]` is what `sendToCan` has still to write, `bus[s]` the
CAN queue of its frames, `InCompletePackets[s][id]` the fragments collected. A
frame carries `of`, the serial number of the packet its bytes come from; it is a
history field no guard reads. `last` and `skipped` are history, too: a packet is
*skipped* when no fragment of it arrives although a later one does.

- `SendFragmented`, `SendWhole` begin `sendToCan`; `WriteFrame` is one
  `_sendToCan` (its guard is the ENOBUFS loop), `WriteError` the jump to `send_err`.
- `RecvWhole`, `RecvFirst`, `RecvMore`, `RecvLast` are the branches of
  `recvFromCan`. The two branches for an unknown source and an unknown id differ
  only in that the first has no stale entry to drop.
- `Pop` is `popFromRecvList`.

`NoMixing` holds only while no packet of the source was skipped: dropping the
entry `TimeOutId` ids ahead needs a fragment of every packet to arrive. Without
the condition it is false (`IdIdentifiesEntry`, section 5).

`RmCanLink` adds the history variable `inFlight`, the packets that can still be completed: a
packet is remembered when `sendToCan` takes it, and forgotten when it is delivered, when one
of its frames is lost, or when its send is cut short. It constrains no action
(`LinkIsRmCan`), so the runs of the packet layer all use `LinkSpec`. With it as the
refinement mapping, `ImplementsLink` says that what is delivered is always the oldest packet
in flight.

### CanDevice

The statements of `openCANDevice`, `closeCANDevice` and `thread_recv`, one action
each; the main thread's session is `SendCommand` and `Pop`. Two environment
constants: `Unsolicited` is the number of frames boards send unasked, at any time from the
binding of the socket on (two in `device`), `StartsInTime` whether the new thread runs at
all before the close. FD_ISSET on -1 may answer anything.

The receive thread is created before `InCompletePackets` is cleared and `list_mutex` is
initialised (`rmCAN.cpp:514-526`). A packet sent unasked that arrives in between is pushed
under a mutex that is not initialised; `MutexIsLive` names this as its one exception, and
holds otherwise, also against the destruction of the mutex in `closeCANDevice`. The same
packet may be collected while the map is cleared, without any lock; no property excludes
that, because nothing in the code does.

### RobotUpdate

`stage` is the function the master is in, `phase` whether it is sending or in
`readCANData`, `left` the attempts left of the innermost loop. `dataCount`, which
the code does not set back when the outer loop of `sendFirmwareData` runs again,
is kept in `dataLeft` while `sendDataCRC` runs. Answers arrive in `RecvList` in
order per board, whenever they like; `Timeout` may happen before or after, so
late answers are part of every behaviour. `exch` and the field `n` are history:
the exchange an answer belongs to.

`Send` is a whole `sendCANData`. While the interface's queue is full `_sendToCan` tries
again without a limit (`rmCAN.cpp:160-170`), for instance on a bus where nobody
acknowledges: the master is then before this step and need not take it, which is why
`FairSpec` does not make it fair (section 4).

The boards are not in the repository. What the master relies on is modelled and
marked external: a board answers each command it gets with the response type of
that command, in order; a matching checksum writes the chunk once and moves the
address on (the code sends one address for all chunks of an element); one that
does not match is refused.

`fellBack` marks the one case for which the protocol gives no guarantee: both
checksum answers are missing and the chunk is sent again, so that the board may
write it twice. The properties about flash exclude modules it happened to. The
condition is needed: without it `SuccessMeansFlashed` fails.

`ModuleUpdate` says what all of this is for, with three variables and no bus: the
modules come one after the other, a module gains its chunks in their order and loses
none, success is reported of one that holds them all, and then it is left alone. A
late command may still write to a module whose update failed, and of a module that
fell back (`inDoubt`) nothing is promised but that the others do not suffer.
`ImplementsModuleUpdate` maps `result` and `flash` to themselves and `fellBack` to
`inDoubt`. Against the invariants it adds the steps: that no chunk is ever lost or
overwritten, that nothing touches a module after its success, and that nothing
reaches a module before its turn.

### RkImage

`step` is the partition `install_rkimage` is at and `stage` where it is with it:
probing (the parameter partition is compared first), before `write_image`, in it
(`writing`, a part is on the disk), or before `image_compare` (`check`). `disk`
says of each partition whether it holds what it held before, a part of the image
or the image; `loaderData` the same of the data behind the boot message. `boot`
is `struct bootloader_message`: its options are a set, because no code depends on
their order. Every call may fail where the code tests its result; a write that
reports success may still have left wrong data, which only the comparison finds.
`CheckParameter` replaces the boot message and restarts whatever
`set_bootloader_message` returns (`rkimage.cpp:2129`), so the older message may still be there.
`MissingItem` is the -4 of `write_image`, after which boot, system and backup are
skipped. The result of the update script is ignored by the code, and so is the
script here; so is the file system resize after the check of system.

### Recovery

`pc` is the place in `main`, `sdtool_main`, `finish_recovery` or
`prompt_and_wait`, or in the main system. What survives a loss of power: the
partitions, `boot`, the command file `command`, `/data` and `/cache`
(`userdata`, `cache`), and `last_flag`. Everything else is set back by `Stop`.

- `BootCommand`, `WriteCommand`, `RebootRecovery`: `bootCommand` of
  `RecoverySystem.java` in three steps; `Requests` are what its callers pass
  (`--locale` apart). `HandleAftermath` is the method of that name.
- `GetArgs`: `get_args`. `Dispatch`, `UpdateBoards`, `InstallCommand`,
  `PackageCommand`, `OtherCommand` and the wipes: the chain of `main`, in its
  order. `UpdateBoards` is one step, because `RobotUpdate` models it and `main`
  ignores what it returns.
- `FinishMisc`, `FinishFlag`, `FinishUnlink`: `finish_recovery`, with a loss of
  power possible in between.
- `Menu...`, `Picked`: `prompt_and_wait`; each pass begins with `finish_recovery`.
- `PcbaTest` to `SdVerdict`: `sdtool_main`, which leaves `bNeedClearMisc` alone,
  clears it or not by its own rules, and waits for the card to be removed.
- External: `StartUp` is the boot loader's choice as the comments of
  `recovery.cpp` and `check_sdboot` have it; `PackageBegins` is
  `install_package`, which writes the system partition.

`excused` marks runs in which an operation reported a failure or the user picked
one from the menu: then the code makes no promise about half-written partitions.
A card stays where it is until `sdtool_main` waits for its removal. Reading and
writing the boot message and the files succeeds, except where the code acts on an
error and in `CheckParameter`; `recovery.cpp:425` ignores one, too, which is listed as
a hazard.

`SystemIsResumed` and `MainSystemIsWhole` are about the partitions and the user data.
The loader's data is not resumed: `LoaderIsResumed` says it should be, and is violated
(section 5).

### OtaDownload and OtaService

The Android application is one process. `looper` is the queue of its main thread,
whose messages are the activity's (`query`, `download`, `install` and the
statuses it is told) and the download observer's (`change`, `succeeded`, `failed`).
Other threads run by `pc`: query threads (`queryNewVersion`), MD5 threads
(`queryMD5ByHttp`), installation threads (`installUpdate`), and the timer's thread.
The service is bound in its own process, so a call of the binder runs on the
caller's thread. Nothing is locked: each statement that reads or writes what
another thread writes is an action. `local` is the URL, MD5 or digest a thread
holds in a local variable.

- `TimerTest`, `TimerStart`: the timer's test of `mQueryThrad` and, later, its
  start of a thread; `QueryVersion` is `manualQueryNewVersion`.
- `Reset`, `Ask`, `Found`, `NotNew`, `LookForDownload`, `QueryEnd`: `queryNewVersion`
  and the end of its thread. `NotifyRead` and `NotifyPost` are `notifyClientStatus`,
  on whatever thread: it reads the status, tests `mICallback`, and uses both later.
- `Md5Test`, `Md5Use`, `Md5Write`; `InstallBegin` to `Finally`.
- `DownloadUpdate` clears `mError` and goes on to `DownloadRefused`, which sets it again, or
  to `SetDownloading` and `download`: an installation can read or set it between the two.
- `QueryDownload`, `QueryTask`, `Lost`: `queryDownload`, which reads `mDwloadId` twice.
  `Ask` may fail after it has stored the URL of a new version, and `Rename` fail with the
  temporary file in place. `Rename` to `Settle`: `downloadSuccess` and
  `downloadFailed`, which run on the main thread and on query threads alike.
  `StartDownload` to `Register`: `download`.
- `Resume`, `PressDownload`, `PressInstall`, `Leave`: the user. `HandleResponse`:
  `handleResponse` of the activity, with the view and the two buttons.
- `Die`: the process ends at any step; `Uncaught` is an exception no one catches (a
  URL, an MD5 or a callback that another thread has set to null since it was tested),
  which ends the process too. `Create` is what a new process finds: the stored id, the
  files and the tasks of the download manager.
- External: the download manager, the server, the files.

A file is the whole package of a version, nothing, or something else (`Mixed`:
part of a package, or damaged bytes); a version in `LeadingZero` has an MD5 that
`getFileMD5` prints without its leading zeros.

`races` is a history of four things the code leaves to chance. Each property holds
until the race that breaks it, and fails without its condition:

- "task": a query thread looks at the download while the main thread starts one, or
  the process dies between `enqueue` and the storing of the id. The query thread may
  find the id of a task that is not enqueued yet, forget it, or end the old one twice;
  a task whose id was not stored is never found again.
- "package": the package is replaced or deleted between its MD5 and its unzipping (a
  download pressed during an installation does that). Then files extracted from
  an unverified package are installed.
- "notice": what the activity is told is older than the status. Then it may show
  no button although the status asks for one.
- "error": the activity, told that an installation failed, asks for the error and gets that
  of another call, because `mError` is one field for `downloadUpdate` and `installUpdate`
  (`OTAUpdateService.java:426-459`, `473`). A download pressed before and refused meanwhile is
  enough: `handleResponse` knows neither error, changes no button, and if a query found
  nothing new before (which hides the download button) there is none left.

## 3. Runs

| Run | Bounds | Shows |
|---|---|---|
| `conversions` | boundary packets; files of up to 3 of 13 lines, or 5 lines of data in any order; chunks of 3 bytes, garbled anyhow; items and partitions on both sides of every block end | `RoundTrip`, `SentIsReadable`, `LoadedIsFile`, `AscendingIsSafe`, `BurstIsNoticed`, `EqualIsWhole`, `WrittenIsEqual` |
| `reassembly` | 2 sources, ids 0..3, 6 packets of one, a packet and a whole one of the other, 3 faults | `NoMixing`, `BoundedResidue`, `DeliveredInOrder`, `TypeOK` |
| `reassembly_ids` | the first source alone | `IdIdentifiesEntry` is violated |
| `packet_link` | 1 source, ids 0..3, 5 packets of 2 or 3 fragments and one of one frame, 1 fault (so that no packet can vanish completely), fairness | refinement of `PacketLink`: safety and delivery |
| `device` | 3 commands, up to 6 frames in answer and 2 unasked, thread starts in time, fairness | `MutexIsLive`, `ReadNeverBlocks`, `CloseReturns`, `TypeOK` |
| `device_close` | thread may start late | `CloseReturns` is violated |
| `update` | 1 board, 1 module, elements of 2 and 1 chunks, 2 attempts, 1 fault anywhere, fairness | `NoStaleAnswer`, `SuccessMeansFlashed`, `NothingMisplaced`, `Terminates`, `TypeOK`; refinement of `ModuleUpdate` |
| `update_all` | 2 boards, 2 modules of two chunks and of one, 2 attempts, 2 faults outside the data, 1 packet on the way per module | `BoardsLeaveUpgradeMode`, `EveryModuleTried`; refinement of `ModuleUpdate` |
| `recovery` | 7 kinds of request, 3 factory messages, 3 kinds of card, full and partial images, 1 loss of power; two requests, or one and a pick from the menu, with the full image and no card, else one; fairness | `SystemIsResumed`, `MainSystemIsWhole`, `SuccessMeansDone`, `SdToolKeepsMessage`, `SuccessMeansInstalled`, `NotCarriedOutTwice`, `RequestSettles`, `TypeOK` |
| `recovery_loader` | one image installation, 1 loss of power | `LoaderIsResumed` is violated |
| `ota` | 2 query threads, 1 MD5 and 1 installation thread, 2 versions, 2 downloads, 2 queries, 2 presses (3 of queries, presses and releases together; a fourth when a late answer left both buttons), 1 death | `TaskSurvives`, `OnlyWholePackages`, `ThereIsAWayOn`, `TypeOK` |
| `ota_live` | 1 version, 1 download, 2 queries, 1 press, fairness | `QueryAnswered`, `EndIsTaken` |

Why the bounds suffice: with ids 0..3 and `TimeOutId` 1, six packets wrap the id
space and meet a stale entry of each distance; three faults leave as many entries
as the limit allows. The four calculations of `conversions` keep no state from one
call to the next, so a behaviour is about one input. Their inputs lie on both
sides of every test the code makes; three lines are enough for a base, a line under
it and one that is joined or refused, five lines of data for every order of a
run of three adjacent elements and its neighbours. The blocks of `ImageCopy` are in the
proportion 2 : 8 : 4 for 16 K, 1 M and 512 K, so that a block to compare covers several
to write and more than one copy of the parameters. The update image has a second element and a second chunk, so
each loop goes round and each transition between exchanges is taken; one fault
per run already includes every late answer, because timeouts are not counted as
faults. After a loss of power the device starts again with what survived, so a
second one meets nothing the first could not meet at another moment; two requests
are needed for one to be mistaken for the other. `ImplementsModuleUpdate` is checked in two
runs. In `update` a chunk, a checksum or an address can be lost, garbled, sent again or
late, with one module. In `update_all` (`Scenario` in `RobotUpdateMC`) there are two
modules, but faults stop once a module receives data and each module has one packet on
the way at a time: it is about the order of turns and about modules that fail to start.
Both together, two modules with faults in the data, only the theorem covers. Two
query threads are what the unlocked test of `mQueryThrad`
allows (a third needs a third caller at the same time); two downloads are needed for
a late message of the first to meet the second, two versions for a package of the one
to be offered as the other. The bounds `Budget`, `MaxQueue`, `MaxTasks`, `MaxQueries`, `MaxPresses` and
`MaxStops` are guards of the environment and of posting; none stops a thread half way
except a full queue, which the main thread empties. `CHECK_DEADLOCK FALSE` is set
everywhere: each system ends (bounded sends, a finished update, a closed device,
no more requests).

Symmetry is not used: liveness or ordered sequences of boards rule it out, and the
state spaces are small.

## 4. Fairness

- `RmCanLink!FairLinkSpec`: weak fairness of writing the next frame and of receiving, per
  source: `_sendToCan` retries for ever on ENOBUFS and the receive thread loops on
  `select`. Nothing else is fair; senders may stop.
- `CanDevice!FairSpec`: each of the two threads runs on.
- `RobotUpdate!FairSpec`: the master runs on in its own loops and waits (`Returns`), where
  each wait has a timeout and each loop a count. Boards and bus get no fairness at all, and
  neither do the two calls whose return depends on others: `sendCANData`, which tries
  again for ever while the queue is full, and `closeCANDevice`, which joins the receive
  thread (`CanDevice`). Hence `Terminates` says: the update comes to `closeCANDevice`, or
  it stays in one `sendCANData` for ever.

- `Recovery!RunsOn`: the device runs on by itself (`Running`); the main system
  and the user owe nothing. Reading back the parameter partition does not fail
  every time (strong fairness of `ParameterMatches`): each failure writes the
  partition and restarts. Losses of power are bounded, because a device that never
  stays on settles nothing.
- `OtaService!Fairness`: the looper takes its next message and each query, MD5 and
  installation thread runs on, as threads of a process do; their network calls have
  timeouts, and their failure is one of the outcomes. The user, the server, the
  timer and the download manager owe nothing: a download may never end.

The calculations of `conversions` are checked for safety only.

## 5. Findings

- `IdIdentifiesEntry`: `flexcan.h:37` says a packet id "uniquely identifies a
  entry"; after a packet vanished whole a reused id meets stale fragments
  (`rmCAN.cpp:300`) and `recvFromCan` returns a packet made of two.
- `CloseReturns`: `rmCAN.cpp:349` sets `g_flag` in the thread; if the thread first
  runs after line 535 cleared it, `pthread_join` never returns.

- `LoaderIsResumed`: `recovery.cpp:163` wants an update to be safely restartable at any
  point, and `recovery.cpp:194-196` has firmware for the boot loader written before the
  message that has it taken. `install_rkimage` replaces the message that would resume it by
  "update-bootloader" (`rkimage.cpp:2248`) before `write_loader` writes (2251): when power
  fails there, the next start is not recovery but the loader, with half of its data.

Met while modelling and left without a run of their own, as `excused` and the
conditions of the properties show: `rkimage.cpp:2059` wants the command kept when
an installation fails with -1, but `main` clears it for every status; and a card
with `auto_sd_update.tag` takes the place of a requested factory reset
(`recovery.cpp:1920`), which is then forgotten without `/data` being erased.
`bIfUpdateLoader` is set "avoid deleting command in misc when exit recovery"
(`rkimage.cpp:1227`), but only `sdtool_main` looks at it: after an `--update_rkimage` run by
`main` (`recovery.cpp:1975`), `finish_recovery` (547) erases the message that would make the
loader update itself, against `rkimage.cpp:2256`, too. `SdToolKeepsMessage` states both
halves: `sdtool_main` always keeps the message, `main` always loses it.

More that was met and is stated nowhere as a promise, so that no run refutes it:

- `Image.cpp:197` adds the byte count of a start-segment line twice, so a
  well-formed line of type 03 is refused, and the file with it.
- `Image.cpp:98`: a file cut at the end of a line is accepted; the end line is not
  asked for. A file without data makes `CompactElements` compute `end() - 1` of an
  empty vector (`Image.cpp:391`), and an image whose last two elements are joined out of
  order lets the iterator pass it: `AscendingIsSafe` names the files that are safe.
- `rkimage.cpp:1171`: `image_compare` reads a whole megabyte even for the end of an
  item, so an item that nearly fills its partition is written and then refused.
  `rkimage.cpp:1206` counts `dest_remain` down behind the loop, to no effect. Sizes
  of 2 G and more are negative in an `int`: both loops end at once and return 0.
  Only the first of the four copies of the parameters is compared.
- `Util.java:190` prints an MD5 as a number: one in sixteen loses a leading zero,
  never matches, and its package is deleted after each download.
- `OTADownloadMgr.java:137` takes any package in the directory for the new version's,
  where `OTAUpdateService.java:301` says the new version is looked for: an old
  package is offered for installation, and deleted when its MD5 does not match.
- A null answer of the server leaves the status at REFRESH, an `IOException` during the
  installation leaves it at INSTALLING, and a download whose URL was set to null
  meanwhile leaves it at DOWNLOADING without a task (`OTAUpdateService.java:455`).
- A query asked for after another has told its answer, but before `mQueryThrad` is
  set back, starts no thread and is not answered (`OTAUpdateService.java:252`).

## 6. Proofs

Each theorem holds for every value of the constants that satisfies the named
assumption of its module; those assumptions only state C types and that lists are
lists (`RmCanAssumption`: `0 < TimeOutId < U8`, and fewer than `U8 - 1` fragments
per packet, because `sum` is counted in a byte).

| Module | Theorem | States |
|---|---|---|
| `HexImageProofs` | `LoadedKeepsFile`, `AscendingStaysInside` | `LoadedIsFile`, `AscendingIsSafe` |
| `ConversionsProofs` | `BurstsAreNoticed` | `BurstIsNoticed` |
| | `EqualMeansWhole`, `WrittenIsFoundEqual` | `EqualIsWhole`, `WrittenIsEqual` |
| | `FramingIsLossless`, `FramesAreReadable` | `RoundTrip`, `SentIsReadable` |
| `RmCanProofs` | `LinkTypes` | `TypeOK` |
| | `PacketsAreWhole` | `NoMixing` |
| | `PacketsInOrder` | `DeliveredInOrder` |
| | `ResidueIsBounded` | `BoundedResidue` |
| `RmCanLinkProofs` | `LinkImplemented` | `ImplementsLink`, while no packet vanished (`NoneSkipped`) |
| `CanDeviceProofs` | `DeviceTypes` | `TypeOK` |
| | `MutexUsedAlive`, `ThreadNeverBlocks` | `MutexIsLive`, `ReadNeverBlocks` |
| `RobotUpdateProofs` | `UpdateTypes`, `AllTried` | `TypeOK`, `EveryModuleTried` |
| | `AnswersAreFresh`, `FlashedWhenOK` | `NoStaleAnswer`, `SuccessMeansFlashed` |
| | `AllInPlace`, `BoardsLeave` | `NothingMisplaced`, `BoardsLeaveUpgradeMode` |
| | `UpdateKeepsPromise` | `ImplementsModuleUpdate` |
| `RecoveryProofs` | `RecoveryTypes`, `InstallationTold` | `TypeOK`, `SuccessMeansInstalled` |
| | `Restartable`, `MainWhole` | `SystemIsResumed`, `MainSystemIsWhole` |
| | `LoaderTold`, `RequestDone` | `SdToolKeepsMessage`, `SuccessMeansDone` |
| | `CarriedOutOnce` | `NotCarriedOutTwice` |
| `OtaServiceProofs` | `WholePackages`, `DownloadKept` | `OnlyWholePackages`, `TaskSurvives` |
| | `WayOn`, `ServiceTypes` | `ThereIsAWayOn`, `TypeOK` |

*Framing.* Fields are recovered from the identifier by division lemmas, one for
each mask and shift.

*Hex image.* What is loaded is said of the reader's state after each line, so no induction
over the file is needed. `HexInv` adds to the types

- that no end line has been passed and that `base_address` and `extended_address`
  together are the base the lines read so far put in force (`BaseInv`);
- that the elements are whole words and overlap neither each other nor a line that is
  still to be read (`Separate`, in `ElementsInv`), and are sorted once `CompactElements`
  has sorted them;
- that their bytes are those of the lines read (`BytesInv`): a new element brings the bytes
  of its line (`NewElementIsLine`), and joining (`JoinsLast`, `JoinsNext`), removing and
  sorting move bytes between elements and change none. `m_DataSize` counts them because the
  lines do not overlap;
- that, for ascending files, between any two elements there is a gap (`GapInv`): what
  touches the last element is joined while it is read. Then `CompactElements` joins nothing
  (`CompactJoinsNothing`) and its iterator meets `end() - 1`.

`Follows` compares word addresses and `End` counts bytes; `WordsMeet` shows that for
elements of whole words the two agree. A sort is any rearrangement into order: only that it
is one-to-one is used (`SortDoes`).

*Checksum.* `DifferenceInv` is about the bits in which the two registers differ. Before
the first garbled byte there are none. A step of the shift register is linear
(`NextIsLinear`): the difference moves as a register does. While the eight bits of a byte
are shifted out, a difference that was outside the bits still to come stays outside them
(`Window`), so that the next byte, which reaches only the lowest eight, cannot cancel it;
and because the polynomial has its highest bit set, a difference that is shifted out
leaves that bit behind (`LowBit`, `OtherBit`), so it never becomes empty.

*Image copy.* Neither property is inductive. `CopyInv` adds that the position in the
partition is that in the item until the item ends, that `dest_remain` ends no loop early
(`PositionInv`), that what is done is in the partition (`DoneInv`), and that nothing is
written after it was (`WroteInv`). The copies of the parameters do not overlap because a
block is no larger than the distance between them (`OneHit`).

*Packet layer.* `NoMixing` is not inductive: it says nothing of what is still on
the bus. `Inv` adds, for each source,

- the frames on the bus and still to be written are genuine fragments with
  `packet_id = of % U8`, in the order of packet and fragment number (`QueueOK`);
- unless a packet was skipped, the fragments under an id are of one packet, in
  order, not all of them, less than `U8 - TimeOutId` packets behind, and before
  everything that is still coming (`EntryOK`);
- the packets in `RecvList` are whole, in order, and before everything coming
  (`ListOK`).

The first fragment of packet `n` drops the entry of packet `n - (U8 - TimeOutId)`
(`DroppedId`), so no entry falls further behind; therefore a fragment whose id is
in use is less than `U8` packets from the ones collected and belongs to the same
packet (`SameId`, `SamePacket`). Fragment numbers that increase up to `sum` are
all the numbers (`Completed`), and sorting them changes nothing
(`SortedAlready`). `ResidueIsBounded` maps each id in use to its packet, one of the
last `U8 - TimeOutId`.

*Packets in flight.* `LinkImplemented` needs to know which packets `inFlight` holds, in terms
of the frames. `LinkInv` says so, on top of `Inv`, for the queue of a source (the frames on the
bus, then those still to be written):

- the frames of a packet follow each other without a gap (`Runs`), and a send that is under
  way has all its frames up to the last in `out` (`Rest`). Frames are lost only at the head
  of the bus, and a send that fails gives up all that is left of it, so a packet that
  has lost a frame has lost its beginning or its end;
- a frame of the queue `Arrives` when it is the last of its packet and either all the
  others are in the queue before it or the missing ones are exactly those collected under
  its id. `Tracked` matches the packets in flight, in order, with the frames that arrive,
  one to one.

One lemma tells what happens to `Arrives` when the head of the queue is taken (`FateTaken`) and
one when it is lost (`FateLost`). Both rest on `Runs`: a packet whose last frame is still
coming and whose first has gone has its next frame at the head of the queue, so its entry
changes only by that frame, and no entry that is dropped is one of a packet that arrives.
`OldestPacket` says that the frame at the head belongs to the first packet in
flight or to none, `NewestPacket` the same of the last and the send under way; so `RecvLast` and `RecvWhole`
deliver the first (`ArriveFlight`), and a lost frame or a failed send takes the first or the
last with it (`LoseFlight`, `ErrorFlight`). The condition `NoneSkipped` is that of `NoMixing`:
without it two packets may be put together under one id.

*Device.* `Inv` adds to the types when the mutex exists (`MutexPhase`), that no
frame arrives before the first command if boards speak only when asked (`SilentOpening`,
needed for the half of `MutexIsLive` that admits no exception then), and that a descriptor
found readable stays so (`StaysReadable`).

*Update.* The types hold because the index of the board or module stays in its
list (`InRange`). `AllTried` rests on `Tried`: every module before the current one
has a result, and from the exit commands on all have one. `AnswersAreFresh`, `FlashedWhenOK`
and `AllInPlace` share the invariant `AnswersInv`:

- `Ordered`: the channel through an endpoint and back, that is the commands on their way,
  the answers on their way and the answers in `RecvList`, holds the exchanges in the order
  in which the master began them, and none that it has not begun;
- `InExchange(m, st, e, j)`: what is on its way belongs to the exchange the master is in
  or to the one before. Two exchanges that follow each other are of different types, so an
  answer of the type waited for (`Expected`) is of the present one (`TakenIsOfNow`), and the
  order shows that no command of the one before is left behind it. A command of the
  exchange before that comes late changes nothing that matters: an erase while nothing is
  written, the same address, the chunk that is already in memory, a checksum that does not
  match or was acted on (`OfBefore`);
- `Holds`: the flash is exactly the chunks before the current one (`Before`), and the
  module will write where that one belongs; while the checksum is asked for, the chunk
  itself may be there;
- `ModuleOK`: the module being served is in the master's exchange (`Served`), one that was
  served stays in its last (`Rests`), and nothing has been sent to the others (`Waits`).

At the end exchange `Before` is the whole image (`BeforeEnd`). All of it excludes the
modules with `fellBack`: their second data command follows a checksum exchange, so
neighbouring exchanges no longer tell what was written. `BoardsLeave` adds `ExitOK` for each
board: until an exit command is carried out, the exit commands on their way and the faults
together are no fewer than the attempts made; afterwards only exit commands are on their
way, because `Ordered` puts every enter command before them.

`UpdateKeepsPromise` maps every step (`PromiseStep`). A step of the master changes at most
the mark or the result of the module it serves, which has none yet (`NoneYet`) and whose
predecessors all have one (`Tried`); it reports success only in the end exchange, where
`Before` is the whole image. A command carried out (`CarriedOut`) finds a module that had
its turn, because the others are untouched, and adds at most the chunk of the exchange the
module is in (`FlashGrows`); in the exchange of a module that succeeded there is none.

*Recovery.* None of the safety properties is inductive. `Inv` adds

- `Walk`: everything behind the step of a running installation is written and
  compared, so a return of 0 stands for the whole image;
- `Routes`: the places `main` and `sdtool_main` can be at with the options they
  have, for instance that an installation for the main system has the options and
  the card that made `main` choose it;
- `Resumed`: while an operation is under way the boot message is the one
  `get_args` wrote (or the shorter one `install_rkimage` writes before it restarts
  for a new parameter partition), what may be half written is part of what these
  options write, and no partition or user data is half written once `install_rkimage` has replaced
  the message by the loader's, or `main` has come to its verdict.

The step that matters most is `WriteMessage`: it takes the message that would
resume the installation away, and is safe for the partitions because `Walk` leaves none of
them half written behind it (`Whole`); the loader's data, written after it, is not safe
(`LoaderIsResumed`). The other three theorems have invariants of their own on top of
these. `LoaderInv`: from the end of the installation `sdtool_main` ran to its restart
every place leaves the boot message alone, and `main` comes to its restart only through
`FinishMisc`, which clears it. `DoneInv` (for `RequestDone`) follows the
request: the options in the boot message, in the command file or in `args` are those that
were asked for (`Carried`), and each place of `main` behind an operation has its result.
Its condition `OneCommand` says what a caller of `RecoverySystem.java` may ask: one command,
and no factory test, because `main` takes the first of two and forgets the other.
`OnceInv`: once a request is ended, a boot message is one of the menu or of its restart, and
a command file that is left goes with the next start of the main system. `RkImageAssumption` and `RecoveryAssumption` only
list the items, options and cards there are.

*OTA application.* `Inspection` says of each installation thread what it knows: from the
comparison of the MD5 on, the package is the one that was hashed, and from the extraction on
the extracted files are those of a whole package. Every other thread is `Harmless`: it leaves
package and files alone, or is the race "package". `TaskKnown`: a task of the download
manager is the one `mDwloadId` names, the stored id is that or none, and a thread is at one of
the places that forget an id only when no task is left. Only `Enqueue` makes a task, and finds
no id; every step is `Aside` of all this, is one of the few that write the ids, or is the
race "task". `TypeInv` is what `TypeOK` rests on. Of the message queue, `QueueOK`: the other
threads post only when there is room, and the main thread posts only after it has taken a
message, so that one place more is enough. Of the callbacks, `CountsOK`: the observer is
registered once by the constructor and at most once per task, so that `observers` is bounded
by `lastId + 1`.

`WayOn` was tried when the run passed, and the attempt showed that the run's bounds hid a
case: with a third query a refused download leaves no button (the race "error" above), so
the property got its condition and `downloadUpdate` its second step. `ThereIsAWayOn` speaks of
a quiet application only; `WayInv` says how it gets there, while the activity listens and
the status leaves something to be done:

- `ToldInv`: whatever the activity will still see, or the main thread will find when it has
  started a download, the status itself will be told, because it is the last status in the
  queue or some thread is at a place that leads to `notifyClientStatus` (`Tells`);
- `ButtonInv`: with the version in view and no query waiting, the status will be told, or work
  that ends in a status or a button is under way (`UnderWay`), or a button can be pressed;
- `ReturnInv`: a status told before the activity left is followed in the queue by the query
  of its return, which hides the version;
- `BegunInv`: no thread tells the status of a process that has not asked yet.

Nearly every step is `Steady`: it keeps the status or sets one of no offer, or has a thread
that will tell; `SteadyKeeps` is proved once for all of them, and `TurnTells` and
`TurnSteady` say which moves of a thread are steady. The four steps that are not have their
own lemmas: the query (`AskingWay`), the answer that reaches the activity (`ResponseWay`),
the notice (`NotifyWay`), and the user's coming and going (`UserWay`).

Model-checked only: everything with fairness (`CloseReturns`, `Terminates`,
`RequestSettles`, `QueryAnswered`, `EndIsTaken`, `ImplementsFairLink`), which is out of the
prover's reach. Every other property of a passing run is the subject of a theorem.

## 7. Not modelled yet, and the plan

Order of the remaining work, most important first:

1. `BootCommand`, an abstract specification of one request (asked, pending,
   carried out or shown as failed) that `Recovery` implements.
2. Composition of `RobotUpdate` with `PacketLink` in place of its built-in
   channel, and of `OtaService` with `Recovery` at `installPackages`.

Left out, and why: the header and CRC check of an image file, which read it once and
keep no state; the update script, whose commands are an interpreter over partitions and
whose result is ignored; `write_loader`'s conversion of the loader. Of the application:
the progress number and the task that polls it, the installation dialog, closing the
activity and opening it anew, and the deletion of extracted files, which nothing reads
before they are extracted again. Logging and wording everywhere, the vendored `dev.c`,
and the contents of firmware.
