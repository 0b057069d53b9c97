---------------------------- MODULE OtaDownload ----------------------------
(***************************************************************************)
(* The download of an update package by the OTA application:                *)
(* OTADownloadMgr.java over the download manager of the system and the      *)
(* files of the download directory.                                         *)
(*                                                                         *)
(* The application has one main thread, whose messages are the sequence     *)
(* looper, and threads of its own; pc[t] is the next statement of thread t. *)
(* OTADownloadMgr takes no lock: its fields are read again at every use, so *)
(* each statement that reads or writes what another thread writes is a step.*)
(*                                                                         *)
(* A file holds nothing, the whole package of one version, or something     *)
(* else: part of a package, two mixed, or damaged bytes.                    *)
(***************************************************************************)
EXTENDS Integers, Sequences

CONSTANTS
    QueryThreads,       \* threads that may run queryNewVersion at once
    Md5Threads,         \* threads that may run queryMD5ByHttp at once
    InstallThreads,     \* threads that may run installUpdate at once
    MaxVersion,         \* bound: versions released one after the other
    MaxTasks,           \* bound: downloads started
    MaxQueue            \* bound: messages waiting for the main thread

Main == "main"
Timer == "timer"
Threads == {Main, Timer} \cup QueryThreads \cup Md5Threads \cup InstallThreads

ASSUME OtaAssumption ==
    /\ MaxVersion \in Nat \ {0} /\ MaxTasks \in Nat /\ MaxQueue \in Nat
    /\ {Main, Timer} \cap (QueryThreads \cup Md5Threads \cup InstallThreads) = {}
    /\ QueryThreads \cap Md5Threads = {} /\ QueryThreads \cap InstallThreads = {}
    /\ Md5Threads \cap InstallThreads = {}

Versions == 1 .. MaxVersion
None  == 0              \* no file, no URL, no MD5
Mixed == -1             \* a file that is no version's whole package
Content == Versions \cup {None, Mixed}

Ids == 1 .. MaxTasks    \* ids of download tasks; 0 is no task
TaskStates == {"none", "running", "ok", "failed"}
NoTask == [state |-> "none", ver |-> None]

VARIABLES
    status,         \* UpdateStatus.mStatus
    mDwloadId,      \* the task the application knows of
    savedId,        \* DOWNLOAD_ID of the shared preferences
    observers,      \* registrations of mDlObserver
    looper,         \* messages to the main thread
    pc,             \* what each thread does next
    local,          \* the URL or MD5 a thread holds in a local variable
    tasks,          \* the download manager's table
    lastId,         \* the last id it gave out
    tmp,            \* update.zip.tmp
    pkg             \* robot_update.zip

memory == <<status, mDwloadId, observers, looper, pc, local>>
stored == <<savedId, tasks, lastId, tmp, pkg>>
dlVars == <<memory, stored>>

Goes(t, to) == pc' = [pc EXCEPT ![t] = to]

\* Who posts to the main thread waits for room; the main thread itself has one place more.
Room(n) == Len(looper) + n =< MaxQueue

DlInit ==
    /\ status = "IDLE" /\ mDwloadId = 0 /\ savedId = 0 /\ observers = 0
    /\ looper = <<>> /\ pc = [t \in Threads |-> "idle"]
    /\ local = [t \in Threads |-> None]
    /\ tasks = [i \in Ids |-> NoTask] /\ lastId = 0
    /\ tmp = None /\ pkg \in Content     \* a package may be there from before

-----------------------------------------------------------------------------
(* The download manager (external): a task writes the temporary file, ends   *)
(* well or badly, and every change of its row is told to the observer, as    *)
(* often as it is registered. Nothing but the MD5 tells a damaged download.  *)
Told == looper' = looper \o [i \in 1 .. observers |-> "change"]

Running(id) == tasks[id].state = "running" /\ Room(observers) /\ Told

Receive(id) ==
    /\ Running(id) /\ tmp # Mixed
    /\ tmp' = Mixed
    /\ UNCHANGED <<status, mDwloadId, observers, pc, local, savedId, tasks, lastId, pkg>>

Complete(id) ==
    /\ Running(id) /\ tmp = Mixed
    /\ tmp' \in {tasks[id].ver, Mixed}
    /\ tasks' = [tasks EXCEPT ![id].state = "ok"]
    /\ UNCHANGED <<status, mDwloadId, observers, pc, local, savedId, lastId, pkg>>

Fail(id) ==
    /\ Running(id)
    /\ tmp' = None
    /\ tasks' = [tasks EXCEPT ![id].state = "failed"]
    /\ UNCHANGED <<status, mDwloadId, observers, pc, local, savedId, lastId, pkg>>

DownloadManager == \E id \in Ids : Receive(id) \/ Complete(id) \/ Fail(id)

\* DownloadManager.remove ends a task and deletes its file.
Drop(id) ==
    IF id # 0 /\ tasks[id].state # "none"
      THEN tasks' = [tasks EXCEPT ![id] = NoTask] /\ tmp' = None
      ELSE UNCHANGED <<tasks, tmp>>

-----------------------------------------------------------------------------
(* downloadSuccess and downloadFailed, on the main thread or a query thread. *)

\* unregisterContentObserver ends all registrations. A failed rename is only logged; the
\* file is then deleted with its task.
Rename(t) ==
    /\ pc[t] = "success"
    /\ IF mDwloadId = 0
         THEN Goes(t, "ok_set") /\ UNCHANGED <<observers, tmp, pkg>>
         ELSE /\ observers' = 0
              /\ \/ tmp # None /\ pkg' = tmp /\ tmp' = None
                 \/ UNCHANGED <<tmp, pkg>>
              /\ Goes(t, "ok_remove")
    /\ UNCHANGED <<status, mDwloadId, looper, local, savedId, tasks, lastId>>

Failed(t) ==
    /\ pc[t] = "failed"
    /\ Goes(t, IF mDwloadId = 0 THEN "failed_set" ELSE "failed_remove")
    /\ UNCHANGED <<status, mDwloadId, observers, looper, local, stored>>

Remove(t) ==
    /\ pc[t] \in {"ok_remove", "failed_remove"}
    /\ Drop(mDwloadId)
    /\ Goes(t, IF pc[t] = "ok_remove" THEN "ok_unsave" ELSE "failed_unsave")
    /\ UNCHANGED <<status, mDwloadId, observers, looper, local, savedId, lastId, pkg>>

Unsave(t) ==
    /\ pc[t] \in {"ok_unsave", "failed_unsave"}
    /\ savedId' = 0
    /\ Goes(t, IF pc[t] = "ok_unsave" THEN "ok_forget" ELSE "failed_forget")
    /\ UNCHANGED <<status, mDwloadId, observers, looper, local, tasks, lastId, tmp, pkg>>

\* Mutant: no task is written as -1, as a failed insertion returns it.
Forget_MinusOne(t) ==
    /\ pc[t] \in {"ok_forget", "failed_forget"}
    /\ mDwloadId' = -1
    /\ Goes(t, IF pc[t] = "ok_forget" THEN "ok_set" ELSE "failed_set")
    /\ UNCHANGED <<status, observers, looper, local, stored>>

Forget(t) ==
    /\ pc[t] \in {"ok_forget", "failed_forget"}
    /\ mDwloadId' = 0
    /\ Goes(t, IF pc[t] = "ok_forget" THEN "ok_set" ELSE "failed_set")
    /\ UNCHANGED <<status, observers, looper, local, stored>>

\* The statement after it sets the status; the main thread starts the MD5 query.
Settle(t) ==
    /\ pc[t] \in {"ok_set", "failed_set", "downloading_set"}
    /\ status' = [ok_set |-> "DOWNLOAD_OK", failed_set |-> "DOWNLOAD_FAILED",
                  downloading_set |-> "DOWNLOADING"][pc[t]]
    /\ IF t = Main /\ pc[t] = "ok_set"
         THEN \E m \in Md5Threads :
                /\ pc[m] = "idle"
                /\ pc' = [pc EXCEPT ![t] = "notify", ![m] = "md5_test"]
         ELSE Goes(t, "notify")
    /\ UNCHANGED <<mDwloadId, observers, looper, local, stored>>

Ending(t) == Rename(t) \/ Failed(t) \/ Remove(t) \/ Unsave(t) \/ Forget(t) \/ Settle(t)

-----------------------------------------------------------------------------
(* queryDownload: is the update downloaded, or being downloaded?             *)
QueryDownload(q) ==
    /\ pc[q] = "query_download"
    /\ Goes(q, IF mDwloadId = 0
                 THEN IF pkg = None THEN "notify" ELSE "ok_set"
                 ELSE "query_task")
    /\ UNCHANGED <<status, mDwloadId, observers, looper, local, stored>>

\* mDwloadId is read again: another thread may have ended the task meanwhile.
QueryTask(q) ==
    /\ pc[q] = "query_task"
    /\ Goes(q, IF mDwloadId = 0
                 THEN "lost"
                 ELSE [running |-> "downloading_set", ok |-> "success",
                       failed |-> "failed", none |-> "lost"][tasks[mDwloadId].state])
    /\ UNCHANGED <<status, mDwloadId, observers, looper, local, stored>>

\* The task the id stands for is not there.
Lost(q) ==
    /\ pc[q] = "lost"
    /\ mDwloadId' = 0 /\ savedId' = 0
    /\ Goes(q, "notify")
    /\ UNCHANGED <<status, observers, looper, local, tasks, lastId, tmp, pkg>>

-----------------------------------------------------------------------------
(* download, on the main thread, with the URL it was called with.            *)
StartDownload ==
    /\ pc[Main] = "download"
    /\ IF mDwloadId # 0 \/ local[Main] = None
         THEN Goes(Main, "accepted") /\ UNCHANGED pkg
         ELSE Goes(Main, "enqueue") /\ pkg' = None
    /\ UNCHANGED <<status, mDwloadId, observers, looper, local, savedId, tasks, lastId, tmp>>

\* Mutant: the id is not kept in memory.
Enqueue_Unkept ==
    /\ pc[Main] = "enqueue" /\ lastId < MaxTasks
    /\ lastId' = lastId + 1
    /\ tasks' = [tasks EXCEPT ![lastId + 1] = [state |-> "running", ver |-> local[Main]]]
    /\ Goes(Main, "commit")
    /\ UNCHANGED <<status, mDwloadId, observers, looper, local, savedId, tmp, pkg>>

\* DownloadManager.enqueue (PressDownload keeps to the bound MaxTasks).
Enqueue ==
    /\ pc[Main] = "enqueue" /\ lastId < MaxTasks
    /\ lastId' = lastId + 1
    /\ tasks' = [tasks EXCEPT ![lastId + 1] = [state |-> "running", ver |-> local[Main]]]
    /\ mDwloadId' = lastId + 1
    /\ Goes(Main, "commit")
    /\ UNCHANGED <<status, observers, looper, local, savedId, tmp, pkg>>

Commit ==
    /\ pc[Main] = "commit"
    /\ savedId' = mDwloadId
    /\ Goes(Main, "register")
    /\ UNCHANGED <<status, mDwloadId, observers, looper, local, tasks, lastId, tmp, pkg>>

Register ==
    /\ pc[Main] = "register"
    /\ observers' = observers + 1
    /\ Goes(Main, "accepted")
    /\ UNCHANGED <<status, mDwloadId, looper, local, stored>>

Download == StartDownload \/ Enqueue \/ Commit \/ Register

-----------------------------------------------------------------------------
(* The observer and its handler on the main thread.                          *)
MainReady == pc[Main] = "idle" /\ looper # <<>>

\* Mutant: the end of a failed task is not posted.
OnChange_OnlySuccess ==
    /\ MainReady /\ Head(looper) = "change"
    /\ looper' = LET state == IF mDwloadId = 0 THEN "none" ELSE tasks[mDwloadId].state
                 IN Tail(looper) \o (IF state = "ok" THEN <<"succeeded">> ELSE <<>>)
    /\ UNCHANGED <<status, mDwloadId, observers, pc, local, stored>>

\* onChange reads the state of the task of now and posts it.
OnChange ==
    /\ MainReady /\ Head(looper) = "change"
    /\ looper' = LET state == IF mDwloadId = 0 THEN "none" ELSE tasks[mDwloadId].state
                 IN Tail(looper) \o CASE state = "ok"     -> <<"succeeded">>
                                      [] state = "failed" -> <<"failed">>
                                      [] OTHER            -> <<>>
    /\ UNCHANGED <<status, mDwloadId, observers, pc, local, stored>>

\* handleMessage acts on what was posted.
HandleEnd ==
    /\ MainReady /\ Head(looper) \in {"succeeded", "failed"}
    /\ looper' = Tail(looper)
    /\ Goes(Main, IF Head(looper) = "succeeded" THEN "success" ELSE "failed")
    /\ UNCHANGED <<status, mDwloadId, observers, local, stored>>

Observer == OnChange \/ HandleEnd

\* A new process: the id is read again and observed; messages and threads are gone.
DlCreate ==
    /\ status' = "IDLE" /\ mDwloadId' = savedId
    /\ observers' = IF savedId = 0 THEN 0 ELSE 1
    /\ looper' = <<>> /\ pc' = [t \in Threads |-> "idle"]
    /\ local' = [t \in Threads |-> None]
    /\ UNCHANGED stored

=============================================================================
