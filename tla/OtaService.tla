----------------------------- MODULE OtaService ----------------------------
(***************************************************************************)
(* The OTA application: OTAUpdateService.java with its timer and its query,  *)
(* MD5 and installation threads, and OTAUpdateActivity.java, whose buttons   *)
(* send it to work and whose views show its status. Both run in one process, *)
(* so a call of the binder runs on the caller's thread.                      *)
(*                                                                         *)
(* The process can die at any step and is started again; the download       *)
(* manager, the files and the shared preferences outlive it. An             *)
(* installation ends with a restart into recovery (see Recovery).           *)
(***************************************************************************)
EXTENDS OtaDownload, FiniteSets

CONSTANTS
    LeadingZero,        \* versions whose MD5 starts with a zero digit
    MaxQueries,         \* bound: queries
    MaxPresses,         \* bound: presses of a button
    MaxStops            \* bound: deaths of the process

ASSUME ServiceAssumption ==
    /\ LeadingZero \subseteq Versions
    /\ MaxStops \in Nat
    /\ MaxQueries \in Nat /\ MaxPresses \in Nat

VARIABLES
    mNewVerUrl,         \* the version the URL leads to
    mNewVerMD5,         \* the version the MD5 belongs to
    mError,
    mQueryThrad,        \* is it set?
    mICallback,         \* is it set?
    latest,             \* the newest version the server offers
    shown,              \* is the activity in front?
    view,               \* its main view
    downloadBtn,        \* is mDownloadBtn visible?
    installBtn,         \* mInstallBtnView
    queries, presses, stops,
    said,               \* the status a thread is about to tell the activity
    races               \* history: which of the races below took place

service == <<mNewVerUrl, mNewVerMD5, mError, mQueryThrad, mICallback>>
ui == <<shown, view, downloadBtn, installBtn>>
counts == <<queries, presses, stops>>
ownVars == <<service, latest, ui, counts, said>>
code == <<dlVars, ownVars>>
vars == <<code, races>>

Init ==
    /\ DlInit
    /\ mNewVerUrl = None /\ mNewVerMD5 = None /\ mError = "NONE"
    /\ mQueryThrad = FALSE /\ mICallback = FALSE /\ latest = 1
    /\ shown = FALSE /\ view = "none" /\ downloadBtn = FALSE /\ installBtn = "gone"
    /\ queries = 0 /\ presses = 0 /\ stops = 0
    /\ said = [t \in Threads |-> "IDLE"] /\ races = {}

-----------------------------------------------------------------------------
(* A new process: what its fields held is gone, what was stored is not.       *)
Create ==
    /\ DlCreate
    /\ mNewVerUrl' = None /\ mNewVerMD5' = None /\ mError' = "NONE"
    /\ mQueryThrad' = FALSE /\ mICallback' = FALSE
    /\ shown' = FALSE /\ view' = "none" /\ downloadBtn' = FALSE /\ installBtn' = "gone"
    /\ said' = [t \in Threads |-> "IDLE"]

Die ==
    /\ stops < MaxStops /\ stops' = stops + 1
    /\ Create
    /\ UNCHANGED <<latest, queries, presses>>

\* An exception nothing catches.
Uncaught == Create /\ UNCHANGED <<latest, counts>>

\* The server (external) offers a new version.
Release ==
    /\ latest < MaxVersion /\ latest' = latest + 1
    /\ UNCHANGED <<dlVars, service, ui, said, counts>>

-----------------------------------------------------------------------------
(* The query thread: queryNewVersion and, at its end, mQueryThrad = null.    *)

StartQuery == \E q \in QueryThreads :
    /\ pc[q] = "idle" /\ Goes(q, "reset") /\ mQueryThrad' = TRUE

Counted == queries < MaxQueries /\ queries' = queries + 1

\* The timer's thread tests mQueryThrad and then sets it, without a lock: meanwhile
\* the main thread can start a query of its own.
TimerTest ==
    /\ pc[Timer] = "idle" /\ ~mQueryThrad /\ Counted
    /\ Goes(Timer, "start")
    /\ UNCHANGED <<status, mDwloadId, observers, looper, local, stored, service,
                   latest, ui, said, presses, stops>>

TimerStart == \E q \in QueryThreads :
    /\ pc[Timer] = "start" /\ pc[q] = "idle"
    /\ pc' = [pc EXCEPT ![Timer] = "idle", ![q] = "reset"]
    /\ mQueryThrad' = TRUE
    /\ UNCHANGED <<status, mDwloadId, observers, looper, local, stored,
                   mNewVerUrl, mNewVerMD5, mError, mICallback, latest, ui, said, counts>>

\* Mutant: without a network the query ends before it tells so.
Reset_Silent(q) ==
    /\ pc[q] = "reset"
    /\ mNewVerUrl' = None
    /\ \/ status' = "SERVER_ERROR" /\ Goes(q, "end")
       \/ status' = "REFRESH" /\ Goes(q, "ask")
    /\ UNCHANGED <<mDwloadId, observers, looper, local, stored,
                   mNewVerMD5, mError, mQueryThrad, mICallback, latest, ui, said, counts>>

\* Nothing reads the status between the two statements that matters here.
Reset(q) ==
    /\ pc[q] = "reset"
    /\ mNewVerUrl' = None
    /\ \/ status' = "SERVER_ERROR" /\ Goes(q, "notify")
       \/ status' = "REFRESH" /\ Goes(q, "ask")
    /\ UNCHANGED <<mDwloadId, observers, looper, local, stored,
                   mNewVerMD5, mError, mQueryThrad, mICallback, latest, ui, said, counts>>

\* The answer: a new version, none, an error, or no text at all. One without an MD5
\* is an error after its URL has been taken.
Ask(q) ==
    /\ pc[q] = "ask"
    /\ \/ /\ mNewVerUrl' = latest /\ local' = [local EXCEPT ![q] = latest]
          /\ Goes(q, "found") /\ UNCHANGED status
       \/ status' = "CATCH_NONE" /\ Goes(q, "query_download") /\ UNCHANGED <<local, mNewVerUrl>>
       \/ /\ mNewVerUrl' \in {mNewVerUrl, latest} /\ status' = "SERVER_ERROR"
          /\ Goes(q, "notify") /\ UNCHANGED local
       \/ Goes(q, "notify") /\ UNCHANGED <<status, local, mNewVerUrl>>
    /\ UNCHANGED <<mDwloadId, observers, looper, stored,
                   mNewVerMD5, mError, mQueryThrad, mICallback, latest, ui, said, counts>>

Found(q) ==
    /\ pc[q] = "found"
    /\ mNewVerMD5' = local[q] /\ status' = "CATCH_NEW"
    /\ local' = [local EXCEPT ![q] = None]
    /\ Goes(q, "query_download")
    /\ UNCHANGED <<mDwloadId, observers, looper, stored,
                   mNewVerUrl, mError, mQueryThrad, mICallback, latest, ui, said, counts>>

\* The status is read again before the download is looked at.
NotNew(q) ==
    /\ pc[q] = "query_download" /\ status # "CATCH_NEW"
    /\ Goes(q, "notify")
    /\ UNCHANGED <<status, mDwloadId, observers, looper, local, stored, ownVars>>

LookForDownload(q) == status = "CATCH_NEW" /\ QueryDownload(q) /\ UNCHANGED ownVars

\* notifyClientStatus reads the status, whoever set it, tests mICallback and uses it:
\* what it tells may be old by then, and the callback may be gone.
NotifyRead(t) ==
    /\ pc[t] = "notify"
    /\ IF mICallback
         THEN said' = [said EXCEPT ![t] = status] /\ Goes(t, "post")
         ELSE Goes(t, IF t \in QueryThreads THEN "end" ELSE "idle") /\ UNCHANGED said
    /\ UNCHANGED <<status, mDwloadId, observers, looper, local, stored,
                   service, latest, ui, counts>>

NotifyPost(t) ==
    /\ pc[t] = "post"
    /\ IF ~mICallback
         THEN Uncaught
         ELSE /\ t = Main \/ Room(1)
              /\ looper' = Append(looper, said[t])
              /\ said' = [said EXCEPT ![t] = "IDLE"]
              /\ Goes(t, IF t \in QueryThreads THEN "end" ELSE "idle")
              /\ UNCHANGED <<status, mDwloadId, observers, local, stored,
                             service, latest, ui, counts>>

Notify(t) == NotifyRead(t) \/ NotifyPost(t)

QueryEnd(q) ==
    /\ pc[q] = "end"
    /\ mQueryThrad' = FALSE
    /\ Goes(q, "idle")
    /\ UNCHANGED <<status, mDwloadId, observers, looper, local, stored,
                   mNewVerUrl, mNewVerMD5, mError, mICallback, latest, ui, said, counts>>

Query(q) ==
    \/ Reset(q) \/ Ask(q) \/ Found(q) \/ NotNew(q) \/ LookForDownload(q)
    \/ (QueryTask(q) \/ Lost(q) \/ Ending(q)) /\ UNCHANGED ownVars
    \/ Notify(q) \/ QueryEnd(q)

-----------------------------------------------------------------------------
(* The MD5 thread tests mNewVerUrl and uses it.                              *)
Md5Test(m) ==
    /\ pc[m] = "md5_test"
    /\ Goes(m, IF mNewVerUrl = None THEN "md5_write" ELSE "md5_use")
    /\ UNCHANGED <<status, mDwloadId, observers, looper, local, stored, ownVars>>

Md5Use(m) ==
    /\ pc[m] = "md5_use"
    /\ IF mNewVerUrl = None
         THEN Uncaught
         ELSE /\ \E md5 \in {mNewVerUrl, None} : local' = [local EXCEPT ![m] = md5]
              /\ Goes(m, "md5_write")
              /\ UNCHANGED <<status, mDwloadId, observers, looper, stored, ownVars>>

Md5Write(m) ==
    /\ pc[m] = "md5_write"
    /\ mNewVerMD5' = local[m] /\ local' = [local EXCEPT ![m] = None]
    /\ Goes(m, "idle")
    /\ UNCHANGED <<status, mDwloadId, observers, looper, stored,
                   mNewVerUrl, mError, mQueryThrad, mICallback, latest, ui, said, counts>>

Md5(m) == Md5Test(m) \/ Md5Use(m) \/ Md5Write(m)

-----------------------------------------------------------------------------
(* The installation thread.                                                  *)

InstallBegin(i) ==
    /\ pc[i] = "begin"
    /\ mError' = "NONE"
    /\ Goes(i, "check")
    /\ UNCHANGED <<status, mDwloadId, observers, looper, local, stored,
                   mNewVerUrl, mNewVerMD5, mQueryThrad, mICallback, latest, ui, said, counts>>

\* Battery, storage, and the package.
InstallCheck(i) ==
    /\ pc[i] = "check"
    /\ \/ /\ mError' \in {"NOT_READY"} \cup (IF pkg = None THEN {"NO_PACKAGE"} ELSE {})
          /\ Goes(i, "finally") /\ UNCHANGED status
       \/ pkg # None /\ status' = "INSTALLING" /\ Goes(i, "hash") /\ UNCHANGED mError
    /\ UNCHANGED <<mDwloadId, observers, looper, local, stored,
                   mNewVerUrl, mNewVerMD5, mQueryThrad, mICallback, latest, ui, said, counts>>

\* getFileMD5 prints the digest as a number: leading zeros are lost.
Printed(content) == IF content \in LeadingZero THEN Mixed ELSE content

Hash(i) ==
    /\ pc[i] = "hash"
    /\ local' = [local EXCEPT ![i] = Printed(pkg)]
    /\ Goes(i, "compare")
    /\ UNCHANGED <<status, mDwloadId, observers, looper, stored, ownVars>>

\* Mutant: a package is accepted when the MD5 could not be had.
Verified_Unknown(i) == mNewVerMD5 \in {None, local[i]}

Verified(i) == mNewVerMD5 # None /\ local[i] = mNewVerMD5

\* Without an MD5, or with another one, the package is deleted; a package that was
\* not there to be read makes md5.equals throw.
Compare(i) ==
    /\ pc[i] = "compare"
    /\ IF mNewVerMD5 # None /\ local[i] = None
         THEN Uncaught
         ELSE /\ IF Verified(i)
                   THEN Goes(i, "unzip") /\ UNCHANGED <<mError, pkg>>
                   ELSE mError' = "NO_PACKAGE" /\ pkg' = None /\ Goes(i, "finally")
              /\ local' = [local EXCEPT ![i] = None]
              /\ UNCHANGED <<status, mDwloadId, observers, looper, savedId, tasks,
                             lastId, tmp, mNewVerUrl, mNewVerMD5, mQueryThrad,
                             mICallback, latest, ui, said, counts>>

\* Unzipping fails when the package is not there, cannot be read or has no room.
\* local[i] is what the extracted files hold.
Unzip(i) ==
    /\ pc[i] = "unzip"
    /\ \/ /\ pkg # None /\ local' = [local EXCEPT ![i] = pkg]
          /\ Goes(i, "install")
       \/ Goes(i, "io_error") /\ UNCHANGED local
    /\ UNCHANGED <<status, mDwloadId, observers, looper, stored, ownVars>>

\* installPackages restarts into recovery, which ends this process and reads the
\* extracted files; the application starts again after it. Otherwise it throws.
InstallPackages(i) ==
    /\ pc[i] = "install"
    /\ \/ Create /\ UNCHANGED <<latest, counts>>
       \/ /\ Goes(i, "io_error") /\ local' = [local EXCEPT ![i] = None]
          /\ UNCHANGED <<status, mDwloadId, observers, looper, stored, ownVars>>

\* An IOException does not set mError.
Finally(i) ==
    /\ pc[i] \in {"finally", "io_error"}
    /\ IF mError = "NONE" THEN Goes(i, "idle") /\ UNCHANGED status
                          ELSE Goes(i, "notify") /\ status' = "INSTALL_FAILED"
    /\ UNCHANGED <<mDwloadId, observers, looper, local, stored, ownVars>>

Install(i) ==
    \/ InstallBegin(i) \/ InstallCheck(i) \/ Hash(i) \/ Compare(i) \/ Unzip(i)
    \/ InstallPackages(i) \/ Finally(i) \/ Notify(i)

-----------------------------------------------------------------------------
(* The main thread: the messages of OTAUpdateActivity.                       *)

Message(m) == MainReady /\ Head(looper) = m /\ looper' = Tail(looper)

\* manualQueryNewVersion: no thread is started while one is known.
QueryVersion ==
    /\ Message("query")
    /\ view' = "querying" /\ mICallback' = TRUE
    /\ IF mQueryThrad THEN UNCHANGED <<pc, mQueryThrad>> ELSE StartQuery
    /\ UNCHANGED <<status, mDwloadId, observers, local, stored,
                   mNewVerUrl, mNewVerMD5, mError, latest,
                   shown, downloadBtn, installBtn, said, counts>>

\* downloadUpdate clears the error before it refuses or starts.
DownloadUpdate ==
    /\ Message("download")
    /\ mError' = "NONE" /\ downloadBtn' = FALSE
    /\ \/ Goes(Main, "refused")
       \/ mNewVerUrl # None /\ status # "DOWNLOADING" /\ Goes(Main, "downloading")
    /\ UNCHANGED <<status, mDwloadId, observers, local, stored,
                   mNewVerUrl, mNewVerMD5, mQueryThrad, mICallback,
                   latest, shown, view, installBtn, said, counts>>

\* Without a URL, while downloading, without network or room.
DownloadRefused ==
    /\ pc[Main] = "refused"
    /\ mError' \in {"REFUSED"} \cup
                  (IF mNewVerUrl # None /\ status # "DOWNLOADING" THEN {"NOT_READY"} ELSE {})
    /\ downloadBtn' = TRUE
    /\ Goes(Main, "idle")
    /\ UNCHANGED <<status, mDwloadId, observers, looper, local, stored,
                   mNewVerUrl, mNewVerMD5, mQueryThrad, mICallback,
                   latest, shown, view, installBtn, said, counts>>

\* mNewVerUrl is read a second time for the call of download.
SetDownloading ==
    /\ pc[Main] = "downloading"
    /\ status' = "DOWNLOADING"
    /\ local' = [local EXCEPT ![Main] = mNewVerUrl]
    /\ Goes(Main, "download")
    /\ UNCHANGED <<mDwloadId, observers, looper, stored, ownVars>>

Accepted ==
    /\ pc[Main] = "accepted"
    /\ mError' = "NONE" /\ installBtn' = "gone"
    /\ local' = [local EXCEPT ![Main] = None]
    /\ Goes(Main, "idle")
    /\ UNCHANGED <<status, mDwloadId, observers, looper, stored,
                   mNewVerUrl, mNewVerMD5, mQueryThrad, mICallback,
                   latest, shown, view, downloadBtn, said, counts>>

StartInstall == \E i \in InstallThreads :
    /\ Message("install")
    /\ installBtn' = IF installBtn = "enabled" THEN "disabled" ELSE installBtn
    /\ pc[i] = "idle" /\ Goes(i, "begin")
    /\ UNCHANGED <<status, mDwloadId, observers, local, stored,
                   service, latest, shown, view, downloadBtn, said, counts>>

Statuses ==
    {"IDLE", "REFRESH", "CATCH_NEW", "CATCH_NONE", "SERVER_ERROR", "DOWNLOADING",
     "DOWNLOAD_FAILED", "DOWNLOAD_OK", "INSTALLING", "INSTALL_FAILED"}

\* Mutant: after a failed installation the button stays disabled.
WantsInstall_Once(s) == s = "DOWNLOAD_OK"

\* For a failed installation handleResponse asks for the error of now.
WantsDownload(s) ==
    s \in {"CATCH_NEW", "DOWNLOAD_FAILED"} \/ (s = "INSTALL_FAILED" /\ mError = "NO_PACKAGE")

WantsInstall(s) ==
    s = "DOWNLOAD_OK" \/ (s = "INSTALL_FAILED" /\ mError = "NOT_READY")

HandleResponse(s) ==
    /\ Message(s)
    /\ view' = IF s # "SERVER_ERROR" THEN "version"
               ELSE IF view = "querying" THEN "error" ELSE view
    /\ downloadBtn' = CASE WantsDownload(s) -> TRUE
                        [] s \in {"CATCH_NONE", "DOWNLOAD_OK", "DOWNLOADING"} -> FALSE
                        [] OTHER -> downloadBtn
    /\ installBtn' = CASE WantsInstall(s) -> "enabled"
                       [] s = "DOWNLOADING" -> "gone"
                       [] OTHER -> installBtn
    /\ UNCHANGED <<status, mDwloadId, observers, pc, local, stored, service,
                   latest, shown, said, counts>>

MainThread ==
    \/ QueryVersion \/ DownloadRefused \/ DownloadUpdate \/ SetDownloading
    \/ Accepted \/ StartInstall \/ (\E s \in Statuses : HandleResponse(s))
    \/ Notify(Main)
    \/ (Observer \/ Download \/ Ending(Main)) /\ UNCHANGED ownVars

-----------------------------------------------------------------------------
(* The user. Presses and changes of the activity come to the main thread, too,  *)
(* between two messages; what a press asks for is posted behind those that wait. *)
\* onResume queries.
Resume ==
    /\ pc[Main] = "idle" /\ ~shown /\ shown' = TRUE /\ Counted
    /\ Room(1) /\ looper' = Append(looper, "query")
    /\ UNCHANGED <<status, mDwloadId, observers, pc, local, stored, service,
                   latest, view, downloadBtn, installBtn, said, presses, stops>>

Press(m) ==
    /\ pc[Main] = "idle"
    /\ presses < MaxPresses /\ presses' = presses + 1
    /\ Room(1) /\ looper' = Append(looper, m)
    /\ UNCHANGED <<status, mDwloadId, observers, pc, local, stored, service,
                   latest, ui, said, queries, stops>>

\* Every press may start a task: the bound on tasks is kept here.
PressDownload ==
    /\ shown /\ downloadBtn
    /\ lastId + Cardinality({n \in 1 .. Len(looper) : looper[n] = "download"}) < MaxTasks
    /\ Press("download")

PressInstall ==
    /\ shown /\ view = "version" /\ installBtn = "enabled"
    /\ Press("install")

\* onStop unbinds, and onUnbind takes the callback away.
Leave ==
    /\ pc[Main] = "idle" /\ shown /\ shown' = FALSE
    /\ mICallback' = FALSE
    /\ UNCHANGED <<dlVars, mNewVerUrl, mNewVerMD5, mError, mQueryThrad,
                   latest, view, downloadBtn, installBtn, said, counts>>

User == Resume \/ PressDownload \/ PressInstall \/ Leave

-----------------------------------------------------------------------------
Places ==
    {"idle", "success", "failed", "ok_remove", "failed_remove", "ok_unsave",
     "failed_unsave", "ok_forget", "failed_forget", "ok_set", "failed_set",
     "downloading_set", "notify", "post"}
MainPlaces ==
    {"downloading", "download", "enqueue", "commit", "register", "accepted"}
QueryPlaces ==
    {"reset", "ask", "found", "query_download", "query_task", "lost", "end"}
InstallPlaces ==
    {"begin", "check", "hash", "compare", "unzip", "install", "io_error", "finally"}
Md5Places == {"md5_test", "md5_use", "md5_write"}
Looking ==
    {"query_download", "query_task", "lost", "success", "failed", "ok_remove",
     "failed_remove", "ok_unsave", "failed_unsave", "ok_forget", "failed_forget"}

(* What the code leaves to chance. The properties below hold until the race  *)
(* that breaks them; the README says what can follow.                        *)

\* A query thread looks at the download while the main thread starts one, or the
\* process dies before the id of the new task is stored.
TaskRace ==
    \/ /\ \E q \in QueryThreads : pc'[q] \in Looking
       /\ pc'[Main] \in MainPlaces
    \/ pc[Main] = "commit" /\ pc'[Main] = "idle"

\* The package changes after its MD5 was computed and before it is unzipped.
PackageRace == pkg' # pkg /\ \E i \in InstallThreads : pc[i] \in {"compare", "unzip"} /\ pc'[i] = pc[i]

\* What the activity is told is no longer so.
NoticeRace == \E t \in Threads : said'[t] # said[t] /\ said[t] \notin {"IDLE", status}

\* The activity asks for the error of an installation that failed, and gets another.
ErrorRace == HandleResponse("INSTALL_FAILED") /\ mError \notin {"NO_PACKAGE", "NOT_READY"}

Step ==
    \/ MainThread \/ TimerTest \/ TimerStart
    \/ \E q \in QueryThreads : Query(q)
    \/ \E m \in Md5Threads : Md5(m)
    \/ \E i \in InstallThreads : Install(i)
    \/ DownloadManager /\ UNCHANGED ownVars
    \/ Release \/ User \/ Die

Next ==
    /\ Step
    /\ races' = races \cup (IF TaskRace THEN {"task"} ELSE {})
                      \cup (IF PackageRace THEN {"package"} ELSE {})
                      \cup (IF NoticeRace THEN {"notice"} ELSE {})
                      \cup (IF ErrorRace THEN {"error"} ELSE {})

Spec == Init /\ [][Next]_vars

\* The looper and the threads keep running; the user, the server, the timer and the
\* download manager owe nothing.
Fairness ==
    /\ WF_code(MainThread)
    /\ \A q \in QueryThreads : WF_code(Query(q))
    /\ \A m \in Md5Threads : WF_code(Md5(m))
    /\ \A i \in InstallThreads : WF_code(Install(i))

-----------------------------------------------------------------------------
\* ERROR_LOW_BATTERY and ERROR_STORAGE are NOT_READY, ERROR_FILE_NOTFOUND and
\* ERROR_CHECK_FAILED are NO_PACKAGE: the activity treats them alike. The others are
\* REFUSED.
Races == {"task", "package", "notice", "error"}
Errors == {"NONE", "REFUSED", "NOT_READY", "NO_PACKAGE"}
Messages ==
    Statuses \cup {"query", "download", "install", "change", "succeeded", "failed"}

TypeOK ==
    /\ status \in Statuses /\ mDwloadId \in 0 .. MaxTasks /\ savedId \in 0 .. MaxTasks
    /\ observers \in 0 .. MaxTasks + 1
    /\ looper \in Seq(Messages) /\ Len(looper) =< MaxQueue + 1
    /\ pc \in [Threads -> Places \cup MainPlaces \cup QueryPlaces \cup InstallPlaces
                           \cup Md5Places \cup {"start", "refused"}]
    /\ local \in [Threads -> Content]
    /\ tasks \in [Ids -> [state : TaskStates, ver : 0 .. MaxVersion]]
    /\ lastId \in 0 .. MaxTasks
    /\ tmp \in Content /\ pkg \in Content
    /\ mNewVerUrl \in 0 .. MaxVersion /\ mNewVerMD5 \in 0 .. MaxVersion
    /\ latest \in Versions /\ queries \in 0 .. MaxQueries
    /\ presses \in 0 .. MaxPresses /\ stops \in 0 .. MaxStops
    /\ mError \in Errors
    /\ {mQueryThrad, mICallback, shown, downloadBtn} \subseteq BOOLEAN
    /\ view \in {"none", "querying", "error", "version"}
    /\ installBtn \in {"gone", "enabled", "disabled"}
    /\ said \in [Threads -> Statuses] /\ races \subseteq Races

-----------------------------------------------------------------------------
(* Properties                                                                *)

\* The application never loses a download: every task the download manager works on is
\* the one mDwloadId names, the stored id names no other, and it is stored but for the
\* moment between enqueue and commit, or between its removal from the preferences and
\* mDwloadId = 0. So a process that dies in a download finds it again.
TaskSurvives ==
    "task" \notin races =>
        /\ \A id \in Ids : tasks[id].state # "none" => id = mDwloadId
        /\ savedId # 0 => savedId = mDwloadId
        /\ mDwloadId # 0 /\ savedId = 0 =>
              \/ pc[Main] = "commit"
              \/ \E t \in Threads : pc[t] \in {"ok_forget", "failed_forget"}

\* What installPackages is given was extracted from a whole package of one version:
\* neither a part, nor a mixture, nor damaged bytes, whatever the download manager wrote
\* and wherever the process died.
OnlyWholePackages ==
    "package" \notin races =>
        \A i \in InstallThreads : pc[i] = "install" => local[i] \in Versions

\* When all is quiet, the version is shown and there is something to be done, one of the
\* two buttons does it.
Quiet == looper = <<>> /\ \A t \in Threads : pc[t] = "idle"

ThereIsAWayOn ==
    {"notice", "error"} \cap races = {} =>
        (/\ Quiet /\ shown /\ mICallback /\ view = "version"
         /\ status \in {"CATCH_NEW", "DOWNLOAD_FAILED", "DOWNLOAD_OK", "INSTALL_FAILED"}
         => downloadBtn \/ installBtn = "enabled")

\* A query that starts while the activity shows the querying view ends it, whatever the
\* server answers and whatever the other threads do.
QueryAnswered ==
    (view = "querying" /\ mICallback /\ \E q \in QueryThreads : pc[q] = "reset")
        ~> (view # "querying" \/ ~mICallback)

\* A task that has ended and whose end was told is removed, so that mDwloadId does not
\* refuse the next download; unless the process died, and a query has to find it.
EndIsTaken ==
    (/\ mDwloadId # 0 /\ tasks[mDwloadId].state \in {"ok", "failed"}
     /\ \E n \in 1 .. Len(looper) : looper[n] \in {"change", "succeeded", "failed"})
        ~> (mDwloadId = 0 \/ status = "IDLE")

=============================================================================
