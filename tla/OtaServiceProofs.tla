------------------------- MODULE OtaServiceProofs --------------------------
(* What is installed was a whole package, no download is lost, the queue and    *)
(* the registrations stay bounded, and the user can go on: for any threads,     *)
(* versions and downloads, any number of presses, queries and deaths of the     *)
(* process.                                                                    *)
EXTENDS OtaService, TLAPS

Values == 0 .. MaxVersion

\* The threads and the files.
ThreadsOK ==
    /\ pc = [t \in Threads |-> pc[t]]
    /\ local \in [Threads -> Content]
    /\ \A t \in Threads \ InstallThreads : local[t] \in Values

FilesOK ==
    /\ tmp \in Content /\ pkg \in Content
    /\ tasks \in [Ids -> [state : TaskStates, ver : Values]]
    /\ mNewVerUrl \in Values /\ mNewVerMD5 \in Values /\ latest \in Versions

\* From the hash to the call of installPackages, the package an installation looked at
\* is the one it goes on with.
Inspected(i) ==
    /\ pc[i] = "compare" => local[i] = Printed(pkg)
    /\ pc[i] = "unzip"   => pkg \in Versions
    /\ pc[i] = "install" => local[i] \in Versions

Inspection == "package" \notin races => \A i \in InstallThreads : Inspected(i)

Inv == ThreadsOK /\ FilesOK /\ Inspection

----------------------------------------------------------------------------
\* A thread goes on, and keeps the others where they are.
LEMMA GoesOn ==
    ASSUME ThreadsOK, NEW t \in Threads, NEW to, Goes(t, to)
    PROVE  /\ pc' = [u \in Threads |-> pc'[u]]
           /\ pc'[t] = to
           /\ \A u \in Threads : u # t => pc'[u] = pc[u]
  BY DEF Goes, ThreadsOK

LEMMA Numbers ==
    /\ None \in Values /\ None \in Content /\ Mixed \in Content /\ Mixed \notin Values
    /\ Versions \subseteq Values /\ Values \subseteq Content
    /\ \A v \in Values : v # None => v \in Versions
  BY OtaAssumption DEF Values, Versions, None, Mixed, Content

LEMMA Disjoint ==
    /\ Main \in Threads \ InstallThreads /\ Timer \in Threads \ InstallThreads
    /\ QueryThreads \subseteq Threads \ InstallThreads
    /\ Md5Threads \subseteq Threads \ InstallThreads
    /\ InstallThreads \subseteq Threads
  BY OtaAssumption DEF Threads

\* A thread writes its local variable.
LEMMA Holds ==
    ASSUME ThreadsOK, NEW t \in Threads, NEW v, local' = [local EXCEPT ![t] = v],
           v \in Values \/ (t \in InstallThreads /\ v \in Content)
    PROVE  /\ local' \in [Threads -> Content]
           /\ \A u \in Threads \ InstallThreads : local'[u] \in Values
           /\ local'[t] = v
           /\ \A u \in Threads : u # t => local'[u] = local[u]
  BY Numbers DEF ThreadsOK

\* A new process.
Fresh == \A t \in Threads : pc'[t] = "idle"

\* What a step of another thread does to an installation.
Undisturbed ==
    \A i \in InstallThreads :
        /\ local'[i] = local[i]
        /\ pc'[i] = pc[i] \/ (pc[i] = "idle" /\ pc'[i] = "begin")

Harmless == ThreadsOK' /\ FilesOK' /\ (Fresh \/ Undisturbed)

LEMMA CreateHarmless ==
    ASSUME FilesOK, Create, latest' = latest
    PROVE  Harmless
  BY Numbers DEF Create, DlCreate, ThreadsOK, FilesOK, Fresh, stored, Harmless

\* A thread that is no installation's takes a step of its own.
LEMMA OwnHarmless ==
    ASSUME ThreadsOK, FilesOK', NEW t \in Threads \ InstallThreads,
           \E to : Goes(t, to),
           local' = local \/ \E v \in Values : local' = [local EXCEPT ![t] = v]
    PROVE  Harmless
  <1>1. /\ pc' = [u \in Threads |-> pc'[u]]
        /\ \A u \in Threads : u # t => pc'[u] = pc[u]
    BY GoesOn
  <1>2. /\ local' \in [Threads -> Content]
        /\ \A u \in Threads \ InstallThreads : local'[u] \in Values
        /\ \A u \in Threads : u # t => local'[u] = local[u]
    <2>1. CASE local' = local
      BY <2>1 DEF ThreadsOK
    <2>2. ASSUME NEW v \in Values, local' = [local EXCEPT ![t] = v]
          PROVE  <1>2!1 /\ <1>2!2 /\ <1>2!3
      BY <2>2, Holds
    <2> QED
      BY <2>1, <2>2
  <1>3. Undisturbed
    BY <1>1, <1>2, Disjoint DEF Undisturbed
  <1> QED
    BY <1>1, <1>2, <1>3 DEF ThreadsOK, Harmless

\* The files after a step that writes none of them.
LEMMA FilesStay ==
    ASSUME FilesOK, UNCHANGED <<tmp, pkg, tasks, mNewVerUrl, mNewVerMD5, latest>>
    PROVE  FilesOK'
  BY DEF FilesOK

\* The end of a download, on any thread but an installation's.
LEMMA EndingHarmless ==
    ASSUME ThreadsOK, FilesOK, NEW t \in Threads \ InstallThreads, Ending(t), UNCHANGED ownVars
    PROVE  Harmless
  <1> USE DEF ownVars, service, stored
  <1>1. CASE Rename(t)
    <2>1. FilesOK'
      BY <1>1 DEF Rename, FilesOK, None, Content
    <2>2. (\E to : Goes(t, to)) /\ local' = local
      BY <1>1 DEF Rename
    <2> QED
      BY <2>1, <2>2, OwnHarmless
  <1>2. CASE Failed(t)
    BY <1>2, FilesStay, OwnHarmless DEF Failed
  <1>3. CASE Remove(t)
    <2>1. FilesOK'
      BY <1>3, Numbers DEF Remove, Drop, NoTask, FilesOK, TaskStates
    <2>2. (\E to : Goes(t, to)) /\ local' = local
      BY <1>3 DEF Remove
    <2> QED
      BY <2>1, <2>2, OwnHarmless
  <1>4. CASE Unsave(t)
    BY <1>4, FilesStay, OwnHarmless DEF Unsave
  <1>5. CASE Forget(t)
    BY <1>5, FilesStay, OwnHarmless DEF Forget
  <1>6. CASE Settle(t)
    <2>1. FilesOK'
      BY <1>6, FilesStay DEF Settle
    <2>2. local' = local
      BY <1>6 DEF Settle
    <2>3. CASE \E to : Goes(t, to)
      BY <2>1, <2>2, <2>3, OwnHarmless
    <2>4. ASSUME NEW m \in Md5Threads, pc' = [pc EXCEPT ![t] = "notify", ![m] = "md5_test"]
          PROVE  Harmless
      <3>1. ThreadsOK'
        BY <2>2, <2>4 DEF ThreadsOK
      <3>2. Undisturbed
        BY <2>2, <2>4, Disjoint DEF Undisturbed, ThreadsOK
      <3> QED
        BY <2>1, <3>1, <3>2 DEF Harmless
    <2> QED
      BY <1>6, <2>3, <2>4 DEF Settle
  <1> QED
    BY <1>1, <1>2, <1>3, <1>4, <1>5, <1>6 DEF Ending

\* What is told to the activity.
LEMMA NotifyHarmless ==
    ASSUME ThreadsOK, FilesOK, NEW t \in Threads \ InstallThreads, Notify(t)
    PROVE  Harmless
  <1> USE DEF ownVars, service, stored
  <1>1. CASE NotifyRead(t)
    BY <1>1, FilesStay, OwnHarmless DEF NotifyRead
  <1>2. CASE NotifyPost(t) /\ mICallback
    BY <1>2, FilesStay, OwnHarmless DEF NotifyPost
  <1>3. CASE NotifyPost(t) /\ ~mICallback
    BY <1>3, CreateHarmless DEF NotifyPost, Uncaught
  <1> QED
    BY <1>1, <1>2, <1>3 DEF Notify

LEMMA QueryHarmless ==
    ASSUME ThreadsOK, FilesOK, NEW q \in QueryThreads, Query(q)
    PROVE  Harmless
  <1> USE DEF ownVars, service, stored
  <1>1. q \in Threads \ InstallThreads
    BY Disjoint
  <1>2. CASE Reset(q)
    <2>1. FilesOK'
      BY <1>2, Numbers DEF Reset, FilesOK
    <2> QED
      BY <1>1, <1>2, <2>1, OwnHarmless DEF Reset
  <1>3. CASE Ask(q)
    <2>1. FilesOK'
      BY <1>3, Numbers DEF Ask, FilesOK
    <2>2. \E to : Goes(q, to)
      BY <1>3 DEF Ask
    <2>3. local' = local \/ \E v \in Values : local' = [local EXCEPT ![q] = v]
      BY <1>3, Numbers DEF Ask, FilesOK
    <2> QED
      BY <1>1, <2>1, <2>2, <2>3, OwnHarmless
  <1>4. CASE Found(q)
    <2>1. FilesOK'
      BY <1>1, <1>4 DEF Found, FilesOK, ThreadsOK
    <2> QED
      BY <1>1, <1>4, <2>1, OwnHarmless, Numbers DEF Found
  <1>5. CASE NotNew(q)
    BY <1>1, <1>5, FilesStay, OwnHarmless DEF NotNew
  <1>6. CASE LookForDownload(q)
    <2>1. \E to : Goes(q, to)
      BY <1>6, Zenon DEF LookForDownload, QueryDownload
    <2> QED
      BY <1>1, <1>6, <2>1, FilesStay, OwnHarmless DEF LookForDownload, QueryDownload
  <1>7. CASE (QueryTask(q) \/ Lost(q)) /\ UNCHANGED ownVars
    <2>1. \E to : Goes(q, to)
      BY <1>7, Zenon DEF QueryTask, Lost
    <2> QED
      BY <1>1, <1>7, <2>1, FilesStay, OwnHarmless DEF QueryTask, Lost
  <1>8. CASE Ending(q) /\ UNCHANGED ownVars
    BY <1>1, <1>8, EndingHarmless
  <1>9. CASE Notify(q)
    BY <1>1, <1>9, NotifyHarmless
  <1>10. CASE QueryEnd(q)
    BY <1>1, <1>10, FilesStay, OwnHarmless DEF QueryEnd
  <1> QED
    BY <1>2, <1>3, <1>4, <1>5, <1>6, <1>7, <1>8, <1>9, <1>10 DEF Query

LEMMA Md5Harmless ==
    ASSUME ThreadsOK, FilesOK, NEW m \in Md5Threads, Md5(m)
    PROVE  Harmless
  <1> USE DEF ownVars, service, stored
  <1>1. m \in Threads \ InstallThreads
    BY Disjoint
  <1>2. CASE Md5Test(m)
    BY <1>1, <1>2, FilesStay, OwnHarmless DEF Md5Test
  <1>3. CASE Md5Use(m) /\ mNewVerUrl = None
    BY <1>3, CreateHarmless DEF Md5Use, Uncaught
  <1>4. CASE Md5Use(m) /\ mNewVerUrl # None
    <2>1. \E v \in Values : local' = [local EXCEPT ![m] = v]
      BY <1>4, Numbers DEF Md5Use, FilesOK
    <2> QED
      BY <1>1, <1>4, <2>1, FilesStay, OwnHarmless DEF Md5Use
  <1>5. CASE Md5Write(m)
    <2>1. FilesOK'
      BY <1>1, <1>5 DEF Md5Write, FilesOK, ThreadsOK
    <2> QED
      BY <1>1, <1>5, <2>1, OwnHarmless, Numbers DEF Md5Write
  <1> QED
    BY <1>2, <1>3, <1>4, <1>5 DEF Md5

\* No thread goes on.
LEMMA StillHarmless ==
    ASSUME ThreadsOK, FilesOK', UNCHANGED <<pc, local>>
    PROVE  Harmless
  BY Disjoint DEF ThreadsOK, Harmless, Undisturbed

LEMMA MainHarmless ==
    ASSUME ThreadsOK, FilesOK, MainThread
    PROVE  Harmless
  <1> USE DEF ownVars, service, stored
  <1>1. Main \in Threads \ InstallThreads
    BY Disjoint
  <1>2. CASE QueryVersion
    <2>1. FilesOK' /\ local' = local
      BY <1>2, FilesStay DEF QueryVersion, StartQuery
    <2>2. CASE UNCHANGED pc
      BY <2>1, <2>2, StillHarmless
    <2>3. ASSUME NEW q \in QueryThreads, Goes(q, "reset") PROVE Harmless
      <3>1. q \in Threads \ InstallThreads
        BY Disjoint
      <3> QED
        BY <2>1, <2>3, <3>1, OwnHarmless
    <2> QED
      BY <1>2, <2>2, <2>3 DEF QueryVersion, StartQuery
  <1>3. CASE DownloadRefused
    BY <1>1, <1>3, FilesStay, OwnHarmless DEF DownloadRefused
  <1>4. CASE DownloadUpdate
    BY <1>1, <1>4, FilesStay, OwnHarmless DEF DownloadUpdate
  <1>5. CASE SetDownloading
    <2>1. \E v \in Values : local' = [local EXCEPT ![Main] = v]
      BY <1>5 DEF SetDownloading, FilesOK
    <2> QED
      BY <1>1, <1>5, <2>1, FilesStay, OwnHarmless DEF SetDownloading
  <1>6. CASE Accepted
    BY <1>1, <1>6, FilesStay, OwnHarmless, Numbers DEF Accepted
  <1>7. CASE StartInstall
    <2>1. PICK i \in InstallThreads : pc[i] = "idle" /\ Goes(i, "begin")
      BY <1>7 DEF StartInstall
    <2>2. FilesOK' /\ local' = local
      BY <1>7, FilesStay DEF StartInstall
    <2>3. ThreadsOK' /\ Undisturbed
      BY <2>1, <2>2, GoesOn, Disjoint DEF ThreadsOK, Undisturbed
    <2> QED
      BY <2>2, <2>3 DEF Harmless
  <1>8. ASSUME NEW r \in Statuses, HandleResponse(r) PROVE Harmless
    BY <1>8, FilesStay, StillHarmless DEF HandleResponse
  <1>9. CASE Notify(Main)
    BY <1>1, <1>9, NotifyHarmless
  <1>10. CASE OnChange /\ UNCHANGED ownVars
    BY <1>10, FilesStay, StillHarmless DEF OnChange
  <1>11. CASE HandleEnd /\ UNCHANGED ownVars
    <2>1. \E to : Goes(Main, to)
      BY <1>11, Zenon DEF HandleEnd
    <2> QED
      BY <1>1, <1>11, <2>1, FilesStay, OwnHarmless DEF HandleEnd
  <1>12. CASE StartDownload /\ UNCHANGED ownVars
    <2>1. FilesOK' /\ local' = local
      BY <1>12, Numbers DEF StartDownload, FilesOK
    <2>2. \E to : Goes(Main, to)
      BY <1>12, Zenon DEF StartDownload
    <2> QED
      BY <1>1, <2>1, <2>2, OwnHarmless
  <1>13. CASE Enqueue /\ UNCHANGED ownVars
    <2>1. [state |-> "running", ver |-> local[Main]] \in [state : TaskStates, ver : Values]
      BY <1>1 DEF ThreadsOK, TaskStates
    <2>2. FilesOK'
      BY <1>13, <2>1 DEF Enqueue, FilesOK
    <2> QED
      BY <1>1, <1>13, <2>2, OwnHarmless DEF Enqueue
  <1>14. CASE Commit /\ UNCHANGED ownVars
    BY <1>1, <1>14, FilesStay, OwnHarmless DEF Commit
  <1>15. CASE Register /\ UNCHANGED ownVars
    BY <1>1, <1>15, FilesStay, OwnHarmless DEF Register
  <1>16. CASE Ending(Main) /\ UNCHANGED ownVars
    BY <1>1, <1>16, EndingHarmless
  <1> QED
    BY <1>2, <1>3, <1>4, <1>5, <1>6, <1>7, <1>8, <1>9, <1>10, <1>11, <1>12, <1>13, <1>14,
       <1>15, <1>16 DEF MainThread, Observer, Download

\* The timer, the user, the server, the download manager, and the end of the process.
LEMMA OutsideHarmless ==
    ASSUME ThreadsOK, FilesOK,
           \/ TimerTest \/ TimerStart \/ Release \/ User \/ Die
           \/ DownloadManager /\ UNCHANGED ownVars
    PROVE  Harmless
  <1> USE DEF ownVars, service, stored, ui, counts
  <1>1. CASE TimerTest
    BY <1>1, FilesStay, OwnHarmless, Disjoint DEF TimerTest
  <1>2. CASE TimerStart
    <2>1. PICK q \in QueryThreads : pc' = [pc EXCEPT ![Timer] = "idle", ![q] = "reset"]
      BY <1>2 DEF TimerStart
    <2>2. FilesOK' /\ local' = local
      BY <1>2, FilesStay DEF TimerStart
    <2>3. ThreadsOK' /\ Undisturbed
      BY <2>1, <2>2, Disjoint DEF ThreadsOK, Undisturbed
    <2> QED
      BY <2>2, <2>3 DEF Harmless
  <1>3. CASE Release
    <2>1. FilesOK'
      BY <1>3, OtaAssumption DEF Release, FilesOK, dlVars, Versions
    <2> QED
      BY <1>3, <2>1, StillHarmless DEF Release, dlVars, memory
  <1>4. CASE User
    <2>1. UNCHANGED <<pc, local, stored, mNewVerUrl, mNewVerMD5, latest>>
      BY <1>4 DEF User, Resume, PressDownload, PressInstall, Press, Leave, dlVars, memory
    <2> QED
      BY <2>1, FilesStay, StillHarmless
  <1>5. CASE Die
    BY <1>5, CreateHarmless DEF Die
  <1>6. ASSUME NEW id \in Ids, Receive(id) \/ Complete(id) \/ Fail(id), UNCHANGED ownVars
        PROVE  Harmless
    <2>1. tmp' \in Content
      BY <1>6, Numbers DEF Receive, Complete, Fail, FilesOK
    <2>2. tasks' \in [Ids -> [state : TaskStates, ver : Values]]
      BY <1>6 DEF Receive, Complete, Fail, FilesOK, TaskStates
    <2>3. UNCHANGED <<pc, local, pkg>>
      BY <1>6 DEF Receive, Complete, Fail
    <2> QED
      BY <1>6, <2>1, <2>2, <2>3, StillHarmless DEF FilesOK
  <1> QED
    BY <1>1, <1>2, <1>3, <1>4, <1>5, <1>6 DEF DownloadManager

----------------------------------------------------------------------------
\* An installation goes on by itself.
Advances(i) ==
    /\ Inspected(i) => Inspected(i)'
    /\ \A j \in InstallThreads : j # i => local'[j] = local[j] /\ pc'[j] = pc[j]

Sound(i) == ThreadsOK' /\ FilesOK' /\ (Fresh \/ Advances(i))

LEMMA CreateSound ==
    ASSUME FilesOK, Create, latest' = latest, NEW i \in InstallThreads
    PROVE  Sound(i)
  BY CreateHarmless, Numbers
     DEF Create, DlCreate, ThreadsOK, FilesOK, Fresh, stored, Harmless, Sound

LEMMA InstallSound ==
    ASSUME ThreadsOK, FilesOK, NEW i \in InstallThreads, Install(i)
    PROVE  Sound(i)
  <1> USE DEF ownVars, service, stored
  <1>1. i \in Threads /\ InstallThreads \subseteq Threads
    BY Disjoint
  <1>2. ASSUME NEW to, Goes(i, to), FilesOK',
               local' = local \/ \E v \in Content : local' = [local EXCEPT ![i] = v],
               Inspected(i) =>
                   /\ to = "compare" => local'[i] = Printed(pkg')
                   /\ to = "unzip"   => pkg' \in Versions
                   /\ to = "install" => local'[i] \in Versions
        PROVE  Sound(i)
    <2>1. /\ pc' = [u \in Threads |-> pc'[u]] /\ pc'[i] = to
          /\ \A u \in Threads : u # i => pc'[u] = pc[u]
      BY <1>1, <1>2, GoesOn
    <2>2. /\ local' \in [Threads -> Content]
          /\ \A u \in Threads \ InstallThreads : local'[u] \in Values
          /\ \A u \in Threads : u # i => local'[u] = local[u]
      <3>1. CASE local' = local
        BY <3>1 DEF ThreadsOK
      <3>2. ASSUME NEW v \in Content, local' = [local EXCEPT ![i] = v]
            PROVE  <2>2!1 /\ <2>2!2 /\ <2>2!3
        BY <1>1, <3>2, Holds
      <3> QED
        BY <1>2, <3>1, <3>2
    <2>3. Inspected(i) => Inspected(i)'
      BY <1>2, <2>1 DEF Inspected, Printed
    <2> QED
      BY <1>1, <1>2, <2>1, <2>2, <2>3 DEF Sound, ThreadsOK, Advances
  <1>3. CASE InstallBegin(i)
    <2>1. FilesOK'
      BY <1>3, FilesStay DEF InstallBegin
    <2> QED
      BY <1>2, <1>3, <2>1 DEF InstallBegin
  <1>4. CASE InstallCheck(i)
    <2>1. FilesOK'
      BY <1>4, FilesStay DEF InstallCheck
    <2> QED
      BY <1>2, <1>4, <2>1 DEF InstallCheck
  <1>5. CASE Hash(i)
    <2>1. FilesOK' /\ pkg' = pkg
      BY <1>5, FilesStay DEF Hash
    <2>2. Printed(pkg) \in Content
      BY Numbers DEF Printed, FilesOK
    <2>3. local' = [local EXCEPT ![i] = Printed(pkg)] /\ local'[i] = Printed(pkg)
      BY <1>1, <1>5 DEF Hash, ThreadsOK
    <2> QED
      BY <1>2, <1>5, <2>1, <2>2, <2>3 DEF Hash
  <1>6. CASE Compare(i) /\ mNewVerMD5 # None /\ local[i] = None
    BY <1>6, CreateSound DEF Compare, Uncaught
  <1>7. CASE Compare(i) /\ ~(mNewVerMD5 # None /\ local[i] = None)
    <2>1. FilesOK'
      BY <1>7, Numbers DEF Compare, FilesOK
    <2>2. local' = [local EXCEPT ![i] = None] /\ None \in Content
      BY <1>7, Numbers DEF Compare
    <2>3. CASE Verified(i)
      <3>1. Goes(i, "unzip") /\ pkg' = pkg
        BY <1>7, <2>3 DEF Compare
      <3>2. Inspected(i) => Printed(pkg) \in Versions
        BY <1>7, <2>3, Numbers DEF Compare, Inspected, Verified, FilesOK
      <3>3. Inspected(i) => pkg \in Versions
        BY <3>2, Numbers DEF Printed
      <3> QED
        BY <1>2, <2>1, <2>2, <3>1, <3>3
    <2>4. CASE ~Verified(i)
      <3>1. Goes(i, "finally")
        BY <1>7, <2>4 DEF Compare
      <3> QED
        BY <1>2, <2>1, <2>2, <3>1
    <2> QED
      BY <2>3, <2>4
  <1>8. CASE Unzip(i)
    <2>1. FilesOK'
      BY <1>8, FilesStay DEF Unzip
    <2>2. CASE local' = [local EXCEPT ![i] = pkg] /\ Goes(i, "install")
      <3>1. pkg \in Content /\ local'[i] = pkg /\ (Inspected(i) => pkg \in Versions)
        BY <1>1, <1>8, <2>2 DEF Unzip, Inspected, FilesOK, ThreadsOK
      <3> QED
        BY <1>2, <2>1, <2>2, <3>1
    <2>3. CASE Goes(i, "io_error") /\ local' = local
      BY <1>2, <2>1, <2>3
    <2> QED
      BY <1>8, <2>2, <2>3 DEF Unzip
  <1>9. CASE InstallPackages(i)
    <2>1. CASE Create /\ UNCHANGED latest
      BY <2>1, CreateSound
    <2>2. CASE Goes(i, "io_error") /\ local' = [local EXCEPT ![i] = None]
               /\ UNCHANGED <<stored, ownVars>>
      BY <1>2, <2>2, FilesStay, Numbers
    <2> QED
      BY <1>9, <2>1, <2>2 DEF InstallPackages
  <1>10. CASE Finally(i)
    <2>1. FilesOK' /\ local' = local
      BY <1>10, FilesStay DEF Finally
    <2>2. Goes(i, "idle") \/ Goes(i, "notify")
      BY <1>10 DEF Finally
    <2> QED
      BY <1>2, <2>1, <2>2
  <1>11. CASE NotifyRead(i)
    <2>1. FilesOK' /\ local' = local
      BY <1>11, FilesStay DEF NotifyRead
    <2>2. Goes(i, "post") \/ Goes(i, "idle") \/ Goes(i, "end")
      BY <1>11 DEF NotifyRead
    <2> QED
      BY <1>2, <2>1, <2>2
  <1>12. CASE NotifyPost(i) /\ mICallback
    <2>1. FilesOK' /\ local' = local
      BY <1>12, FilesStay DEF NotifyPost
    <2>2. Goes(i, "idle") \/ Goes(i, "end")
      BY <1>12 DEF NotifyPost
    <2> QED
      BY <1>2, <2>1, <2>2
  <1>13. CASE NotifyPost(i) /\ ~mICallback
    BY <1>13, CreateSound DEF NotifyPost, Uncaught
  <1> QED
    BY <1>3, <1>4, <1>5, <1>6, <1>7, <1>8, <1>9, <1>10, <1>11, <1>12, <1>13 DEF Install, Notify

----------------------------------------------------------------------------
\* What was inspected stays, or its change is a race.
LEMMA InspectionStays ==
    ASSUME NEW i \in InstallThreads, Inspected(i), local'[i] = local[i],
           pc'[i] = pc[i] \/ pc'[i] = "begin",
           pkg' = pkg \/ ~(pc[i] \in {"compare", "unzip"} /\ pc'[i] = pc[i])
    PROVE  Inspected(i)'
  BY DEF Inspected, Printed

LEMMA InvStep == Inv /\ [Next]_vars => Inv'
  <1> SUFFICES ASSUME Inv, [Next]_vars PROVE Inv'
    OBVIOUS
  <1>1. CASE UNCHANGED vars
    BY <1>1 DEF vars, code, dlVars, memory, stored, ownVars, service, Inv, ThreadsOK, FilesOK,
       Inspection, Inspected, Printed
  <1>2. CASE Next
    <2>1. "package" \notin races' =>
              /\ "package" \notin races
              /\ pkg' = pkg \/ \A i \in InstallThreads :
                                   ~(pc[i] \in {"compare", "unzip"} /\ pc'[i] = pc[i])
      BY <1>2 DEF Next, PackageRace
    <2>2. CASE Harmless
      <3>1. ASSUME Fresh PROVE Inspection'
        BY <3>1, Disjoint DEF Fresh, Inspection, Inspected
      <3>2. ASSUME Undisturbed PROVE Inspection'
        BY <2>1, <3>2, InspectionStays DEF Undisturbed, Inspection, Inv
      <3> QED
        BY <2>2, <3>1, <3>2 DEF Harmless, Inv
    <2>3. ASSUME NEW i \in InstallThreads, Install(i) PROVE Inv'
      <3>1. Sound(i)
        BY <2>3, InstallSound DEF Inv
      <3>2. ASSUME Fresh PROVE Inspection'
        BY <3>2, Disjoint DEF Fresh, Inspection, Inspected
      <3>3. ASSUME Advances(i) PROVE Inspection'
        BY <2>1, <3>3, InspectionStays DEF Advances, Inspection, Inv
      <3> QED
        BY <3>1, <3>2, <3>3 DEF Sound, Inv
    <2> QED
      BY <1>2, <2>2, <2>3, MainHarmless, QueryHarmless, Md5Harmless, OutsideHarmless
         DEF Next, Step, Inv
  <1> QED
    BY <1>1, <1>2

LEMMA WholeInit == Init => Inv
  <1>1. ASSUME Init PROVE Inv
    <2>1. NoTask \in [state : TaskStates, ver : Values] /\ 1 \in Versions
      BY Numbers, OtaAssumption DEF NoTask, TaskStates, Versions
    <2>2. FilesOK
      BY <1>1, <2>1, Numbers DEF Init, DlInit, FilesOK
    <2>3. ThreadsOK /\ \A t \in Threads : pc[t] = "idle"
      BY <1>1, Numbers DEF Init, DlInit, ThreadsOK
    <2> QED
      BY <2>2, <2>3, Disjoint DEF Inv, Inspection, Inspected
  <1> QED
    BY <1>1

\* Whatever the download manager wrote, whoever pressed what and wherever the process
\* died: what is given to installPackages was a whole package, but for the race in which
\* the package changes between its MD5 and its extraction.
THEOREM WholePackages == Spec => []OnlyWholePackages
  <1>1. Inv => OnlyWholePackages
    BY DEF Inv, Inspection, Inspected, OnlyWholePackages
  <1> QED
    BY <1>1, WholeInit, InvStep, PTL DEF Spec

----------------------------------------------------------------------------
(* The task the application knows of.                                        *)

ForgetPlaces == {"ok_forget", "failed_forget"}
\* From the removal of the task, or the discovery that it is not there.
EndPlaces == {"ok_unsave", "failed_unsave", "lost"} \cup ForgetPlaces

NoTaskLeft == \A id \in Ids : tasks[id].state = "none"

TaskKnown ==
    /\ mDwloadId \in 0 .. MaxTasks /\ savedId \in 0 .. MaxTasks /\ lastId \in 0 .. MaxTasks
    /\ \A id \in Ids : tasks[id].state # "none" => id = mDwloadId
    /\ savedId # 0 => savedId = mDwloadId
    /\ mDwloadId # 0 /\ savedId = 0 =>
          \/ pc[Main] = "commit"
          \/ \E t \in Threads : pc[t] \in ForgetPlaces
    /\ pc[Main] = "enqueue" => mDwloadId = 0
    /\ \A t \in Threads : pc[t] \in EndPlaces =>
          /\ t \in QueryThreads \cup {Main}
          /\ NoTaskLeft
          /\ pc[t] \in ForgetPlaces => savedId = 0

TaskInv == "task" \notin races => TaskKnown

\* A step that leaves the task alone, and every thread that deals with it.
Aside ==
    /\ UNCHANGED <<mDwloadId, savedId, lastId>>
    /\ \A id \in Ids : tasks'[id].state = "none" <=> tasks[id].state = "none"
    /\ \A t \in Threads :
          \/ pc'[t] = pc[t]
          \/ /\ pc'[t] \notin EndPlaces \cup {"enqueue"}
             /\ pc[t] \notin ForgetPlaces \cup {"commit"}

LEMMA AsideKeeps ==
    ASSUME TaskKnown, Aside
    PROVE  TaskKnown'
  <1>1. /\ UNCHANGED <<mDwloadId, savedId, lastId>>
        /\ \A id \in Ids : tasks'[id].state # "none" => tasks[id].state # "none"
        /\ NoTaskLeft => NoTaskLeft'
    BY DEF Aside, NoTaskLeft
  <1>2. Main \in Threads
    BY Disjoint
  <1>3. \A t \in Threads : pc[t] \in ForgetPlaces \cup {"commit"} => pc'[t] = pc[t]
    BY DEF Aside
  <1>4. \A t \in Threads : pc'[t] \in EndPlaces \cup {"enqueue"} => pc'[t] = pc[t]
    BY DEF Aside
  <1>5. (mDwloadId # 0 /\ savedId = 0 =>
            pc[Main] = "commit" \/ \E t \in Threads : pc[t] \in ForgetPlaces)'
    BY <1>1, <1>2, <1>3 DEF TaskKnown
  <1>6. (pc[Main] = "enqueue" => mDwloadId = 0)'
    BY <1>1, <1>2, <1>4 DEF TaskKnown
  <1>7. (\A t \in Threads : pc[t] \in EndPlaces =>
            t \in QueryThreads \cup {Main} /\ NoTaskLeft /\ (pc[t] \in ForgetPlaces => savedId = 0))'
    BY <1>1, <1>4 DEF TaskKnown
  <1> QED
    BY <1>1, <1>5, <1>6, <1>7 DEF TaskKnown

\* A step of one thread between two places that have nothing to do with the task.
LEMMA GoesAside ==
    ASSUME ThreadsOK, NEW t \in Threads, UNCHANGED <<mDwloadId, savedId, lastId, tasks>>,
           \E to : Goes(t, to) /\ to \notin EndPlaces \cup {"enqueue"},
           pc[t] \notin ForgetPlaces \cup {"commit"}
    PROVE  Aside
  BY GoesOn DEF Aside

LEMMA StillAside ==
    ASSUME UNCHANGED <<mDwloadId, savedId, lastId, tasks, pc>>
    PROVE  Aside
  BY DEF Aside

\* A new process finds the task by the stored id, or dies at the one place where it
\* cannot.
LEMMA CreateKnows ==
    ASSUME TaskKnown, Create, pc[Main] # "commit"
    PROVE  TaskKnown'
  <1>1. /\ mDwloadId' = savedId /\ UNCHANGED <<savedId, lastId, tasks>>
        /\ \A t \in Threads : pc'[t] = "idle"
    BY DEF Create, DlCreate, stored
  <1>2. \A id \in Ids : tasks[id].state # "none" => id = savedId
    <2>1. CASE savedId # 0
      BY <2>1 DEF TaskKnown
    <2>2. CASE mDwloadId = 0
      BY <2>2, OtaAssumption DEF TaskKnown, Ids
    <2>3. ASSUME NEW t \in Threads, pc[t] \in ForgetPlaces PROVE NoTaskLeft
      BY <2>3 DEF TaskKnown, EndPlaces
    <2> QED
      BY <2>1, <2>2, <2>3 DEF TaskKnown, NoTaskLeft
  <1> QED
    BY <1>1, <1>2, Disjoint DEF TaskKnown, EndPlaces, ForgetPlaces

\* What the race "task" excludes.
Apart ==
    /\ \A q \in QueryThreads : pc'[q] \in Looking => pc'[Main] \notin MainPlaces
    /\ pc[Main] = "commit" => pc'[Main] # "idle"

LEMMA CreateApart ==
    ASSUME TaskKnown, Create, Apart
    PROVE  TaskKnown'
  BY CreateKnows, Disjoint DEF Create, DlCreate, Apart

\* The end of a download.
LEMMA RemoveKnows ==
    ASSUME ThreadsOK, FilesOK, TaskKnown, NEW t \in QueryThreads \cup {Main}, Remove(t)
    PROVE  TaskKnown'
  <1>1. t \in Threads /\ Main \in Threads
    BY Disjoint
  <1>2. \E to : Goes(t, to) /\ to \in {"ok_unsave", "failed_unsave"}
    BY <1>1 DEF Remove
  <1>3. /\ pc'[t] \in {"ok_unsave", "failed_unsave"}
        /\ \A u \in Threads : u # t => pc'[u] = pc[u]
    BY <1>1, <1>2, GoesOn
  <1>4. UNCHANGED <<mDwloadId, savedId, lastId>> /\ pc[t] \in {"ok_remove", "failed_remove"}
    BY DEF Remove
  <1>5. NoTaskLeft'
    <2>1. Drop(mDwloadId)
      BY DEF Remove
    <2>2. CASE mDwloadId # 0 /\ tasks[mDwloadId].state # "none"
      <3>1. tasks' = [tasks EXCEPT ![mDwloadId] = NoTask]
        BY <2>1, <2>2 DEF Drop
      <3> QED
        BY <3>1 DEF NoTaskLeft, NoTask, TaskKnown, FilesOK
    <2>3. CASE ~(mDwloadId # 0 /\ tasks[mDwloadId].state # "none")
      BY <2>1, <2>3, OtaAssumption DEF Drop, NoTaskLeft, TaskKnown, Ids
    <2> QED
      BY <2>2, <2>3
  <1>6. (mDwloadId # 0 /\ savedId = 0 =>
            pc[Main] = "commit" \/ \E u \in Threads : pc[u] \in ForgetPlaces)'
    BY <1>1, <1>3, <1>4 DEF TaskKnown, ForgetPlaces
  <1>7. (\A u \in Threads : pc[u] \in EndPlaces =>
            u \in QueryThreads \cup {Main} /\ NoTaskLeft /\ (pc[u] \in ForgetPlaces => savedId = 0))'
    BY <1>3, <1>4, <1>5 DEF TaskKnown, ForgetPlaces, EndPlaces
  <1>8. (pc[Main] = "enqueue" => mDwloadId = 0)'
    BY <1>1, <1>3, <1>4 DEF TaskKnown
  <1> QED
    BY <1>4, <1>5, <1>6, <1>7, <1>8 DEF TaskKnown, NoTaskLeft

LEMMA UnsaveKnows ==
    ASSUME ThreadsOK, TaskKnown, NEW t \in QueryThreads \cup {Main}, Unsave(t)
    PROVE  TaskKnown'
  <1>1. t \in Threads /\ Main \in Threads
    BY Disjoint
  <1>2. \E to : Goes(t, to) /\ to \in ForgetPlaces
    BY <1>1 DEF Unsave, ForgetPlaces
  <1>3. /\ pc'[t] \in ForgetPlaces
        /\ \A u \in Threads : u # t => pc'[u] = pc[u]
    BY <1>1, <1>2, GoesOn
  <1>4. UNCHANGED <<mDwloadId, tasks, lastId>> /\ savedId' = 0 /\ pc[t] \in EndPlaces
    BY DEF Unsave, EndPlaces
  <1>5. NoTaskLeft /\ NoTaskLeft'
    BY <1>1, <1>4 DEF TaskKnown, NoTaskLeft
  <1>6. (\A u \in Threads : pc[u] \in EndPlaces =>
            u \in QueryThreads \cup {Main} /\ NoTaskLeft /\ (pc[u] \in ForgetPlaces => savedId = 0))'
    BY <1>3, <1>4, <1>5 DEF TaskKnown
  <1>7. (pc[Main] = "enqueue" => mDwloadId = 0)'
    BY <1>1, <1>3, <1>4 DEF TaskKnown, ForgetPlaces
  <1> QED
    BY <1>1, <1>3, <1>4, <1>5, <1>6, <1>7, OtaAssumption DEF TaskKnown, NoTaskLeft

LEMMA ForgetKnows ==
    ASSUME ThreadsOK, TaskKnown, NEW t \in QueryThreads \cup {Main},
           Forget(t) \/ (t # Main /\ Lost(t))
    PROVE  TaskKnown'
  <1>1. t \in Threads /\ Main \in Threads
    BY Disjoint
  <1>2. \E to : Goes(t, to) /\ to \in {"ok_set", "failed_set", "notify"}
    BY <1>1 DEF Forget, Lost
  <1>3. /\ pc'[t] \in {"ok_set", "failed_set", "notify"}
        /\ \A u \in Threads : u # t => pc'[u] = pc[u]
    BY <1>1, <1>2, GoesOn
  <1>4. pc[t] \in EndPlaces /\ (pc[t] = "lost" \/ pc[t] \in ForgetPlaces)
    BY DEF Forget, Lost, EndPlaces, ForgetPlaces
  <1>5. UNCHANGED <<tasks, lastId>> /\ mDwloadId' = 0 /\ savedId' = 0
    BY <1>1, <1>4 DEF Forget, Lost, stored, TaskKnown, EndPlaces, ForgetPlaces
  <1>6. NoTaskLeft /\ NoTaskLeft'
    BY <1>1, <1>4, <1>5 DEF TaskKnown, NoTaskLeft
  <1>7. (\A u \in Threads : pc[u] \in EndPlaces =>
            u \in QueryThreads \cup {Main} /\ NoTaskLeft /\ (pc[u] \in ForgetPlaces => savedId = 0))'
    BY <1>3, <1>5, <1>6 DEF TaskKnown, EndPlaces, ForgetPlaces
  <1> QED
    BY <1>5, <1>6, <1>7, OtaAssumption DEF TaskKnown, NoTaskLeft

LEMMA EndingKnows ==
    ASSUME ThreadsOK, FilesOK, TaskKnown, NEW t \in QueryThreads \cup {Main}, Ending(t)
    PROVE  TaskKnown'
  <1> USE DEF stored, EndPlaces, ForgetPlaces
  <1>1. t \in Threads
    BY Disjoint
  <1>2. CASE Rename(t)
    <2>1. \E to : Goes(t, to) /\ to \in {"ok_set", "ok_remove"}
      BY <1>2 DEF Rename
    <2> QED
      BY <1>1, <1>2, <2>1, GoesAside, AsideKeeps DEF Rename
  <1>3. CASE Failed(t)
    <2>1. \E to : Goes(t, to) /\ to \in {"failed_set", "failed_remove"}
      BY <1>3 DEF Failed
    <2> QED
      BY <1>1, <1>3, <2>1, GoesAside, AsideKeeps DEF Failed
  <1>4. CASE Settle(t)
    <2>1. /\ UNCHANGED <<mDwloadId, savedId, lastId, tasks>>
          /\ pc[t] \in {"ok_set", "failed_set", "downloading_set"}
      BY <1>4 DEF Settle
    <2>2. CASE Goes(t, "notify")
      BY <1>1, <2>1, <2>2, GoesAside, AsideKeeps
    <2>3. ASSUME NEW m \in Md5Threads, pc[m] = "idle",
                 pc' = [pc EXCEPT ![t] = "notify", ![m] = "md5_test"]
          PROVE  TaskKnown'
      <3>1. Aside
        BY <1>1, <2>1, <2>3, Disjoint DEF Aside, ThreadsOK
      <3> QED
        BY <3>1, AsideKeeps
    <2> QED
      BY <1>4, <2>2, <2>3 DEF Settle
  <1> QED
    BY <1>2, <1>3, <1>4, RemoveKnows, UnsaveKnows, ForgetKnows DEF Ending

LEMMA NotifyKnows ==
    ASSUME ThreadsOK, TaskKnown, Apart, NEW t \in Threads, Notify(t)
    PROVE  TaskKnown'
  <1> USE DEF stored, EndPlaces, ForgetPlaces
  <1>1. CASE NotifyRead(t)
    <2>1. Goes(t, "post") \/ Goes(t, "idle") \/ Goes(t, "end")
      BY <1>1 DEF NotifyRead
    <2> QED
      BY <1>1, <2>1, GoesAside, AsideKeeps DEF NotifyRead
  <1>2. CASE NotifyPost(t) /\ mICallback
    <2>1. Goes(t, "idle") \/ Goes(t, "end")
      BY <1>2 DEF NotifyPost
    <2> QED
      BY <1>2, <2>1, GoesAside, AsideKeeps DEF NotifyPost
  <1>3. CASE NotifyPost(t) /\ ~mICallback
    BY <1>3, CreateApart DEF NotifyPost, Uncaught
  <1> QED
    BY <1>1, <1>2, <1>3 DEF Notify

LEMMA QueryKnows ==
    ASSUME ThreadsOK, FilesOK, TaskKnown, Apart, NEW q \in QueryThreads, Query(q)
    PROVE  TaskKnown'
  <1> USE DEF stored, EndPlaces, ForgetPlaces, ownVars, service
  <1>1. q \in Threads /\ q # Main
    BY Disjoint, OtaAssumption
  <1>2. CASE Reset(q)
    BY <1>1, <1>2, GoesAside, AsideKeeps DEF Reset
  <1>3. CASE Ask(q)
    BY <1>1, <1>3, GoesAside, AsideKeeps DEF Ask
  <1>4. CASE Found(q) \/ NotNew(q) \/ QueryEnd(q)
    BY <1>1, <1>4, GoesAside, AsideKeeps DEF Found, NotNew, QueryEnd
  <1>5. CASE LookForDownload(q)
    <2>1. /\ UNCHANGED <<mDwloadId, savedId, lastId, tasks>> /\ pc[q] = "query_download"
      BY <1>5 DEF LookForDownload, QueryDownload
    <2>2. Goes(q, "notify") \/ Goes(q, "ok_set") \/ Goes(q, "query_task")
      BY <1>5 DEF LookForDownload, QueryDownload
    <2> QED
      BY <1>1, <2>1, <2>2, GoesAside, AsideKeeps
  <1>6. CASE QueryTask(q)
    <2>1. /\ UNCHANGED <<mDwloadId, savedId, lastId, tasks>> /\ pc[q] = "query_task"
      BY <1>6 DEF QueryTask
    <2>2. ASSUME Goes(q, "lost"), NoTaskLeft PROVE TaskKnown'
      <3>1. pc'[q] = "lost" /\ \A u \in Threads : u # q => pc'[u] = pc[u]
        BY <1>1, <2>2, GoesOn
      <3>2. Main \in Threads
        BY Disjoint
      <3>3. (mDwloadId # 0 /\ savedId = 0 =>
                pc[Main] = "commit" \/ \E u \in Threads : pc[u] \in ForgetPlaces)'
        BY <1>1, <2>1, <3>1, <3>2 DEF TaskKnown
      <3>4. (\A u \in Threads : pc[u] \in EndPlaces =>
                /\ u \in QueryThreads \cup {Main}
                /\ NoTaskLeft
                /\ pc[u] \in ForgetPlaces => savedId = 0)'
        BY <2>1, <2>2, <3>1 DEF TaskKnown, NoTaskLeft
      <3> QED
        BY <1>1, <2>1, <3>1, <3>2, <3>3, <3>4 DEF TaskKnown
    <2>3. CASE mDwloadId = 0
      <3>1. NoTaskLeft
        BY <2>3, OtaAssumption DEF TaskKnown, NoTaskLeft, Ids
      <3>2. Goes(q, "lost")
        BY <1>6, <2>3 DEF QueryTask
      <3> QED
        BY <2>2, <3>1, <3>2
    <2>4. CASE mDwloadId # 0
      <3>1. mDwloadId \in Ids /\ tasks[mDwloadId].state \in TaskStates
        BY <2>4, OtaAssumption DEF TaskKnown, Ids, FilesOK
      <3> DEFINE to == [running |-> "downloading_set", ok |-> "success",
                        failed |-> "failed", none |-> "lost"][tasks[mDwloadId].state]
      <3>2. Goes(q, to)
        BY <1>6, <2>4 DEF QueryTask
      <3>3. /\ to \in {"downloading_set", "success", "failed", "lost"}
            /\ to = "lost" => tasks[mDwloadId].state = "none"
        BY <3>1 DEF TaskStates
      <3> HIDE DEF to
      <3>4. CASE to # "lost"
        BY <1>1, <2>1, <3>2, <3>3, <3>4, GoesAside, AsideKeeps
      <3>5. CASE to = "lost"
        <4>1. NoTaskLeft
          BY <3>3, <3>5 DEF TaskKnown, NoTaskLeft
        <4> QED
          BY <2>2, <3>2, <3>5, <4>1
      <3> QED
        BY <3>4, <3>5
    <2> QED
      BY <2>3, <2>4
  <1>7. CASE Lost(q)
    BY <1>1, <1>7, ForgetKnows
  <1>8. CASE Ending(q)
    BY <1>8, EndingKnows
  <1>9. CASE Notify(q)
    BY <1>1, <1>9, NotifyKnows
  <1> QED
    BY <1>2, <1>3, <1>4, <1>5, <1>6, <1>7, <1>8, <1>9 DEF Query

LEMMA Md5Knows ==
    ASSUME ThreadsOK, TaskKnown, Apart, NEW m \in Md5Threads, Md5(m)
    PROVE  TaskKnown'
  <1> USE DEF stored, EndPlaces, ForgetPlaces
  <1>1. m \in Threads
    BY Disjoint
  <1>2. CASE Md5Test(m)
    <2>1. Goes(m, "md5_write") \/ Goes(m, "md5_use")
      BY <1>2 DEF Md5Test
    <2> QED
      BY <1>1, <1>2, <2>1, GoesAside, AsideKeeps DEF Md5Test
  <1>3. CASE Md5Use(m) /\ mNewVerUrl = None
    BY <1>3, CreateApart DEF Md5Use, Uncaught
  <1>4. CASE Md5Use(m) /\ mNewVerUrl # None
    BY <1>1, <1>4, GoesAside, AsideKeeps DEF Md5Use
  <1>5. CASE Md5Write(m)
    BY <1>1, <1>5, GoesAside, AsideKeeps DEF Md5Write
  <1> QED
    BY <1>2, <1>3, <1>4, <1>5 DEF Md5

LEMMA InstallKnows ==
    ASSUME ThreadsOK, TaskKnown, Apart, NEW i \in InstallThreads, Install(i)
    PROVE  TaskKnown'
  <1> USE DEF stored, ownVars, service, EndPlaces, ForgetPlaces
  <1>1. i \in Threads
    BY Disjoint
  <1>2. CASE InstallBegin(i) \/ Hash(i)
    BY <1>1, <1>2, GoesAside, AsideKeeps DEF InstallBegin, Hash
  <1>3. CASE InstallCheck(i)
    BY <1>1, <1>3, GoesAside, AsideKeeps DEF InstallCheck
  <1>4. CASE Compare(i)
    <2>1. CASE Uncaught
      BY <2>1, CreateApart DEF Uncaught
    <2>2. CASE ~Uncaught
      <3>1. Goes(i, "unzip") \/ Goes(i, "finally")
        BY <1>4, <2>2 DEF Compare
      <3>2. UNCHANGED <<mDwloadId, savedId, lastId, tasks>> /\ pc[i] = "compare"
        BY <1>4, <2>2 DEF Compare
      <3> QED
        BY <1>1, <3>1, <3>2, GoesAside, AsideKeeps
    <2> QED
      BY <2>1, <2>2
  <1>5. CASE Unzip(i)
    BY <1>1, <1>5, GoesAside, AsideKeeps DEF Unzip
  <1>6. CASE InstallPackages(i)
    <2>1. CASE Create
      BY <2>1, CreateApart
    <2>2. CASE Goes(i, "io_error") /\ UNCHANGED <<mDwloadId, stored>>
      BY <1>1, <1>6, <2>2, GoesAside, AsideKeeps DEF InstallPackages
    <2> QED
      BY <1>6, <2>1, <2>2 DEF InstallPackages
  <1>7. CASE Finally(i)
    <2>1. Goes(i, "idle") \/ Goes(i, "notify")
      BY <1>7 DEF Finally
    <2> QED
      BY <1>1, <1>7, <2>1, GoesAside, AsideKeeps DEF Finally
  <1>8. CASE Notify(i)
    BY <1>1, <1>8, NotifyKnows
  <1> QED
    BY <1>2, <1>3, <1>4, <1>5, <1>6, <1>7, <1>8 DEF Install

\* download: the id is kept in memory as soon as there is a task, and stored after it.
LEMMA DownloadKnows ==
    ASSUME ThreadsOK, FilesOK, TaskKnown, Apart, Download
    PROVE  TaskKnown'
  <1> USE DEF stored, EndPlaces, ForgetPlaces
  <1>1. Main \in Threads /\ QueryThreads \subseteq Threads /\ Main \notin QueryThreads
    BY Disjoint, OtaAssumption
  <1>2. CASE StartDownload /\ mDwloadId # 0
    BY <1>1, <1>2, GoesAside, AsideKeeps DEF StartDownload
  <1>3. CASE StartDownload /\ mDwloadId = 0
    <2>1. Goes(Main, "accepted") \/ Goes(Main, "enqueue")
      BY <1>3 DEF StartDownload
    <2>2. /\ pc'[Main] \in {"accepted", "enqueue"}
          /\ \A u \in Threads : u # Main => pc'[u] = pc[u]
      BY <1>1, <2>1, GoesOn
    <2>3. UNCHANGED <<mDwloadId, savedId, lastId, tasks>>
      BY <1>3 DEF StartDownload
    <2> QED
      BY <1>1, <1>3, <2>2, <2>3 DEF TaskKnown, NoTaskLeft
  <1>4. CASE Enqueue
    <2>1. /\ pc'[Main] = "commit"
          /\ \A u \in Threads : u # Main => pc'[u] = pc[u]
      BY <1>1, <1>4, GoesOn DEF Enqueue
    <2>2. /\ mDwloadId = 0 /\ savedId = 0 /\ savedId' = 0
          /\ lastId' = lastId + 1 /\ mDwloadId' = lastId + 1
          /\ lastId + 1 \in 1 .. MaxTasks
      BY <1>4, OtaAssumption DEF Enqueue, TaskKnown
    <2>3. \A t \in Threads : pc'[t] \notin EndPlaces
      BY <1>1, <2>1 DEF Apart, TaskKnown, Looking, MainPlaces
    <2>4. \A id \in Ids : tasks'[id].state # "none" => id = lastId + 1
      BY <1>4, <2>2, OtaAssumption DEF Enqueue, TaskKnown, FilesOK, Ids
    <2> QED
      BY <2>1, <2>2, <2>3, <2>4, OtaAssumption DEF TaskKnown
  <1>5. CASE Commit
    <2>1. /\ pc'[Main] = "register"
          /\ \A u \in Threads : u # Main => pc'[u] = pc[u]
      BY <1>1, <1>5, GoesOn DEF Commit
    <2>2. UNCHANGED <<mDwloadId, lastId, tasks>> /\ savedId' = mDwloadId
      BY <1>5 DEF Commit
    <2>3. \A t \in Threads : pc'[t] \notin EndPlaces
      BY <1>1, <2>1 DEF Apart, TaskKnown, Looking, MainPlaces
    <2> QED
      BY <2>1, <2>2, <2>3 DEF TaskKnown
  <1>6. CASE Register
    BY <1>1, <1>6, GoesAside, AsideKeeps DEF Register
  <1> QED
    BY <1>2, <1>3, <1>4, <1>5, <1>6 DEF Download

LEMMA MainKnows ==
    ASSUME ThreadsOK, FilesOK, TaskKnown, Apart, MainThread
    PROVE  TaskKnown'
  <1> USE DEF stored, ownVars, service, EndPlaces, ForgetPlaces
  <1>1. Main \in Threads /\ Main \in QueryThreads \cup {Main}
    BY Disjoint
  <1>2. CASE QueryVersion
    <2>1. UNCHANGED <<mDwloadId, savedId, lastId, tasks>>
      BY <1>2 DEF QueryVersion
    <2>2. CASE UNCHANGED pc
      BY <2>1, <2>2, StillAside, AsideKeeps
    <2>3. ASSUME NEW q \in QueryThreads, pc[q] = "idle", Goes(q, "reset") PROVE TaskKnown'
      <3>1. q \in Threads
        BY Disjoint
      <3> QED
        BY <2>1, <2>3, <3>1, GoesAside, AsideKeeps
    <2> QED
      BY <1>2, <2>2, <2>3 DEF QueryVersion, StartQuery
  <1>3. CASE DownloadRefused
    BY <1>1, <1>3, GoesAside, AsideKeeps DEF DownloadRefused
  <1>4. CASE DownloadUpdate
    BY <1>1, <1>4, GoesAside, AsideKeeps DEF DownloadUpdate, Message, MainReady
  <1>5. CASE SetDownloading \/ Accepted
    BY <1>1, <1>5, GoesAside, AsideKeeps DEF SetDownloading, Accepted
  <1>6. CASE StartInstall
    <2>1. PICK i \in InstallThreads : pc[i] = "idle" /\ Goes(i, "begin")
      BY <1>6 DEF StartInstall
    <2>2. i \in Threads /\ UNCHANGED <<mDwloadId, savedId, lastId, tasks>>
      BY <1>6, Disjoint DEF StartInstall
    <2> QED
      BY <2>1, <2>2, GoesAside, AsideKeeps
  <1>7. ASSUME NEW r \in Statuses, HandleResponse(r) PROVE TaskKnown'
    BY <1>7, StillAside, AsideKeeps DEF HandleResponse
  <1>8. CASE Notify(Main)
    BY <1>1, <1>8, NotifyKnows
  <1>9. CASE OnChange
    BY <1>9, StillAside, AsideKeeps DEF OnChange
  <1>10. CASE HandleEnd
    <2>1. Goes(Main, "success") \/ Goes(Main, "failed")
      BY <1>10 DEF HandleEnd
    <2> QED
      BY <1>1, <1>10, <2>1, GoesAside, AsideKeeps DEF HandleEnd, MainReady
  <1>11. CASE Download
    BY <1>11, DownloadKnows
  <1>12. CASE Ending(Main)
    BY <1>1, <1>12, EndingKnows
  <1> QED
    BY <1>2, <1>3, <1>4, <1>5, <1>6, <1>7, <1>8, <1>9, <1>10, <1>11, <1>12
       DEF MainThread, Observer

LEMMA OutsideKnows ==
    ASSUME ThreadsOK, FilesOK, TaskKnown, Apart,
           \/ TimerTest \/ TimerStart \/ Release \/ User \/ Die
           \/ DownloadManager /\ UNCHANGED ownVars
    PROVE  TaskKnown'
  <1> USE DEF stored, ownVars, service, EndPlaces, ForgetPlaces
  <1>1. CASE TimerTest
    BY <1>1, GoesAside, AsideKeeps, Disjoint DEF TimerTest
  <1>2. CASE TimerStart
    <2>1. PICK q \in QueryThreads :
             pc[q] = "idle" /\ pc' = [pc EXCEPT ![Timer] = "idle", ![q] = "reset"]
      BY <1>2 DEF TimerStart
    <2>2. UNCHANGED <<mDwloadId, savedId, lastId, tasks>> /\ pc[Timer] = "start"
      BY <1>2 DEF TimerStart
    <2>3. Aside
      BY <2>1, <2>2, Disjoint DEF Aside, ThreadsOK
    <2> QED
      BY <2>3, AsideKeeps
  <1>3. CASE Release \/ User
    <2>1. UNCHANGED <<mDwloadId, savedId, lastId, tasks, pc>>
      BY <1>3 DEF Release, User, Resume, PressDownload, PressInstall, Press, Leave, dlVars,
         memory
    <2> QED
      BY <2>1, StillAside, AsideKeeps
  <1>4. CASE Die
    BY <1>4, CreateApart DEF Die
  <1>5. ASSUME NEW id \in Ids, Receive(id) \/ Complete(id) \/ Fail(id) PROVE TaskKnown'
    <2>1. UNCHANGED <<mDwloadId, savedId, lastId, pc>>
      BY <1>5 DEF Receive, Complete, Fail
    <2>2. \A d \in Ids : tasks'[d].state = "none" <=> tasks[d].state = "none"
      BY <1>5 DEF Receive, Complete, Fail, Running, FilesOK
    <2> QED
      BY <2>1, <2>2, AsideKeeps DEF Aside
  <1> QED
    BY <1>1, <1>2, <1>3, <1>4, <1>5 DEF DownloadManager

LEMMA TaskStep == Inv /\ TaskInv /\ [Next]_vars => TaskInv'
  <1> SUFFICES ASSUME Inv, TaskInv, [Next]_vars, "task" \notin races' PROVE TaskKnown'
    BY DEF TaskInv
  <1>1. CASE UNCHANGED vars
    BY <1>1 DEF vars, code, dlVars, memory, stored, TaskInv, TaskKnown, NoTaskLeft
  <1>2. CASE Next
    <2>1. TaskKnown /\ Apart
      BY <1>2 DEF Next, TaskRace, TaskInv, Apart
    <2>2. ThreadsOK /\ FilesOK /\ Step
      BY <1>2 DEF Inv, Next
    <2> QED
      BY <2>1, <2>2, MainKnows, QueryKnows, Md5Knows, InstallKnows, OutsideKnows DEF Step
  <1> QED
    BY <1>1, <1>2

\* The application never loses a download, whenever the process dies and whatever the
\* threads do, but for the races in which the main thread starts a download while a query
\* looks for one, or dies between enqueue and commit.
THEOREM DownloadKept == Spec => []TaskSurvives
  <1>1. ASSUME Init PROVE TaskInv
    <2>1. /\ mDwloadId = 0 /\ savedId = 0 /\ lastId = 0
          /\ \A id \in Ids : tasks[id].state = "none"
          /\ \A t \in Threads : pc[t] = "idle"
      BY <1>1 DEF Init, DlInit, NoTask
    <2> QED
      BY <2>1, Disjoint, OtaAssumption DEF TaskInv, TaskKnown, EndPlaces, ForgetPlaces
  <1>2. TaskInv => TaskSurvives
    BY DEF TaskInv, TaskKnown, TaskSurvives, ForgetPlaces
  <1>3. Spec => []Inv
    BY WholeInit, InvStep, PTL DEF Spec
  <1> QED
    BY <1>1, <1>2, <1>3, TaskStep, PTL DEF Spec

----------------------------------------------------------------------------
(* Types, the length of the queue and the registrations of the observer.      *)

AllPlaces ==
    Places \cup MainPlaces \cup QueryPlaces \cup InstallPlaces \cup Md5Places \cup {"start", "refused"}

PcOK == pc \in [Threads -> AllPlaces]

\* Whoever but the main thread posts finds room; the main thread posts only after it
\* has taken a message.
QueueOK ==
    /\ looper \in Seq(Messages)
    /\ Len(looper) =< MaxQueue + 1
    /\ pc[Main] # "idle" => Len(looper) =< MaxQueue

\* The observer is registered once by the constructor, and once for each task since.
CountsOK ==
    /\ mDwloadId \in 0 .. MaxTasks /\ savedId \in 0 .. MaxTasks /\ lastId \in 0 .. MaxTasks
    /\ observers \in Nat /\ observers =< lastId + 1
    /\ pc[Main] \in {"commit", "register"} => observers =< lastId

OwnOK ==
    /\ status \in Statuses /\ mError \in Errors
    /\ said \in [Threads -> Statuses]
    /\ view \in {"none", "querying", "error", "version"}
    /\ installBtn \in {"gone", "enabled", "disabled"}
    /\ queries \in 0 .. MaxQueries /\ presses \in 0 .. MaxPresses /\ stops \in 0 .. MaxStops
    /\ races \subseteq Races

SwitchesOK ==
    /\ mQueryThrad \in BOOLEAN /\ mICallback \in BOOLEAN
    /\ shown \in BOOLEAN /\ downloadBtn \in BOOLEAN

TypeInv == Inv /\ PcOK /\ QueueOK /\ CountsOK /\ OwnOK /\ SwitchesOK

LEMMA TypeParts == TypeInv => TypeOK
  <1> SUFFICES ASSUME TypeInv PROVE TypeOK
    OBVIOUS
  <1>1. observers \in 0 .. MaxTasks + 1
    BY OtaAssumption DEF TypeInv, CountsOK
  <1>2. {mQueryThrad, mICallback, shown, downloadBtn} \subseteq BOOLEAN
    BY DEF TypeInv, SwitchesOK
  <1>3. /\ pc \in [Threads -> Places \cup MainPlaces \cup QueryPlaces \cup InstallPlaces
                           \cup Md5Places \cup {"start", "refused"}]
        /\ local \in [Threads -> Content]
    BY DEF TypeInv, Inv, ThreadsOK, PcOK, AllPlaces
  <1>4. /\ tasks \in [Ids -> [state : TaskStates, ver : 0 .. MaxVersion]]
        /\ tmp \in Content /\ pkg \in Content /\ latest \in Versions
        /\ mNewVerUrl \in 0 .. MaxVersion /\ mNewVerMD5 \in 0 .. MaxVersion
    BY DEF TypeInv, Inv, FilesOK, Values
  <1>5. /\ looper \in Seq(Messages) /\ Len(looper) =< MaxQueue + 1
        /\ mDwloadId \in 0 .. MaxTasks /\ savedId \in 0 .. MaxTasks /\ lastId \in 0 .. MaxTasks
    BY DEF TypeInv, QueueOK, CountsOK
  <1> QED
    BY <1>1, <1>2, <1>3, <1>4, <1>5 DEF TypeInv, OwnOK, TypeOK

\* A thread goes to a place, and at most one other begins.
LEMMA PlacesStep ==
    ASSUME ThreadsOK, PcOK, FilesOK, CountsOK, Step
    PROVE  PcOK'
  <1> USE DEF PcOK, AllPlaces, Places, MainPlaces, QueryPlaces, InstallPlaces, Md5Places
  <1>1. ASSUME NEW t \in Threads, NEW to \in AllPlaces, Goes(t, to) PROVE PcOK'
    BY <1>1 DEF Goes
  <1>2. ASSUME Create PROVE PcOK'
    BY <1>2 DEF Create, DlCreate
  <1>3. ASSUME NEW t \in Threads, Ending(t) PROVE PcOK'
    <2>1. CASE Rename(t) \/ Failed(t) \/ Remove(t) \/ Unsave(t) \/ Forget(t)
      BY <1>1, <1>3, <2>1 DEF Rename, Failed, Remove, Unsave, Forget
    <2>2. CASE Settle(t)
      BY <1>1, <2>2, Disjoint DEF Settle
    <2> QED
      BY <1>3, <2>1, <2>2 DEF Ending
  <1>4. ASSUME NEW t \in Threads, Notify(t) PROVE PcOK'
    BY <1>1, <1>2, <1>4 DEF Notify, NotifyRead, NotifyPost, Uncaught
  <1>5. ASSUME NEW q \in QueryThreads, Query(q) PROVE PcOK'
    <2>1. CASE QueryTask(q)
      <3>1. mDwloadId = 0 \/ mDwloadId \in Ids
        BY DEF CountsOK, Ids
      <3>2. mDwloadId \in Ids => tasks[mDwloadId].state \in TaskStates
        BY DEF FilesOK
      <3> QED
        BY <1>1, <2>1, <3>1, <3>2, Disjoint DEF QueryTask, TaskStates
    <2>2. CASE Reset(q) \/ Ask(q) \/ Found(q) \/ NotNew(q) \/ LookForDownload(q) \/ Lost(q)
               \/ QueryEnd(q)
      BY <1>1, <2>2, Disjoint
         DEF Reset, Ask, Found, NotNew, LookForDownload, QueryDownload, Lost, QueryEnd
    <2> QED
      BY <1>3, <1>4, <1>5, <2>1, <2>2, Disjoint DEF Query
  <1>6. ASSUME NEW m \in Md5Threads, Md5(m) PROVE PcOK'
    BY <1>1, <1>2, <1>6, Disjoint DEF Md5, Md5Test, Md5Use, Md5Write, Uncaught
  <1>7. ASSUME NEW i \in InstallThreads, Install(i) PROVE PcOK'
    BY <1>1, <1>2, <1>4, <1>7, Disjoint
       DEF Install, InstallBegin, InstallCheck, Hash, Compare, Unzip, InstallPackages, Finally,
           Uncaught
  <1>8. ASSUME MainThread PROVE PcOK'
    <2>1. CASE QueryVersion \/ StartInstall
      BY <1>1, <2>1, Disjoint DEF QueryVersion, StartQuery, StartInstall
    <2>2. CASE (\E s \in Statuses : HandleResponse(s)) \/ OnChange
      BY <2>2 DEF HandleResponse, OnChange
    <2>3. CASE DownloadUpdate \/ DownloadRefused \/ SetDownloading \/ Accepted \/ HandleEnd
      BY <1>1, <2>3, Disjoint
         DEF DownloadUpdate, DownloadRefused, SetDownloading, Accepted, HandleEnd
    <2>4. CASE Download
      BY <1>1, <2>4, Disjoint DEF Download, StartDownload, Enqueue, Commit, Register
    <2> QED
      BY <1>3, <1>4, <1>8, <2>1, <2>2, <2>3, <2>4, Disjoint DEF MainThread, Observer
  <1>9. CASE TimerTest \/ TimerStart
    BY <1>1, <1>9, Disjoint DEF TimerTest, TimerStart
  <1>10. CASE DownloadManager \/ Release \/ User
    <2>1. pc' = pc
      BY <1>10 DEF DownloadManager, Receive, Complete, Fail, Release, User, Resume,
         PressDownload, PressInstall, Press, Leave, dlVars, memory
    <2> QED
      BY <2>1
  <1>11. CASE Die
    BY <1>2, <1>11 DEF Die
  <1> QED
    BY <1>5, <1>6, <1>7, <1>8, <1>9, <1>10, <1>11 DEF Step

LEMMA Appended ==
    ASSUME NEW S, NEW q \in Seq(S), NEW r \in Seq(S)
    PROVE  q \o r \in Seq(S) /\ Len(q \o r) = Len(q) + Len(r)
  OBVIOUS

LEMMA Popped ==
    ASSUME NEW S, NEW q \in Seq(S), q # <<>>
    PROVE  Tail(q) \in Seq(S) /\ Len(Tail(q)) = Len(q) - 1 /\ Len(q) \in Nat
  OBVIOUS

\* A thread that is not the main thread keeps its place.
LEMMA MainElsewhere ==
    ASSUME ThreadsOK, NEW t \in Threads, t # Main, \E to : Goes(t, to)
    PROVE  pc'[Main] = pc[Main]
  BY Disjoint DEF ThreadsOK, Goes

\* What a step does to the queue.
QueueKept ==
    /\ looper' \in Seq(Messages) /\ Len(looper') =< Len(looper)
    /\ pc[Main] = "idle" => pc'[Main] = "idle"
QueuePosted == Len(looper') =< MaxQueue /\ looper' \in Seq(Messages)
QueueTaken == looper # <<>> /\ looper' = Tail(looper)
Posts(m) == pc'[Main] = "idle" /\ pc[Main] # "idle" /\ looper' = Append(looper, m)

LEMMA QueueCases ==
    ASSUME QueueOK,
           \/ QueueKept \/ QueuePosted \/ QueueTaken
           \/ \E m \in Messages : Posts(m)
    PROVE  QueueOK'
  <1> USE OtaAssumption
  <1>1. CASE QueueKept
    BY <1>1 DEF QueueKept, QueueOK
  <1>2. CASE QueuePosted
    BY <1>2 DEF QueuePosted, QueueOK
  <1>3. CASE QueueTaken
    BY <1>3, Popped DEF QueueTaken, QueueOK
  <1>4. ASSUME NEW m \in Messages, Posts(m) PROVE QueueOK'
    <2>1. Len(looper') = Len(looper) + 1 /\ looper' \in Seq(Messages)
      BY <1>4 DEF Posts, QueueOK
    <2> QED
      BY <1>4, <2>1 DEF Posts, QueueOK
  <1> QED
    BY <1>1, <1>2, <1>3, <1>4

LEMMA QueueStep ==
    ASSUME ThreadsOK, QueueOK, OwnOK, observers \in Nat, Step
    PROVE  QueueOK'
  <1> DEFINE P == \/ QueueKept \/ QueuePosted \/ QueueTaken
                  \/ \E m \in Messages : Posts(m)
  <1>m. Main \in Threads /\ \A t \in Threads : t \notin QueryThreads \cup Md5Threads \cup InstallThreads
                              => t \in {Main, Timer}
    BY Disjoint DEF Threads
  <1>1. ASSUME NEW t \in Threads, t # Main, looper' = looper, \E to : Goes(t, to) PROVE P
    BY <1>1, MainElsewhere DEF QueueKept, QueueOK
  <1>2. ASSUME looper' = looper, pc[Main] # "idle" PROVE P
    BY <1>2 DEF QueueKept, QueueOK
  <1>3. ASSUME Create PROVE P
    <2>1. looper' = <<>>
      BY <1>3 DEF Create, DlCreate
    <2> QED
      BY <2>1, OtaAssumption DEF QueuePosted
  <1>4. ASSUME NEW t \in Threads, Ending(t) PROVE P
    <2>1. looper' = looper /\ pc[t] # "idle"
      BY <1>4 DEF Ending, Rename, Failed, Remove, Unsave, Forget, Settle, stored
    <2>2. CASE t = Main
      BY <1>2, <2>1, <2>2
    <2>3. CASE t # Main /\ (\E to : Goes(t, to))
      BY <1>1, <2>1, <2>3
    <2>4. CASE t # Main /\ ~ (\E to : Goes(t, to))
      BY <1>4, <2>4 DEF Ending, Rename, Failed, Remove, Unsave, Forget, Settle
    <2> QED
      BY <2>2, <2>3, <2>4
  <1>5. ASSUME NEW m \in Messages, Room(1), looper' = Append(looper, m) PROVE P
    <2>1. Len(looper') = Len(looper) + 1 /\ looper' \in Seq(Messages) /\ Len(looper) \in Nat
      BY <1>5 DEF QueueOK
    <2> QED
      BY <1>5, <2>1 DEF QueuePosted, Room
  <1>6. ASSUME NEW t \in Threads, Notify(t) PROVE P
    <2>1. CASE NotifyRead(t)
      <3>1. looper' = looper /\ pc[t] # "idle" /\ \E to : Goes(t, to)
        BY <2>1 DEF NotifyRead
      <3> QED
        BY <1>1, <1>2, <3>1
    <2>2. CASE NotifyPost(t) /\ ~ mICallback
      BY <1>3, <2>2 DEF NotifyPost, Uncaught
    <2>3. CASE NotifyPost(t) /\ mICallback
      <3>1. looper' = Append(looper, said[t]) /\ said[t] \in Messages
        BY <2>3 DEF NotifyPost, OwnOK, Messages
      <3>2. CASE t # Main
        BY <1>5, <2>3, <3>1, <3>2 DEF NotifyPost
      <3>3. CASE t = Main
        <4>1. pc[Main] = "post" /\ Main \notin QueryThreads
          BY <2>3, <3>3, OtaAssumption DEF NotifyPost
        <4>2. pc'[Main] = "idle"
          BY <1>m, <2>3, <3>3, <4>1, GoesOn DEF NotifyPost
        <4> QED
          BY <3>1, <3>3, <4>1, <4>2 DEF Posts
      <3> QED
        BY <3>2, <3>3
    <2> QED
      BY <1>6, <2>1, <2>2, <2>3 DEF Notify
  <1>7. ASSUME NEW q \in QueryThreads, Query(q) PROVE P
    <2>1. q \in Threads /\ q # Main
      BY Disjoint, OtaAssumption
    <2>2. CASE Ending(q) \/ Notify(q)
      BY <1>4, <1>6, <2>1, <2>2
    <2>3. CASE Reset(q) \/ Ask(q) \/ Found(q) \/ NotNew(q) \/ LookForDownload(q)
               \/ QueryTask(q) \/ Lost(q) \/ QueryEnd(q)
      <3>1. looper' = looper /\ \E to : Goes(q, to)
        BY <2>3, Zenon DEF Reset, Ask, Found, NotNew, LookForDownload, QueryDownload, QueryTask,
                           Lost, QueryEnd
      <3> QED
        BY <1>1, <2>1, <3>1
    <2> QED
      BY <1>7, <2>2, <2>3 DEF Query
  <1>8. ASSUME NEW m \in Md5Threads, Md5(m) PROVE P
    <2>1. m \in Threads /\ m # Main
      BY Disjoint, OtaAssumption
    <2> QED
      BY <1>1, <1>3, <1>8, <2>1 DEF Md5, Md5Test, Md5Use, Md5Write, Uncaught
  <1>9. ASSUME NEW i \in InstallThreads, Install(i) PROVE P
    <2>1. i \in Threads /\ i # Main
      BY Disjoint, OtaAssumption
    <2> QED
      BY <1>1, <1>3, <1>6, <1>9, <2>1
         DEF Install, InstallBegin, InstallCheck, Hash, Compare, Unzip, InstallPackages, Finally,
             Uncaught
  <1>10. ASSUME MainThread PROVE P
    <2>1. ASSUME NEW m, Message(m) PROVE P
      BY <2>1 DEF Message, MainReady, QueueTaken
    <2>2. CASE QueryVersion \/ DownloadUpdate \/ StartInstall
               \/ (\E s \in Statuses : HandleResponse(s))
      BY <2>1, <2>2 DEF QueryVersion, DownloadUpdate, StartInstall, HandleResponse
    <2>3. CASE DownloadRefused \/ SetDownloading \/ Accepted \/ Download
      BY <1>2, <2>3
         DEF DownloadRefused, SetDownloading, Accepted, Download, StartDownload, Enqueue, Commit, Register
    <2>4. CASE HandleEnd
      BY <2>4 DEF HandleEnd, MainReady, QueueTaken
    <2>5. CASE OnChange
      <3>1. looper # <<>> /\ pc'[Main] = pc[Main] /\ pc[Main] = "idle"
        BY <2>5 DEF OnChange, MainReady
      <3>2. /\ <<"succeeded">> \in Seq(Messages) /\ Len(<<"succeeded">>) = 1
            /\ <<"failed">> \in Seq(Messages) /\ Len(<<"failed">>) = 1
            /\ <<>> \in Seq(Messages) /\ Len(<<>>) = 0
        BY DEF Messages
      <3>3. \E r \in Seq(Messages) : (Len(r) = 0 \/ Len(r) = 1) /\ looper' = Tail(looper) \o r
        <4>1. \/ looper' = Tail(looper) \o <<"succeeded">>
              \/ looper' = Tail(looper) \o <<"failed">>
              \/ looper' = Tail(looper) \o <<>>
          BY <2>5 DEF OnChange
        <4> QED
          BY <3>2, <4>1, Zenon
      <3>4. Tail(looper) \in Seq(Messages) /\ Len(Tail(looper)) = Len(looper) - 1
        BY <3>1, Popped DEF QueueOK
      <3>5. looper' \in Seq(Messages) /\ Len(looper') =< Len(looper)
        <4>1. PICK r \in Seq(Messages) :
                 (Len(r) = 0 \/ Len(r) = 1) /\ looper' = Tail(looper) \o r
          BY <3>3
        <4> QED
          BY <3>4, <4>1, Appended DEF QueueOK
      <3> QED
        BY <3>1, <3>5 DEF QueueKept
    <2> HIDE DEF P
    <2> QED
      BY <1>4, <1>6, <1>10, <1>m, <2>2, <2>3, <2>4, <2>5 DEF MainThread, Observer
  <1>11. ASSUME TimerTest \/ TimerStart PROVE P
    <2>1. CASE TimerTest
      BY <1>1, <1>m, <2>1, OtaAssumption, Disjoint DEF TimerTest, Main, Timer
    <2>2. CASE TimerStart
      <3>1. PICK q \in QueryThreads : pc' = [pc EXCEPT ![Timer] = "idle", ![q] = "reset"]
        BY <2>2 DEF TimerStart
      <3>2. q # Main /\ Timer # Main
        BY OtaAssumption DEF Main, Timer
      <3>3. pc'[Main] = pc[Main] /\ looper' = looper
        BY <2>2, <3>1, <3>2, <1>m DEF TimerStart, ThreadsOK
      <3> QED
        BY <3>3 DEF QueueKept, QueueOK
    <2> QED
      BY <1>11, <2>1, <2>2
  <1>12. ASSUME DownloadManager PROVE P
    <2>1. Room(observers) /\ Told
      BY <1>12 DEF DownloadManager, Receive, Complete, Fail, Running
    <2> DEFINE r == [i \in 1 .. observers |-> "change"]
    <2>2. r \in Seq(Messages) /\ Len(r) = observers
      BY DEF Messages
    <2>3. looper' = looper \o r
      BY <2>1 DEF Told
    <2> HIDE DEF r
    <2>4. looper' \in Seq(Messages) /\ Len(looper') = Len(looper) + observers
      BY <2>2, <2>3, Appended DEF QueueOK
    <2> QED
      BY <2>1, <2>4 DEF QueuePosted, Room
  <1>13. ASSUME Release \/ User PROVE P
    <2>1. CASE Release \/ Leave
      BY <2>1 DEF Release, Leave, dlVars, memory, QueueKept, QueueOK
    <2>2. CASE Resume \/ PressDownload \/ PressInstall
      <3>1. \E m \in {"query", "download", "install"} : Room(1) /\ looper' = Append(looper, m)
        BY <2>2 DEF Resume, PressDownload, PressInstall, Press
      <3>2. {"query", "download", "install"} \subseteq Messages
        BY DEF Messages
      <3> QED
        BY <1>5, <3>1, <3>2
    <2> QED
      BY <1>13, <2>1, <2>2 DEF User
  <1>14. ASSUME Die PROVE P
    BY <1>3, <1>14 DEF Die
  <1> HIDE DEF P
  <1>15. P
    BY <1>7, <1>8, <1>9, <1>10, <1>11, <1>12, <1>13, <1>14 DEF Step
  <1> QED
    BY <1>15, QueueCases DEF P

\* The registrations stay, and so does the place of the main thread where it matters.
CountsKept ==
    /\ mDwloadId' \in {mDwloadId, savedId, 0} /\ savedId' \in {savedId, 0}
    /\ lastId' = lastId
    /\ observers' \in {observers, 0}
    /\ pc'[Main] \in {"commit", "register"} => pc'[Main] = pc[Main]

LEMMA CountsCases ==
    ASSUME CountsOK, CountsKept
    PROVE  CountsOK'
  BY OtaAssumption DEF CountsOK, CountsKept

LEMMA CountsStep ==
    ASSUME ThreadsOK, CountsOK, Step
    PROVE  CountsOK'
  <1>m. Main \in Threads /\ Main \notin QueryThreads \cup Md5Threads \cup InstallThreads
        /\ Timer \in Threads /\ Main # Timer
    BY Disjoint, OtaAssumption DEF Main, Timer
  <1>1. ASSUME NEW t \in Threads, NEW to, Goes(t, to), to \notin {"commit", "register"}
        PROVE  pc'[Main] \in {"commit", "register"} => pc'[Main] = pc[Main]
    BY <1>1, <1>m, GoesOn
  <1>2. ASSUME Create PROVE CountsOK'
    <2>1. /\ mDwloadId' = savedId /\ UNCHANGED <<savedId, lastId>>
          /\ observers' \in {0, 1} /\ pc'[Main] = "idle"
      BY <1>2, <1>m DEF Create, DlCreate, stored
    <2> QED
      BY <2>1, OtaAssumption DEF CountsOK
  <1> DEFINE K == CountsKept
  <1>3. ASSUME NEW t \in Threads, Ending(t) PROVE K
    <2>1. CASE Rename(t) \/ Failed(t) \/ Remove(t) \/ Unsave(t) \/ Forget(t)
      <3>1. /\ mDwloadId' \in {mDwloadId, savedId, 0} /\ savedId' \in {savedId, 0}
            /\ lastId' = lastId /\ observers' \in {observers, 0}
        BY <2>1 DEF Rename, Failed, Remove, Unsave, Forget, stored
      <3>2. \E to : Goes(t, to) /\ to \notin {"commit", "register"}
        BY <2>1 DEF Rename, Failed, Remove, Unsave, Forget
      <3> QED
        BY <1>1, <3>1, <3>2 DEF CountsKept
    <2>2. CASE Settle(t)
      <3>1. UNCHANGED <<mDwloadId, savedId, lastId, observers>>
        BY <2>2 DEF Settle, stored
      <3>2. CASE Goes(t, "notify")
        BY <1>1, <3>1, <3>2 DEF CountsKept
      <3>3. ASSUME NEW m \in Md5Threads, pc' = [pc EXCEPT ![t] = "notify", ![m] = "md5_test"]
            PROVE  K
        BY <1>m, <3>1, <3>3 DEF CountsKept, ThreadsOK
      <3> QED
        BY <2>2, <3>2, <3>3 DEF Settle
    <2> QED
      BY <1>3, <2>1, <2>2 DEF Ending
  <1>4. ASSUME UNCHANGED <<mDwloadId, savedId, lastId, observers>>,
               \E t \in Threads : \E to : Goes(t, to) /\ to \notin {"commit", "register"}
        PROVE  K
    BY <1>1, <1>4 DEF CountsKept
  <1>5. ASSUME NEW t \in Threads, Notify(t) PROVE K \/ CountsOK'
    <2>1. CASE NotifyRead(t)
      BY <1>4, <2>1 DEF NotifyRead, stored
    <2>2. CASE NotifyPost(t) /\ mICallback
      BY <1>4, <2>2 DEF NotifyPost, stored
    <2>3. CASE NotifyPost(t) /\ ~ mICallback
      BY <1>2, <2>3 DEF NotifyPost, Uncaught
    <2> QED
      BY <1>5, <2>1, <2>2, <2>3 DEF Notify
  <1>6. ASSUME NEW q \in QueryThreads, Query(q) PROVE K \/ CountsOK'
    <2>1. q \in Threads
      BY Disjoint
    <2>2. CASE Ending(q) \/ Notify(q)
      BY <1>3, <1>5, <2>1, <2>2
    <2>3. CASE Reset(q) \/ Ask(q) \/ Found(q) \/ NotNew(q) \/ QueryEnd(q)
      BY <1>4, <2>1, <2>3 DEF Reset, Ask, Found, NotNew, QueryEnd, stored
    <2>4. CASE LookForDownload(q) \/ QueryTask(q)
      <3>1. UNCHANGED <<mDwloadId, savedId, lastId, observers>>
        BY <2>4 DEF LookForDownload, QueryDownload, QueryTask, stored
      <3>2. pc'[Main] = pc[Main]
        BY <1>m, <2>1, <2>4, GoesOn DEF LookForDownload, QueryDownload, QueryTask
      <3> QED
        BY <3>1, <3>2 DEF CountsKept
    <2>5. CASE Lost(q)
      <3>1. mDwloadId' = 0 /\ savedId' = 0 /\ UNCHANGED <<lastId, observers>> /\ Goes(q, "notify")
        BY <2>5 DEF Lost
      <3> QED
        BY <1>1, <2>1, <3>1 DEF CountsKept
    <2> QED
      BY <1>6, <2>2, <2>3, <2>4, <2>5 DEF Query
  <1>7. ASSUME NEW m \in Md5Threads, Md5(m) PROVE K \/ CountsOK'
    BY <1>2, <1>4, <1>7, Disjoint DEF Md5, Md5Test, Md5Use, Md5Write, Uncaught, stored
  <1>8. ASSUME NEW i \in InstallThreads, Install(i) PROVE K \/ CountsOK'
    <2>1. i \in Threads
      BY Disjoint
    <2>2. CASE InstallBegin(i) \/ InstallCheck(i) \/ Hash(i) \/ Unzip(i) \/ Finally(i)
      BY <1>4, <2>1, <2>2 DEF InstallBegin, InstallCheck, Hash, Unzip, Finally, stored
    <2>3. CASE Compare(i) \/ InstallPackages(i)
      BY <1>2, <1>4, <2>1, <2>3 DEF Compare, InstallPackages, Uncaught, stored
    <2> QED
      BY <1>5, <1>8, <2>1, <2>2, <2>3 DEF Install
  <1>9. ASSUME MainThread PROVE K \/ CountsOK'
    <2>1. CASE DownloadUpdate \/ DownloadRefused \/ SetDownloading \/ Accepted \/ HandleEnd
      BY <1>4, <1>m, <2>1
         DEF DownloadUpdate, DownloadRefused, SetDownloading, Accepted, HandleEnd, stored
    <2>2. CASE QueryVersion \/ StartInstall
      <3>1. UNCHANGED <<mDwloadId, savedId, lastId, observers>>
        BY <2>2 DEF QueryVersion, StartInstall, stored
      <3>2. pc' = pc \/ \E t \in Threads : \E to : Goes(t, to) /\ to \notin {"commit", "register"}
        BY <2>2, Disjoint DEF QueryVersion, StartQuery, StartInstall
      <3> QED
        BY <1>4, <3>1, <3>2 DEF CountsKept
    <2>3. CASE (\E s \in Statuses : HandleResponse(s)) \/ OnChange
      BY <2>3 DEF HandleResponse, OnChange, stored, CountsKept
    <2>4. CASE StartDownload
      <3>1. /\ UNCHANGED <<mDwloadId, savedId, lastId, observers>>
            /\ \E to : Goes(Main, to) /\ to \notin {"commit", "register"}
        BY <2>4 DEF StartDownload
      <3> QED
        BY <1>4, <1>m, <3>1
    <2>5. CASE Enqueue
      <3>1. /\ lastId < MaxTasks /\ lastId' = lastId + 1 /\ mDwloadId' = lastId + 1
            /\ UNCHANGED <<observers, savedId>>
        BY <2>5 DEF Enqueue
      <3> QED
        BY <3>1, OtaAssumption DEF CountsOK
    <2>6. CASE Commit
      <3>1. savedId' = mDwloadId /\ UNCHANGED <<mDwloadId, observers, lastId>> /\ pc[Main] = "commit"
        BY <2>6 DEF Commit
      <3> QED
        BY <3>1 DEF CountsOK
    <2>7. CASE Register
      <3>1. /\ observers' = observers + 1 /\ UNCHANGED <<mDwloadId, savedId, lastId>>
            /\ pc[Main] = "register" /\ pc'[Main] = "accepted"
        BY <1>m, <2>7, GoesOn DEF Register, stored
      <3> QED
        BY <3>1, OtaAssumption DEF CountsOK
    <2> HIDE DEF K
    <2> QED
      BY <1>3, <1>5, <1>9, <1>m, <2>1, <2>2, <2>3, <2>4, <2>5, <2>6, <2>7
         DEF MainThread, Observer, Download
  <1>10. ASSUME TimerTest \/ TimerStart \/ DownloadManager \/ Release \/ User PROVE K
    <2>1. UNCHANGED <<mDwloadId, savedId, lastId, observers>>
      BY <1>10 DEF TimerTest, TimerStart, DownloadManager, Receive, Complete, Fail, Release, User,
         Resume, PressDownload, PressInstall, Press, Leave, dlVars, memory, stored
    <2>2. CASE TimerTest
      BY <1>4, <1>m, <2>1, <2>2 DEF TimerTest
    <2>3. CASE TimerStart
      <3>1. PICK q \in QueryThreads : pc' = [pc EXCEPT ![Timer] = "idle", ![q] = "reset"]
        BY <2>3 DEF TimerStart
      <3> QED
        BY <1>m, <2>1, <3>1 DEF CountsKept, ThreadsOK
    <2>4. CASE DownloadManager \/ Release \/ User
      <3>1. pc' = pc
        BY <2>4 DEF DownloadManager, Receive, Complete, Fail, Release, User, Resume,
           PressDownload, PressInstall, Press, Leave, dlVars, memory
      <3> QED
        BY <2>1, <3>1 DEF CountsKept
    <2> QED
      BY <1>10, <2>2, <2>3, <2>4
  <1>11. ASSUME Die PROVE CountsOK'
    BY <1>2, <1>11 DEF Die
  <1> HIDE DEF K
  <1>12. K \/ CountsOK'
    BY <1>6, <1>7, <1>8, <1>9, <1>10, <1>11 DEF Step
  <1> QED
    BY <1>12, CountsCases DEF K

\* What a step writes besides.
OwnKept ==
    /\ status' \in Statuses /\ mError' \in Errors
    /\ said' = said \/ \E t \in Threads, r \in Statuses : said' = [said EXCEPT ![t] = r]
    /\ view' \in {view, "querying", "error", "version"}
    /\ installBtn' \in {installBtn, "gone", "enabled", "disabled"}
    /\ queries' = queries \/ Counted
    /\ presses' = presses \/ (presses < MaxPresses /\ presses' = presses + 1)
    /\ stops' = stops

LEMMA OwnCases ==
    ASSUME OwnOK, OwnKept, races' \subseteq Races
    PROVE  OwnOK'
  BY ServiceAssumption DEF OwnOK, OwnKept, Counted

LEMMA OwnStep ==
    ASSUME ThreadsOK, OwnOK, Step, races' \subseteq Races
    PROVE  OwnOK'
  <1> DEFINE K == OwnKept
  <1>s. {"IDLE", "REFRESH", "CATCH_NEW", "CATCH_NONE", "SERVER_ERROR", "DOWNLOADING",
         "DOWNLOAD_FAILED", "DOWNLOAD_OK", "INSTALLING", "INSTALL_FAILED"} = Statuses
        /\ {"NONE", "REFUSED", "NOT_READY", "NO_PACKAGE"} = Errors
    BY DEF Statuses, Errors
  <1> USE DEF ownVars, service, ui, counts, stored
  <1>1. ASSUME Create, UNCHANGED <<queries, presses>>, stops' \in 0 .. MaxStops PROVE OwnOK'
    BY <1>1, <1>s DEF Create, DlCreate, OwnOK
  <1>2. ASSUME Uncaught PROVE OwnOK'
    BY <1>1, <1>2 DEF Uncaught, OwnOK
  <1>3. ASSUME status' \in Statuses, mError' \in Errors, UNCHANGED <<ui, counts, said>> PROVE K
    BY <1>3 DEF OwnKept
  <1>4. ASSUME NEW t \in Threads, Ending(t), UNCHANGED ownVars PROVE K
    <2>1. status' \in Statuses
      BY <1>4, <1>s DEF Ending, Rename, Failed, Remove, Unsave, Forget, Settle, OwnOK
    <2> QED
      BY <1>3, <1>4, <2>1 DEF OwnOK
  <1>5. ASSUME NEW t \in Threads, Notify(t) PROVE K \/ OwnOK'
    <2>1. CASE NotifyRead(t)
      BY <2>1 DEF NotifyRead, OwnOK, OwnKept
    <2>2. CASE NotifyPost(t) /\ mICallback
      BY <1>s, <2>2 DEF NotifyPost, OwnOK, OwnKept
    <2>3. CASE NotifyPost(t) /\ ~ mICallback
      BY <1>2, <2>3 DEF NotifyPost
    <2> QED
      BY <1>5, <2>1, <2>2, <2>3 DEF Notify
  <1>6. ASSUME NEW q \in QueryThreads, Query(q) PROVE K \/ OwnOK'
    <2>1. q \in Threads
      BY Disjoint
    <2>2. CASE Reset(q) \/ Ask(q) \/ Found(q) \/ NotNew(q) \/ QueryEnd(q)
      <3>1. status' \in Statuses /\ mError' = mError /\ UNCHANGED <<ui, counts, said>>
        BY <1>s, <2>2 DEF Reset, Ask, Found, NotNew, QueryEnd, OwnOK
      <3> QED
        BY <1>3, <3>1 DEF OwnOK
    <2>3. CASE LookForDownload(q) \/ ((QueryTask(q) \/ Lost(q)) /\ UNCHANGED ownVars)
      BY <1>3, <2>3 DEF LookForDownload, QueryDownload, QueryTask, Lost, OwnOK
    <2> QED
      BY <1>4, <1>5, <1>6, <2>1, <2>2, <2>3 DEF Query
  <1>7. ASSUME NEW m \in Md5Threads, Md5(m) PROVE K \/ OwnOK'
    BY <1>2, <1>3, <1>7 DEF Md5, Md5Test, Md5Use, Md5Write, OwnOK
  <1>8. ASSUME NEW i \in InstallThreads, Install(i) PROVE K \/ OwnOK'
    <2>1. CASE InstallBegin(i) \/ InstallCheck(i)
      <3>1. status' \in Statuses /\ mError' \in Errors /\ UNCHANGED <<ui, counts, said>>
        BY <1>s, <2>1 DEF InstallBegin, InstallCheck, OwnOK
      <3> QED
        BY <1>3, <3>1
    <2>2. CASE Hash(i) \/ Unzip(i) \/ Finally(i)
      <3>1. status' \in Statuses /\ mError' \in Errors /\ UNCHANGED <<ui, counts, said>>
        BY <1>s, <2>2 DEF Hash, Unzip, Finally, OwnOK
      <3> QED
        BY <1>3, <3>1
    <2>3. CASE Compare(i)
      <3>1. Uncaught \/ (status' = status /\ mError' \in Errors /\ UNCHANGED <<ui, counts, said>>)
        BY <1>s, <2>3 DEF Compare, OwnOK
      <3> QED
        BY <1>2, <1>3, <3>1 DEF OwnOK
    <2>4. CASE InstallPackages(i)
      <3>1. Uncaught \/ UNCHANGED <<status, ownVars>>
        BY <2>4 DEF InstallPackages, Uncaught
      <3> QED
        BY <1>2, <1>3, <3>1 DEF OwnOK
    <2> QED
      BY <1>5, <1>8, <2>1, <2>2, <2>3, <2>4, Disjoint DEF Install
  <1>9. ASSUME MainThread PROVE K \/ OwnOK'
    <2>1. CASE QueryVersion \/ StartInstall
      BY <2>1 DEF QueryVersion, StartInstall, OwnOK, OwnKept
    <2>2. CASE DownloadRefused \/ DownloadUpdate
      <3>1. mError' \in Errors /\ UNCHANGED <<status, view, installBtn, said, counts>>
        BY <1>s, <2>2 DEF DownloadRefused, DownloadUpdate
      <3> QED
        BY <3>1 DEF OwnOK, OwnKept
    <2>3. CASE SetDownloading \/ Accepted
      <3>1. /\ status' \in Statuses /\ mError' \in Errors /\ UNCHANGED <<view, said, counts>>
            /\ installBtn' \in {installBtn, "gone"}
        BY <1>s, <2>3 DEF SetDownloading, Accepted, OwnOK
      <3> QED
        BY <3>1 DEF OwnKept
    <2>4. ASSUME NEW s \in Statuses, HandleResponse(s) PROVE K
      BY <2>4 DEF HandleResponse, OwnOK, OwnKept
    <2>5. CASE (Observer \/ Download) /\ UNCHANGED ownVars
      <3>1. status' = status
        BY <2>5 DEF Observer, OnChange, HandleEnd, Download, StartDownload, Enqueue, Commit, Register
      <3> QED
        BY <1>3, <2>5, <3>1 DEF OwnOK
    <2> HIDE DEF K
    <2> QED
      BY <1>4, <1>5, <1>9, <2>1, <2>2, <2>3, <2>4, <2>5, Disjoint DEF MainThread
  <1>10. ASSUME TimerTest \/ TimerStart \/ Release PROVE K
    BY <1>10 DEF TimerTest, TimerStart, Release, Counted, dlVars, memory, OwnOK, OwnKept
  <1>11. ASSUME DownloadManager /\ UNCHANGED ownVars PROVE K
    BY <1>3, <1>11 DEF DownloadManager, Receive, Complete, Fail, OwnOK
  <1>12. ASSUME User PROVE K
    BY <1>12 DEF User, Resume, PressDownload, PressInstall, Press, Leave, dlVars, memory,
       OwnOK, OwnKept
  <1>13. ASSUME Die PROVE OwnOK'
    BY <1>1, <1>13, ServiceAssumption DEF Die, OwnOK
  <1> HIDE DEF K
  <1>14. K \/ OwnOK'
    BY <1>6, <1>7, <1>8, <1>9, <1>10, <1>11, <1>12, <1>13 DEF Step
  <1> QED
    BY <1>14, OwnCases DEF K

LEMMA SwitchesStep ==
    ASSUME SwitchesOK, Step
    PROVE  SwitchesOK'
  <1> USE DEF ownVars, service, ui, counts, stored
  <1>1. ASSUME UNCHANGED <<mQueryThrad, mICallback, shown, downloadBtn>> PROVE SwitchesOK'
    BY <1>1 DEF SwitchesOK
  <1>2. ASSUME Create PROVE SwitchesOK'
    BY <1>2, Zenon DEF Create, SwitchesOK
  <1>3. ASSUME NEW t, Notify(t) PROVE SwitchesOK'
    BY <1>1, <1>2, <1>3, Zenon DEF Notify, NotifyRead, NotifyPost, Uncaught
  <1>4. ASSUME NEW q \in QueryThreads, Query(q) PROVE SwitchesOK'
    <2>1. CASE Reset(q) \/ Ask(q) \/ Found(q) \/ NotNew(q) \/ LookForDownload(q)
               \/ ((QueryTask(q) \/ Lost(q) \/ Ending(q)) /\ UNCHANGED ownVars)
      BY <1>1, <2>1, Zenon DEF Reset, Ask, Found, NotNew, LookForDownload
    <2>2. CASE QueryEnd(q)
      BY <2>2, Zenon DEF QueryEnd, SwitchesOK
    <2> QED
      BY <1>3, <1>4, <2>1, <2>2, Zenon DEF Query
  <1>5. ASSUME NEW m \in Md5Threads, Md5(m) PROVE SwitchesOK'
    BY <1>1, <1>2, <1>5, Zenon DEF Md5, Md5Test, Md5Use, Md5Write, Uncaught
  <1>6. ASSUME NEW i \in InstallThreads, Install(i) PROVE SwitchesOK'
    BY <1>1, <1>2, <1>3, <1>6, Zenon
       DEF Install, InstallBegin, InstallCheck, Hash, Compare, Unzip, InstallPackages, Finally,
           Uncaught
  <1>7. ASSUME MainThread PROVE SwitchesOK'
    <2>1. CASE QueryVersion
      BY <2>1, Zenon DEF QueryVersion, StartQuery, SwitchesOK
    <2>2. CASE DownloadRefused \/ DownloadUpdate
      BY <2>2, Zenon DEF DownloadRefused, DownloadUpdate, SwitchesOK
    <2>3. CASE SetDownloading \/ Accepted \/ StartInstall
      BY <1>1, <2>3, Zenon DEF SetDownloading, Accepted, StartInstall
    <2>4. ASSUME NEW s \in Statuses, HandleResponse(s) PROVE SwitchesOK'
      <3>1. UNCHANGED <<mQueryThrad, mICallback, shown>>
        BY <2>4, Zenon DEF HandleResponse
      <3>2. downloadBtn' = TRUE \/ downloadBtn' = FALSE \/ downloadBtn' = downloadBtn
        BY <2>4 DEF HandleResponse
      <3> QED
        BY <3>1, <3>2, Zenon DEF SwitchesOK
    <2> QED
      BY <1>1, <1>3, <1>7, <2>1, <2>2, <2>3, <2>4, Zenon DEF MainThread
  <1>8. ASSUME TimerTest \/ TimerStart PROVE SwitchesOK'
    BY <1>8, Zenon DEF TimerTest, TimerStart, SwitchesOK
  <1>9. ASSUME User PROVE SwitchesOK'
    <2>1. CASE Resume
      BY <2>1, Zenon DEF Resume, SwitchesOK
    <2>2. CASE PressDownload \/ PressInstall
      BY <1>1, <2>2, Zenon DEF PressDownload, PressInstall, Press
    <2>3. CASE Leave
      BY <2>3, Zenon DEF Leave, SwitchesOK
    <2> QED
      BY <1>9, <2>1, <2>2, <2>3, Zenon DEF User
  <1>10. ASSUME Release \/ (DownloadManager /\ UNCHANGED ownVars) PROVE SwitchesOK'
    BY <1>1, <1>10, Zenon DEF Release
  <1>11. ASSUME Die PROVE SwitchesOK'
    BY <1>2, <1>11, Zenon DEF Die
  <1> QED
    BY <1>4, <1>5, <1>6, <1>7, <1>8, <1>9, <1>10, <1>11, Zenon DEF Step

LEMMA TypeStep == TypeInv /\ [Next]_vars => TypeInv'
  <1> SUFFICES ASSUME TypeInv, [Next]_vars PROVE TypeInv'
    OBVIOUS
  <1>1. Inv'
    BY InvStep DEF TypeInv
  <1>2. CASE Next
    <2>1. races' \subseteq Races
      BY <1>2 DEF Next, TypeInv, OwnOK, Races
    <2>2. Step /\ ThreadsOK /\ FilesOK /\ observers \in Nat
      BY <1>2 DEF Next, TypeInv, Inv, CountsOK
    <2> QED
      BY <1>1, <2>1, <2>2, PlacesStep, QueueStep, CountsStep, OwnStep, SwitchesStep DEF TypeInv
  <1>3. CASE UNCHANGED vars
    <2>1. PcOK' /\ QueueOK' /\ CountsOK' /\ OwnOK'
      BY <1>3 DEF vars, code, dlVars, memory, stored, ownVars, service, ui, counts, TypeInv,
         PcOK, QueueOK, CountsOK, OwnOK
    <2>2. SwitchesOK'
      BY <1>3, Zenon DEF vars, code, ownVars, service, ui, TypeInv, SwitchesOK
    <2> QED
      BY <1>1, <2>1, <2>2 DEF TypeInv
  <1> QED
    BY <1>2, <1>3

LEMMA TypeInit == Init => TypeInv
  <1> SUFFICES ASSUME Init PROVE TypeInv
    OBVIOUS
  <1>1. PcOK /\ QueueOK /\ CountsOK
    BY OtaAssumption, Disjoint DEF Init, DlInit, PcOK, AllPlaces, Places, QueueOK, CountsOK
  <1>2. OwnOK
    BY ServiceAssumption DEF Init, DlInit, OwnOK, Statuses, Errors
  <1>3. SwitchesOK
    BY Zenon DEF Init, SwitchesOK
  <1> QED
    BY <1>1, <1>2, <1>3, WholeInit DEF TypeInv

(* Every variable of the application keeps its type. In particular the queue *)
(* of the main thread stays within its bound, although the main thread posts *)
(* without waiting for room: it has taken a message before; and the observer *)
(* is registered at most once more than tasks were started, although every   *)
(* start of a download registers it and only the end of one unregisters it   *)
(* (OTADownloadMgr.java:92-97, 237, 287).                                    *)
THEOREM ServiceTypes == Spec => []TypeOK
  BY TypeInit, TypeStep, TypeParts, PTL DEF Spec


----------------------------------------------------------------------------
(* The user can go on.                                                        *)

\* The statuses that leave something to be done.
Offers == {"CATCH_NEW", "DOWNLOAD_FAILED", "DOWNLOAD_OK", "INSTALL_FAILED"}

\* Places from which a thread is sure to come to notify.
Telling ==
    {"reset", "ask", "found", "query_download", "query_task", "lost", "success", "failed",
     "ok_remove", "failed_remove", "ok_unsave", "failed_unsave", "ok_forget", "failed_forget", "ok_set",
     "failed_set", "downloading_set", "notify"}

Tells(t) == pc[t] \in Telling \/ (pc[t] = "post" /\ said[t] = status)

\* In a queue: the last status told is s; a query waits; a status waits that no query
\* follows, so that it will be seen.
LastWordIn(q, s) == \E k \in 1 .. Len(q) :
    q[k] = s /\ \A l \in k + 1 .. Len(q) : q[l] \notin Statuses
AskedIn(q) == \E k \in 1 .. Len(q) : q[k] = "query"
HeardIn(q) == \E k \in 1 .. Len(q) :
    q[k] \in Statuses /\ \A l \in k + 1 .. Len(q) : q[l] # "query"

WillBeTold == LastWordIn(looper, status) \/ \E t \in Threads : Tells(t)

\* A button was pressed, and its work will end with a status or a button.
UnderWay ==
    \/ pc[Main] \in {"refused", "downloading"}
    \/ \E i \in InstallThreads :
          pc[i] \in {"begin", "check"} \/ (pc[i] = "finally" /\ mError # "NONE")

Shown == downloadBtn = TRUE \/ installBtn = "enabled"

Listens ==
    /\ {"notice", "error"} \cap races = {}
    /\ shown = TRUE /\ mICallback = TRUE /\ status \in Offers

Starting == MainPlaces \ {"downloading"}

\* What is seen, or found by the main thread when it has started a download, is not the
\* last of it, unless it is the status.
ToldInv == Listens /\ (HeardIn(looper) \/ pc[Main] \in Starting) => WillBeTold

ButtonInv ==
    Listens /\ view = "version" /\ ~ AskedIn(looper) => WillBeTold \/ UnderWay \/ Shown

\* What was told to an activity that has left is followed by the query of its return.
ReturnInv == shown = TRUE /\ mICallback = FALSE => ~ HeardIn(looper)

\* The first query of a process sets its status, and who tells it comes after that.
BegunInv ==
    \A t \in Threads :
        /\ pc[t] = "notify" => status # "IDLE"
        /\ t \in QueryThreads /\ pc[t] \in Telling \ {"reset"} => status # "IDLE"
        /\ pc[t] = "post" => said[t] # "IDLE"

WayInv == ToldInv /\ ButtonInv /\ ReturnInv /\ BegunInv

\* Messages that are neither a status nor a query change nothing of this.
Silent(m) == m \in Messages /\ m \notin Statuses /\ m # "query"

LEMMA QueueGrows ==
    ASSUME NEW q \in Seq(Messages), NEW r \in Seq(Messages), NEW s,
           \A k \in 1 .. Len(r) : Silent(r[k])
    PROVE  /\ LastWordIn(q, s) => LastWordIn(q \o r, s)
           /\ HeardIn(q \o r) => HeardIn(q)
           /\ AskedIn(q \o r) <=> AskedIn(q)
  <1> DEFINE w == q \o r
  <1>1. /\ Len(w) = Len(q) + Len(r) /\ Len(q) \in Nat /\ Len(r) \in Nat
        /\ \A k \in 1 .. Len(q) : w[k] = q[k]
        /\ \A k \in 1 .. Len(w) : k > Len(q) => Silent(w[k])
    <2>1. /\ Len(w) = Len(q) + Len(r) /\ Len(q) \in Nat /\ Len(r) \in Nat
          /\ \A k \in 1 .. Len(q) : w[k] = q[k]
      OBVIOUS
    <2>2. ASSUME NEW k \in 1 .. Len(w), k > Len(q) PROVE Silent(w[k])
      <3>1. k - Len(q) \in 1 .. Len(r) /\ w[k] = r[k - Len(q)]
        BY <2>1, <2>2
      <3> QED
        BY <3>1
    <2> QED
      BY <2>1, <2>2
  <1> HIDE DEF w
  <1>2. LastWordIn(q, s) => LastWordIn(w, s)
    <2> SUFFICES ASSUME NEW k \in 1 .. Len(q), q[k] = s,
                        \A l \in k + 1 .. Len(q) : q[l] \notin Statuses
                 PROVE  LastWordIn(w, s)
      BY DEF LastWordIn
    <2>1. k \in 1 .. Len(w) /\ w[k] = s
      BY <1>1
    <2>2. ASSUME NEW l \in k + 1 .. Len(w) PROVE w[l] \notin Statuses
      <3>1. CASE l > Len(q)
        BY <1>1, <3>1 DEF Silent
      <3>2. CASE l =< Len(q)
        BY <1>1, <3>2
      <3> QED
        BY <1>1, <3>1, <3>2
    <2> QED
      BY <2>1, <2>2 DEF LastWordIn
  <1>3. HeardIn(w) => HeardIn(q)
    <2> SUFFICES ASSUME NEW k \in 1 .. Len(w), w[k] \in Statuses,
                        \A l \in k + 1 .. Len(w) : w[l] # "query"
                 PROVE  HeardIn(q)
      BY DEF HeardIn
    <2>1. k \in 1 .. Len(q) /\ q[k] \in Statuses
      BY <1>1 DEF Silent
    <2>2. \A l \in k + 1 .. Len(q) : l \in k + 1 .. Len(w) /\ l \in 1 .. Len(q)
      BY <1>1
    <2> QED
      BY <1>1, <2>1, <2>2 DEF HeardIn
  <1>4. AskedIn(w) <=> AskedIn(q)
    <2>1. \A k \in 1 .. Len(q) : k \in 1 .. Len(w)
      BY <1>1
    <2>2. \A k \in 1 .. Len(w) : k \in 1 .. Len(q) \/ w[k] # "query"
      BY <1>1 DEF Silent
    <2> QED
      BY <1>1, <2>1, <2>2 DEF AskedIn
  <1> QED
    BY <1>2, <1>3, <1>4 DEF w

LEMMA QueueEnds ==
    ASSUME NEW q \in Seq(Messages)
    PROVE  /\ \A s \in Statuses : LastWordIn(Append(q, s), s)
           /\ ~ HeardIn(Append(q, "query")) /\ AskedIn(Append(q, "query"))
  <1>1. ASSUME NEW m
        PROVE  /\ Len(Append(q, m)) = Len(q) + 1 /\ Len(q) \in Nat
               /\ Append(q, m)[Len(q) + 1] = m
    OBVIOUS
  <1>2. ASSUME NEW s \in Statuses PROVE LastWordIn(Append(q, s), s)
    BY <1>1 DEF LastWordIn
  <1>3. "query" \notin Statuses
    BY DEF Statuses
  <1>4. ~ HeardIn(Append(q, "query"))
    <2> SUFFICES ASSUME NEW k \in 1 .. Len(q) + 1, Append(q, "query")[k] \in Statuses,
                        \A l \in k + 1 .. Len(q) + 1 : Append(q, "query")[l] # "query"
                 PROVE  FALSE
      BY <1>1 DEF HeardIn
    <2>1. k # Len(q) + 1
      BY <1>1, <1>3
    <2>2. Len(q) + 1 \in k + 1 .. Len(q) + 1
      BY <1>1, <2>1
    <2> QED
      BY <1>1, <2>2
  <1>5. AskedIn(Append(q, "query"))
    BY <1>1 DEF AskedIn
  <1> QED
    BY <1>2, <1>4, <1>5

LEMMA QueueShrinks ==
    ASSUME NEW q \in Seq(Messages), q # <<>>, NEW s
    PROVE  /\ LastWordIn(q, s) => LastWordIn(Tail(q), s) \/ (Head(q) = s /\ ~ HeardIn(Tail(q)))
           /\ HeardIn(Tail(q)) => HeardIn(q)
           /\ AskedIn(Tail(q)) => AskedIn(q)
           /\ Head(q) # "query" => (AskedIn(q) => AskedIn(Tail(q)))
           /\ Head(q) \in Statuses /\ ~ AskedIn(q) => HeardIn(q)
  <1> DEFINE w == Tail(q)
  <1>1. /\ Len(q) \in Nat /\ Len(q) # 0 /\ Len(w) = Len(q) - 1
        /\ \A k \in 1 .. Len(w) : w[k] = q[k + 1]
        /\ q[1] = Head(q)
    OBVIOUS
  <1> HIDE DEF w
  <1>2. /\ \A k \in 1 .. Len(w) : k + 1 \in 1 .. Len(q)
        /\ \A k \in 1 .. Len(q) : k # 1 => k - 1 \in 1 .. Len(w) /\ w[k - 1] = q[k]
        /\ 1 \in 1 .. Len(q)
    <2>1. ASSUME NEW k \in 1 .. Len(q), k # 1 PROVE k - 1 \in 1 .. Len(w) /\ w[k - 1] = q[k]
      <3>1. k - 1 \in 1 .. Len(w) /\ (k - 1) + 1 = k
        BY <1>1, <2>1
      <3> QED
        BY <1>1, <3>1
    <2> QED
      BY <1>1, <2>1
  <1>3. ASSUME NEW k \in 1 .. Len(q), q[k] = s, \A l \in k + 1 .. Len(q) : q[l] \notin Statuses
        PROVE  LastWordIn(w, s) \/ (Head(q) = s /\ ~ HeardIn(w))
    <2>1. CASE k = 1
      <3>1. \A l \in 1 .. Len(w) : w[l] \notin Statuses
        <4> SUFFICES ASSUME NEW l \in 1 .. Len(w) PROVE w[l] \notin Statuses
          OBVIOUS
        <4>1. l + 1 \in k + 1 .. Len(q) /\ w[l] = q[l + 1]
          BY <1>1, <2>1
        <4> QED
          BY <1>3, <4>1
      <3> QED
        BY <1>1, <1>3, <2>1, <3>1 DEF HeardIn
    <2>2. CASE k # 1
      <3>1. k - 1 \in 1 .. Len(w) /\ w[k - 1] = s
        BY <1>2, <1>3, <2>2
      <3>2. ASSUME NEW l \in (k - 1) + 1 .. Len(w) PROVE w[l] \notin Statuses
        <4>1. l + 1 \in k + 1 .. Len(q) /\ w[l] = q[l + 1]
          BY <1>1
        <4> QED
          BY <1>3, <4>1
      <3> QED
        BY <3>1, <3>2 DEF LastWordIn
    <2> QED
      BY <2>1, <2>2
  <1>4. HeardIn(w) => HeardIn(q)
    <2> SUFFICES ASSUME NEW k \in 1 .. Len(w), w[k] \in Statuses,
                        \A l \in k + 1 .. Len(w) : w[l] # "query"
                 PROVE  HeardIn(q)
      BY DEF HeardIn
    <2>1. k + 1 \in 1 .. Len(q) /\ q[k + 1] \in Statuses
      BY <1>1, <1>2
    <2>2. ASSUME NEW l \in (k + 1) + 1 .. Len(q) PROVE q[l] # "query"
      <3>1. l - 1 \in k + 1 .. Len(w) /\ l \in 1 .. Len(q) /\ l # 1
        BY <1>1
      <3> QED
        BY <1>2, <3>1
    <2> QED
      BY <2>1, <2>2 DEF HeardIn
  <1>5. AskedIn(w) => AskedIn(q)
    BY <1>1, <1>2 DEF AskedIn
  <1>6. Head(q) # "query" => (AskedIn(q) => AskedIn(w))
    <2> SUFFICES ASSUME Head(q) # "query", NEW k \in 1 .. Len(q), q[k] = "query"
                 PROVE  AskedIn(w)
      BY DEF AskedIn
    <2>1. k # 1
      BY <1>1
    <2>2. k - 1 \in 1 .. Len(w) /\ w[k - 1] = "query"
      BY <1>2, <2>1
    <2> QED
      BY <2>2 DEF AskedIn
  <1>7. Head(q) \in Statuses /\ ~ AskedIn(q) => HeardIn(q)
    BY <1>1, <1>2 DEF AskedIn, HeardIn
  <1> QED
    BY <1>3, <1>4, <1>5, <1>6, <1>7 DEF LastWordIn, w

\* What a step does to the queue, if it is no status that it takes or posts.
QueueLaw ==
    /\ HeardIn(looper') => HeardIn(looper)
    /\ AskedIn(looper) => AskedIn(looper')
    /\ LastWordIn(looper, status) => LastWordIn(looper', status)

\* What most steps keep: who would tell the status still will, or has changed it, and
\* work that is under way is not lost.
Steady ==
    /\ UNCHANGED <<shown, mICallback>> /\ (view' = "version" => view = "version")
    /\ HeardIn(looper') => HeardIn(looper)
    /\ AskedIn(looper) => AskedIn(looper')
    /\ status' = status \/ status' \notin Offers \/ \E t \in Threads : pc'[t] \in Telling
    /\ status' = status /\ status \in Offers /\ mICallback = TRUE =>
         /\ LastWordIn(looper, status) => LastWordIn(looper', status)
         /\ \A t \in Threads : Tells(t) => Tells(t)'
         /\ pc'[Main] \in Starting => pc[Main] \in Starting
         /\ UnderWay \/ Shown =>
              UnderWay' \/ Shown' \/ pc[Main] \in Starting \/ \E t \in Threads : Tells(t)'

LEMMA SteadyKeeps ==
    ASSUME WayInv, Steady, BegunInv', races \subseteq races'
    PROVE  WayInv'
  <1>1. WillBeTold' <=> LastWordIn(looper', status') \/ \E t \in Threads : Tells(t)'
    BY DEF WillBeTold
  <1>2. \A t \in Threads : pc'[t] \in Telling => Tells(t)'
    BY DEF Tells
  <1>3. ASSUME Listens' PROVE WillBeTold' \/ (status' = status /\ Listens)
    BY <1>1, <1>2, <1>3 DEF Listens, Steady
  <1>4. ASSUME Listens', Listens, status' = status, WillBeTold PROVE WillBeTold'
    BY <1>1, <1>4 DEF WillBeTold, Listens, Steady
  <1>5. ToldInv'
    <2> SUFFICES ASSUME Listens', HeardIn(looper') \/ pc'[Main] \in Starting, ~ WillBeTold'
                 PROVE  FALSE
      BY DEF ToldInv
    <2>1. status' = status /\ Listens
      BY <1>3
    <2>2. HeardIn(looper) \/ pc[Main] \in Starting
      BY <2>1 DEF Steady, Listens
    <2> QED
      BY <1>4, <2>1, <2>2 DEF WayInv, ToldInv
  <1>6. ButtonInv'
    <2> SUFFICES ASSUME Listens', view' = "version", ~ AskedIn(looper'),
                        ~ WillBeTold', ~ UnderWay', ~ Shown'
                 PROVE  FALSE
      BY DEF ButtonInv
    <2>1. status' = status /\ Listens
      BY <1>3
    <2>2. ~ WillBeTold
      BY <1>4, <2>1
    <2>3. UnderWay \/ Shown
      BY <2>1, <2>2 DEF WayInv, ButtonInv, Steady
    <2>4. pc[Main] \in Starting
      BY <1>1, <2>1, <2>3 DEF Steady, Listens
    <2> QED
      BY <2>1, <2>2, <2>4 DEF WayInv, ToldInv
  <1>7. ReturnInv'
    BY DEF WayInv, ReturnInv, Steady
  <1> QED
    BY <1>5, <1>6, <1>7 DEF WayInv

LEMMA QueueStays == looper' = looper => QueueLaw
  BY DEF QueueLaw

\* The main thread takes a message that is no status, and no query.
LEMMA QueueTakes ==
    ASSUME looper \in Seq(Messages), looper # <<>>, looper' = Tail(looper),
           Silent(Head(looper)), status \in Statuses
    PROVE  QueueLaw
  BY QueueShrinks DEF QueueLaw, Silent

LEMMA QueuePosts ==
    ASSUME looper \in Seq(Messages), NEW m, Silent(m), looper' = Append(looper, m)
    PROVE  QueueLaw
  <1>1. <<m>> \in Seq(Messages) /\ looper' = looper \o <<m>> /\ Len(<<m>>) = 1 /\ <<m>>[1] = m
    BY DEF Silent
  <1>2. \A k \in 1 .. Len(<<m>>) : Silent(<<m>>[k])
    BY <1>1
  <1> QED
    BY <1>1, <1>2, QueueGrows DEF QueueLaw

\* No thread goes on.
LEMMA StillSteady ==
    ASSUME BegunInv, QueueLaw,
           UNCHANGED <<pc, status, mError, said, shown, mICallback, view, downloadBtn, installBtn>>
    PROVE  Steady /\ BegunInv'
  <1>1. Steady
    BY DEF Steady, QueueLaw, Tells, UnderWay, Shown
  <1>2. BegunInv'
    BY DEF BegunInv
  <1> QED
    BY <1>1, <1>2

\* A thread goes on to tell, and may start another that does not, or end such a one.
LEMMA TurnsTell ==
    ASSUME BegunInv, QueueLaw, NEW t \in Threads, NEW to \in Telling, pc'[t] = to,
           \A u \in Threads : u # t =>
               \/ pc'[u] = pc[u]
               \/ u # Main /\ pc[u] \in {"idle", "start"} /\ pc'[u] \in {"idle", "md5_test"},
           UNCHANGED <<said, shown, mICallback, view>>, pc[t] # "post",
           to = "notify" \/ (t \in QueryThreads /\ to # "reset") => status' # "IDLE",
           status' = status \/ status' # "IDLE"
    PROVE  Steady /\ BegunInv'
  <1>2. \A u \in Threads : status' = status /\ Tells(u) => Tells(u)'
    BY DEF Tells, Telling
  <1>3. Tells(t)'
    BY DEF Tells
  <1>4. pc'[Main] \in Starting => pc[Main] \in Starting
    BY Disjoint DEF Telling, Starting, MainPlaces
  <1>5. Steady
    BY <1>2, <1>3, <1>4 DEF Steady, QueueLaw
  <1>6. BegunInv'
    <2> SUFFICES ASSUME NEW u \in Threads
                 PROVE  /\ pc'[u] = "notify" => status' # "IDLE"
                        /\ u \in QueryThreads /\ pc'[u] \in Telling \ {"reset"} => status' # "IDLE"
                        /\ pc'[u] = "post" => said'[u] # "IDLE"
      BY DEF BegunInv
    <2>1. CASE u = t
      BY <2>1 DEF Telling
    <2>2. CASE u # t /\ pc'[u] = pc[u]
      BY <2>2 DEF BegunInv
    <2>3. CASE pc'[u] \in {"idle", "md5_test"}
      BY <2>3 DEF Telling
    <2> QED
      BY <2>1, <2>2, <2>3
  <1> QED
    BY <1>5, <1>6

LEMMA TurnTells ==
    ASSUME ThreadsOK, BegunInv, QueueLaw, NEW t \in Threads, NEW to \in Telling, Goes(t, to),
           UNCHANGED <<said, shown, mICallback, view>>, pc[t] # "post",
           to = "notify" \/ (t \in QueryThreads /\ to # "reset") => status' # "IDLE",
           status' = status \/ status' # "IDLE"
    PROVE  Steady /\ BegunInv'
  <1>1. pc'[t] = to /\ \A u \in Threads : u # t => pc'[u] = pc[u]
    BY GoesOn
  <1> QED
    BY <1>1, TurnsTell

\* A thread goes on that has nothing to tell.
LEMMA TurnSteady ==
    ASSUME ThreadsOK, BegunInv, QueueLaw, NEW t \in Threads, NEW to, Goes(t, to),
           UNCHANGED <<said, shown, mICallback, view>>,
           pc[t] \notin Telling \cup {"post"}, to \notin Telling \cup {"post"},
           status' = status \/ (status' \notin Offers /\ status' # "IDLE"),
           t = Main /\ to \in Starting => pc[Main] \in Starting \/ status' \notin Offers,
           UnderWay \/ Shown =>
               UnderWay' \/ Shown' \/ pc[Main] \in Starting \/ status' \notin Offers
    PROVE  Steady /\ BegunInv'
  <1>1. pc'[t] = to /\ \A u \in Threads : u # t => pc'[u] = pc[u]
    BY GoesOn
  <1>2. \A u \in Threads : status' = status /\ Tells(u) => Tells(u)'
    BY <1>1 DEF Tells
  <1>4. pc'[Main] \in Starting => pc[Main] \in Starting \/ status' \notin Offers
    BY <1>1, Disjoint
  <1>5. Steady
    BY <1>1, <1>2, <1>4 DEF Steady, QueueLaw
  <1>6. BegunInv'
    <2> SUFFICES ASSUME NEW u \in Threads
                 PROVE  /\ pc'[u] = "notify" => status' # "IDLE"
                        /\ u \in QueryThreads /\ pc'[u] \in Telling \ {"reset"} => status' # "IDLE"
                        /\ pc'[u] = "post" => said'[u] # "IDLE"
      BY DEF BegunInv
    <2>1. CASE u = t
      BY <1>1, <2>1 DEF Telling
    <2>2. CASE u # t
      BY <1>1, <2>2 DEF BegunInv
    <2> QED
      BY <2>1, <2>2
  <1> QED
    BY <1>5, <1>6

\* Neither a button nor a thread that works for one is touched.
WorkPlaces == {"refused", "downloading", "begin", "check", "finally"}

LEMMA WorkStays ==
    ASSUME ThreadsOK, NEW t \in Threads, NEW to, Goes(t, to), pc[t] \notin WorkPlaces,
           UNCHANGED <<mError, downloadBtn, installBtn>>
    PROVE  UnderWay \/ Shown => UnderWay' \/ Shown'
  <1>1. \A u \in Threads : u # t => pc'[u] = pc[u]
    BY GoesOn
  <1> QED
    BY <1>1, Disjoint DEF UnderWay, Shown, WorkPlaces

LEMMA EndingSteady ==
    ASSUME ThreadsOK, BegunInv, NEW t \in Threads, Ending(t), UNCHANGED ownVars
    PROVE  Steady /\ BegunInv'
  <1>1. /\ looper' = looper /\ UNCHANGED <<said, shown, mICallback, view>>
        /\ pc[t] \in Telling \ {"reset"} /\ pc[t] # "post"
    BY DEF Ending, Rename, Failed, Remove, Unsave, Forget, Settle, stored, ownVars, service, ui,
       Telling
  <1>2. QueueLaw /\ (t \in QueryThreads => status # "IDLE")
    BY <1>1, QueueStays DEF BegunInv
  <1>3. CASE Rename(t) \/ Failed(t) \/ Remove(t) \/ Unsave(t) \/ Forget(t)
    <2>1. \E to \in Telling \ {"notify"} : Goes(t, to)
      BY <1>3, Zenon DEF Rename, Failed, Remove, Unsave, Forget, Telling
    <2>2. status' = status
      BY <1>3 DEF Rename, Failed, Remove, Unsave, Forget
    <2> QED
      BY <1>1, <1>2, <2>1, <2>2, TurnTells
  <1>4. CASE Settle(t)
    <2>1. status' # "IDLE" /\ "notify" \in Telling
      BY <1>4 DEF Settle, Telling
    <2>2. CASE Goes(t, "notify")
      BY <1>1, <1>2, <2>1, <2>2, TurnTells
    <2>3. ASSUME NEW m \in Md5Threads, pc[m] = "idle",
                 pc' = [pc EXCEPT ![t] = "notify", ![m] = "md5_test"]
          PROVE  Steady /\ BegunInv'
      <3>1. m # t /\ m \in Threads /\ m # Main
        BY <1>1, <2>3, Disjoint, OtaAssumption DEF Telling
      <3>2. /\ pc'[t] = "notify" /\ pc'[m] = "md5_test"
            /\ \A u \in Threads : u # t /\ u # m => pc'[u] = pc[u]
        BY <2>3, <3>1 DEF ThreadsOK
      <3> QED
        BY <1>1, <1>2, <2>1, <2>3, <3>1, <3>2, TurnsTell
    <2> QED
      BY <1>4, <2>2, <2>3 DEF Settle
  <1> QED
    BY <1>3, <1>4 DEF Ending

\* A process that has just begun.
LEMMA CreateWay ==
    ASSUME Create
    PROVE  WayInv'
  <1>1. /\ status' = "IDLE" /\ shown' = FALSE /\ \A t \in Threads : pc'[t] = "idle"
    BY DEF Create, DlCreate
  <1> QED
    BY <1>1 DEF WayInv, ToldInv, ButtonInv, ReturnInv, BegunInv, Listens, Offers, Telling

\* What is posted is the status, or was it, which is the race "notice".
LEMMA NotifyWay ==
    ASSUME ThreadsOK, QueueOK, OwnOK, WayInv, NEW t \in Threads, Notify(t),
           races \subseteq races', NoticeRace => "notice" \in races'
    PROVE  WayInv'
  <1>1. CASE NotifyRead(t) /\ mICallback
    <2>1. /\ pc[t] = "notify" /\ said' = [said EXCEPT ![t] = status] /\ Goes(t, "post")
          /\ UNCHANGED <<status, looper, mError, shown, mICallback, view, downloadBtn, installBtn>>
      BY <1>1 DEF NotifyRead, service, ui
    <2>2. pc'[t] = "post" /\ \A u \in Threads : u # t => pc'[u] = pc[u]
      BY <2>1, GoesOn
    <2>3. said'[t] = status /\ \A u \in Threads : u # t => said'[u] = said[u]
      BY <2>1 DEF OwnOK
    <2>4. status # "IDLE"
      BY <2>1 DEF WayInv, BegunInv
    <2>5. QueueLaw
      BY <2>1, QueueStays
    <2>6. \A u \in Threads : Tells(u) => Tells(u)'
      BY <2>1, <2>2, <2>3 DEF Tells
    <2>7. pc'[Main] \in Starting => pc[Main] \in Starting
      BY <2>2, Disjoint DEF Starting, MainPlaces
    <2>8. UnderWay \/ Shown => UnderWay' \/ Shown'
      BY <2>1, <2>2, Disjoint DEF UnderWay, Shown
    <2>9. BegunInv'
      BY <2>1, <2>2, <2>3, <2>4 DEF WayInv, BegunInv, Telling
    <2>10. Steady
      BY <2>1, <2>5, <2>6, <2>7, <2>8 DEF Steady, QueueLaw
    <2> QED
      BY <2>9, <2>10, SteadyKeeps
  <1>2. CASE NotifyRead(t) /\ ~ mICallback
    <2>1. /\ UNCHANGED <<status, looper, said, shown, mICallback, view>>
          /\ \E to \in {"end", "idle"} : Goes(t, to)
      BY <1>2 DEF NotifyRead, service, ui
    <2>2. PICK to \in {"end", "idle"} : Goes(t, to)
      BY <2>1
    <2>3. pc'[t] = to /\ \A u \in Threads : u # t => pc'[u] = pc[u]
      BY <2>2, GoesOn
    <2>4. BegunInv'
      BY <2>1, <2>3 DEF WayInv, BegunInv, Telling
    <2>5. mICallback' = mICallback /\ mICallback # TRUE
      BY <1>2, <2>1
    <2>6. Steady
      BY <2>1, <2>5 DEF Steady
    <2> QED
      BY <2>4, <2>6, SteadyKeeps
  <1>3. CASE NotifyPost(t) /\ ~ mICallback
    BY <1>3, CreateWay DEF NotifyPost, Uncaught
  <1>4. CASE NotifyPost(t) /\ mICallback
    <2>1. /\ pc[t] = "post" /\ looper' = Append(looper, said[t])
          /\ said' = [said EXCEPT ![t] = "IDLE"]
          /\ \E to \in {"end", "idle"} : Goes(t, to)
          /\ UNCHANGED <<status, shown, mICallback, view>>
      BY <1>4 DEF NotifyPost, service, ui
    <2>2. PICK to \in {"end", "idle"} : Goes(t, to)
      BY <2>1
    <2>3. pc'[t] = to /\ \A u \in Threads : u # t => pc'[u] = pc[u]
      BY <2>2, GoesOn
    <2>4. said'[t] = "IDLE" /\ \A u \in Threads : u # t => said'[u] = said[u]
      BY <2>1 DEF OwnOK, Statuses
    <2>5. BegunInv'
      BY <2>1, <2>3, <2>4 DEF WayInv, BegunInv, Telling
    <2>6. said[t] # "IDLE"
      BY <2>1 DEF WayInv, BegunInv
    <2>7. said[t] = status \/ "notice" \in races'
      BY <2>4, <2>6 DEF NoticeRace
    <2>8. LastWordIn(looper', status') \/ "notice" \in races'
      BY <2>1, <2>7, QueueEnds DEF OwnOK, QueueOK
    <2>9. mICallback' # FALSE
      BY <1>4, <2>1
    <2> QED
      BY <2>5, <2>8, <2>9 DEF WayInv, ToldInv, ButtonInv, ReturnInv, WillBeTold, Listens
  <1> QED
    BY <1>1, <1>2, <1>3, <1>4 DEF Notify

LEMMA QueryWay ==
    ASSUME ThreadsOK, FilesOK, QueueOK, CountsOK, OwnOK, WayInv, NEW q \in QueryThreads, Query(q),
           races \subseteq races', NoticeRace => "notice" \in races'
    PROVE  WayInv'
  <1> USE DEF ownVars, service, ui, stored
  <1>1. q \in Threads /\ q # Main /\ BegunInv
    BY Disjoint, OtaAssumption DEF WayInv
  <1>2. CASE Reset(q) \/ Ask(q) \/ Found(q)
    <2>1. /\ looper' = looper /\ UNCHANGED <<said, shown, mICallback, view>> /\ pc[q] # "post"
          /\ \E to \in Telling : Goes(q, to)
      BY <1>2 DEF Reset, Ask, Found, Telling
    <2>2. status' # "IDLE"
      BY <1>1, <1>2 DEF Reset, Ask, Found, BegunInv, Telling
    <2> QED
      BY <1>1, <2>1, <2>2, QueueStays, TurnTells, SteadyKeeps
  <1>3. CASE (NotNew(q) \/ LookForDownload(q) \/ QueryTask(q) \/ Lost(q)) /\ UNCHANGED ownVars
    <2>1. /\ UNCHANGED <<status, looper, said, shown, mICallback, view>>
          /\ pc[q] \in {"query_download", "query_task", "lost"}
      BY <1>3 DEF NotNew, LookForDownload, QueryDownload, QueryTask, Lost
    <2>2. status' # "IDLE"
      BY <1>1, <2>1 DEF BegunInv, Telling
    <2>3. CASE \E to \in Telling : Goes(q, to)
      BY <1>1, <2>1, <2>2, <2>3, QueueStays, TurnTells, SteadyKeeps
    <2>4. CASE QueryTask(q)
      <3>1. mDwloadId = 0 \/ mDwloadId \in Ids
        BY DEF CountsOK, Ids
      <3>2. mDwloadId \in Ids => tasks[mDwloadId].state \in TaskStates
        BY DEF FilesOK
      <3>3. \E to \in Telling : Goes(q, to)
        BY <2>4, <3>1, <3>2 DEF QueryTask, Telling, TaskStates
      <3> QED
        BY <2>3, <3>3
    <2> QED
      BY <1>3, <2>3, <2>4 DEF NotNew, LookForDownload, QueryDownload, Lost, Telling
  <1>4. CASE QueryEnd(q)
    <2>1. /\ UNCHANGED <<status, looper, mError, said, shown, mICallback, view, downloadBtn, installBtn>>
          /\ pc[q] = "end" /\ Goes(q, "idle")
      BY <1>4 DEF QueryEnd
    <2>2. UnderWay \/ Shown => UnderWay' \/ Shown'
      BY <1>1, <2>1, WorkStays DEF WorkPlaces
    <2>3. pc[q] \notin Telling \cup {"post"} /\ "idle" \notin Telling \cup {"post"}
      BY <2>1 DEF Telling
    <2> QED
      BY <1>1, <2>1, <2>2, <2>3, QueueStays, TurnSteady, SteadyKeeps
  <1>5. CASE Ending(q) /\ UNCHANGED ownVars
    BY <1>1, <1>5, EndingSteady, SteadyKeeps
  <1>6. CASE Notify(q)
    BY <1>1, <1>6, NotifyWay
  <1> QED
    BY <1>2, <1>3, <1>4, <1>5, <1>6 DEF Query, NotNew, LookForDownload

LEMMA Md5Way ==
    ASSUME ThreadsOK, WayInv, NEW m \in Md5Threads, Md5(m), races \subseteq races'
    PROVE  WayInv'
  <1> USE DEF ownVars, service, ui, stored
  <1>1. m \in Threads /\ m # Main /\ BegunInv
    BY Disjoint, OtaAssumption DEF WayInv
  <1>2. ASSUME Uncaught PROVE WayInv'
    BY <1>2, CreateWay DEF Uncaught
  <1>3. ASSUME UNCHANGED <<status, looper, mError, said, shown, mICallback, view, downloadBtn, installBtn>>,
               pc[m] \in Md5Places, NEW to \in Md5Places \cup {"idle"}, Goes(m, to)
        PROVE  WayInv'
    <2>1. UnderWay \/ Shown => UnderWay' \/ Shown'
      BY <1>1, <1>3, WorkStays DEF WorkPlaces, Md5Places
    <2>2. pc[m] \notin Telling \cup {"post"} /\ to \notin Telling \cup {"post"}
      BY <1>3 DEF Telling, Md5Places
    <2> QED
      BY <1>1, <1>3, <2>1, <2>2, QueueStays, TurnSteady, SteadyKeeps
  <1>4. CASE Md5Test(m)
    <2>1. /\ UNCHANGED <<status, looper, mError, said, shown, mICallback, view, downloadBtn, installBtn>>
          /\ pc[m] \in Md5Places /\ \E to \in Md5Places : Goes(m, to)
      BY <1>4 DEF Md5Test, Md5Places
    <2> QED
      BY <1>3, <2>1
  <1>5. CASE Md5Use(m)
    <2>1. \/ Uncaught
          \/ /\ UNCHANGED <<status, looper, mError, said, shown, mICallback, view, downloadBtn, installBtn>>
             /\ pc[m] \in Md5Places /\ \E to \in Md5Places : Goes(m, to)
      BY <1>5 DEF Md5Use, Md5Places
    <2> QED
      BY <1>2, <1>3, <2>1
  <1>6. CASE Md5Write(m)
    <2>1. /\ UNCHANGED <<status, looper, mError, said, shown, mICallback, view, downloadBtn, installBtn>>
          /\ pc[m] \in Md5Places /\ Goes(m, "idle")
      BY <1>6 DEF Md5Write, Md5Places
    <2> QED
      BY <1>3, <2>1
  <1> QED
    BY <1>4, <1>5, <1>6 DEF Md5

\* An installation is under way until it is checked, and ends with a status when it has
\* an error to tell.
LEMMA InstallWay ==
    ASSUME ThreadsOK, QueueOK, OwnOK, WayInv, NEW i \in InstallThreads, Install(i),
           races \subseteq races', NoticeRace => "notice" \in races'
    PROVE  WayInv'
  <1> USE DEF ownVars, service, ui, stored
  <1>1. i \in Threads /\ i # Main /\ i \notin QueryThreads /\ BegunInv
    BY Disjoint, OtaAssumption DEF WayInv
  <1>2. \A to : Goes(i, to) => pc'[i] = to /\ \A u \in Threads : u # i => pc'[u] = pc[u]
    BY <1>1, GoesOn
  <1>3. ASSUME UNCHANGED <<looper, said, shown, mICallback, view>>,
               pc[i] \in InstallPlaces, NEW to \in InstallPlaces \cup {"idle"}, Goes(i, to),
               status' = status \/ (status' \notin Offers /\ status' # "IDLE"),
               UnderWay \/ Shown => UnderWay' \/ Shown' \/ status' \notin Offers
        PROVE  WayInv'
    <2>1. pc[i] \notin Telling \cup {"post"} /\ to \notin Telling \cup {"post"}
      BY <1>3 DEF Telling, InstallPlaces
    <2> QED
      BY <1>1, <1>3, <2>1, QueueStays, TurnSteady, SteadyKeeps
  <1>4. CASE InstallBegin(i)
    <2>1. /\ UNCHANGED <<status, looper, said, shown, mICallback, view>>
          /\ pc[i] \in InstallPlaces /\ Goes(i, "check") /\ "check" \in InstallPlaces
      BY <1>4 DEF InstallBegin, InstallPlaces
    <2>2. UnderWay'
      BY <1>2, <2>1 DEF UnderWay
    <2> QED
      BY <1>3, <2>1, <2>2
  <1>5. CASE InstallCheck(i)
    <2>1. /\ UNCHANGED <<looper, said, shown, mICallback, view>> /\ pc[i] \in InstallPlaces
          /\ {"finally", "hash"} \subseteq InstallPlaces
      BY <1>5 DEF InstallCheck, InstallPlaces
    <2>2. CASE mError' # "NONE" /\ Goes(i, "finally") /\ status' = status
      <3>1. UnderWay'
        BY <1>2, <2>2 DEF UnderWay
      <3> QED
        BY <1>3, <2>1, <2>2, <3>1
    <2>3. CASE status' = "INSTALLING" /\ Goes(i, "hash")
      <3>1. status' \notin Offers /\ status' # "IDLE"
        BY <2>3 DEF Offers
      <3> QED
        BY <1>3, <2>1, <2>3, <3>1
    <2> QED
      BY <1>5, <2>2, <2>3 DEF InstallCheck
  <1>6. CASE Hash(i) \/ Unzip(i)
    <2>1. /\ UNCHANGED <<status, looper, mError, said, shown, mICallback, view, downloadBtn, installBtn>>
          /\ pc[i] \in InstallPlaces \ WorkPlaces /\ \E to \in InstallPlaces : Goes(i, to)
      BY <1>6 DEF Hash, Unzip, InstallPlaces, WorkPlaces
    <2>2. UnderWay \/ Shown => UnderWay' \/ Shown'
      BY <1>1, <2>1, WorkStays
    <2> QED
      BY <1>3, <2>1, <2>2
  <1>7. CASE Compare(i)
    <2>1. CASE Uncaught
      BY <2>1, CreateWay DEF Uncaught
    <2>2. CASE ~ Uncaught
      <3>1. /\ UNCHANGED <<status, looper, said, shown, mICallback, view, downloadBtn, installBtn>>
            /\ pc[i] \in InstallPlaces \ WorkPlaces /\ {"finally", "unzip"} \subseteq InstallPlaces
            /\ \/ Goes(i, "unzip") /\ mError' = mError
               \/ Goes(i, "finally") /\ mError' = "NO_PACKAGE"
        BY <1>7, <2>2 DEF Compare, InstallPlaces, WorkPlaces
      <3>2. CASE Goes(i, "unzip") /\ mError' = mError
        <4>1. UnderWay \/ Shown => UnderWay' \/ Shown'
          BY <1>1, <3>1, <3>2, WorkStays
        <4> QED
          BY <1>3, <3>1, <3>2, <4>1
      <3>3. CASE Goes(i, "finally") /\ mError' = "NO_PACKAGE"
        <4>1. UnderWay'
          BY <1>2, <3>3 DEF UnderWay
        <4> QED
          BY <1>3, <3>1, <3>3, <4>1
      <3> QED
        BY <3>1, <3>2, <3>3
    <2> QED
      BY <2>1, <2>2
  <1>8. CASE InstallPackages(i)
    <2>1. CASE Create
      BY <2>1, CreateWay
    <2>2. CASE ~ Create
      <3>1. /\ UNCHANGED <<status, looper, mError, said, shown, mICallback, view, downloadBtn, installBtn>>
            /\ pc[i] \in InstallPlaces \ WorkPlaces /\ "io_error" \in InstallPlaces
            /\ Goes(i, "io_error")
        BY <1>8, <2>2 DEF InstallPackages, InstallPlaces, WorkPlaces
      <3>2. UnderWay \/ Shown => UnderWay' \/ Shown'
        BY <1>1, <3>1, WorkStays
      <3> QED
        BY <1>3, <3>1, <3>2
    <2> QED
      BY <2>1, <2>2
  <1>9. CASE Finally(i)
    <2>1. /\ UNCHANGED <<looper, mError, said, shown, mICallback, view, downloadBtn, installBtn>>
          /\ pc[i] \in {"finally", "io_error"} /\ pc[i] \in InstallPlaces /\ pc[i] # "post"
      BY <1>9 DEF Finally, InstallPlaces
    <2>2. CASE mError = "NONE"
      <3>1. Goes(i, "idle") /\ status' = status
        BY <1>9, <2>2 DEF Finally
      <3>2. UnderWay \/ Shown => UnderWay' \/ Shown'
        BY <1>1, <1>2, <2>1, <2>2, <3>1, Disjoint DEF UnderWay, Shown
      <3> QED
        BY <1>3, <2>1, <3>1, <3>2
    <2>3. CASE mError # "NONE"
      <3>1. Goes(i, "notify") /\ status' # "IDLE" /\ "notify" \in Telling
        BY <1>9, <2>3 DEF Finally, Telling
      <3> QED
        BY <1>1, <2>1, <3>1, QueueStays, TurnTells, SteadyKeeps
    <2> QED
      BY <2>2, <2>3
  <1>10. CASE Notify(i)
    BY <1>1, <1>10, NotifyWay
  <1> QED
    BY <1>4, <1>5, <1>6, <1>7, <1>8, <1>9, <1>10 DEF Install

\* The messages that are neither a status nor a query.
LEMMA SilentOnes == \A m \in {"download", "install", "change", "succeeded", "failed"} : Silent(m)
  BY DEF Silent, Messages, Statuses

\* The activity shows what it is told, and if that is the status and leaves something to
\* be done, shows the button for it, unless it asked for the error of another call.
LEMMA ResponseWay ==
    ASSUME QueueOK, WayInv, NEW s \in Statuses, HandleResponse(s),
           races \subseteq races', ErrorRace => "error" \in races'
    PROVE  WayInv'
  <1>1. /\ looper # <<>> /\ looper \in Seq(Messages) /\ Head(looper) = s /\ looper' = Tail(looper)
        /\ pc[Main] = "idle"
        /\ UNCHANGED <<pc, status, mError, said, shown, mICallback>>
    BY DEF HandleResponse, Message, MainReady, QueueOK, service
  <1>2. s # "query" /\ "idle" \notin Starting
    BY DEF Statuses, Starting, MainPlaces
  <1>3. /\ LastWordIn(looper, status) =>
              LastWordIn(looper', status) \/ (s = status /\ ~ HeardIn(looper'))
        /\ HeardIn(looper') => HeardIn(looper)
        /\ AskedIn(looper) => AskedIn(looper')
        /\ ~ AskedIn(looper) => HeardIn(looper)
    BY <1>1, <1>2, QueueShrinks
  <1>4. Listens' => Listens
    BY <1>1 DEF Listens
  <1>5. \A t \in Threads : Tells(t) => Tells(t)'
    BY <1>1 DEF Tells
  <1>6. ASSUME Listens', HeardIn(looper)
        PROVE  WillBeTold' \/ (s = status /\ ~ HeardIn(looper'))
    <2>1. WillBeTold
      BY <1>4, <1>6 DEF WayInv, ToldInv
    <2> QED
      BY <1>1, <1>3, <1>5, <2>1 DEF WillBeTold
  <1>7. ToldInv'
    BY <1>1, <1>2, <1>3, <1>6 DEF ToldInv
  <1>8. ButtonInv'
    <2> SUFFICES ASSUME Listens', ~ AskedIn(looper'), ~ WillBeTold' PROVE Shown'
      BY DEF ButtonInv
    <2>1. s = status /\ s \in Offers
      BY <1>3, <1>4, <1>6 DEF Listens
    <2>2. "error" \notin races'
      BY DEF Listens
    <2>3. s = "INSTALL_FAILED" => mError \in {"NO_PACKAGE", "NOT_READY"}
      BY <2>2 DEF ErrorRace
    <2>4. WantsDownload(s) \/ WantsInstall(s)
      BY <2>1, <2>3 DEF Offers, WantsDownload, WantsInstall
    <2>5. CASE WantsDownload(s)
      <3>1. downloadBtn' = TRUE
        BY <2>5 DEF HandleResponse, WantsDownload
      <3> QED
        BY <3>1 DEF Shown
    <2>6. CASE WantsInstall(s)
      <3>1. installBtn' = "enabled"
        BY <2>6 DEF HandleResponse, WantsInstall
      <3> QED
        BY <3>1 DEF Shown
    <2> QED
      BY <2>4, <2>5, <2>6
  <1>9. ReturnInv' /\ BegunInv'
    BY <1>1, <1>3 DEF WayInv, ReturnInv, BegunInv
  <1> QED
    BY <1>7, <1>8, <1>9 DEF WayInv

\* A query of the activity makes it listen, and hides the version until it is answered.
LEMMA AskingWay ==
    ASSUME ThreadsOK, QueueOK, SwitchesOK, WayInv, QueryVersion, races \subseteq races'
    PROVE  WayInv'
  <1>1. /\ looper # <<>> /\ looper \in Seq(Messages) /\ Head(looper) = "query"
        /\ looper' = Tail(looper) /\ pc[Main] = "idle"
        /\ view' = "querying" /\ mICallback' = TRUE
        /\ UNCHANGED <<status, said, shown>>
    BY DEF QueryVersion, Message, MainReady, QueueOK
  <1>2. "query" \notin Statuses /\ "idle" \notin Starting
    BY DEF Statuses, Starting, MainPlaces
  <1>3. \A t \in Threads : pc'[t] = pc[t] \/ (t # Main /\ pc[t] = "idle" /\ pc'[t] = "reset")
    <2>1. ASSUME NEW q \in QueryThreads, pc[q] = "idle", Goes(q, "reset") PROVE <1>3
      <3>1. q \in Threads /\ q # Main
        BY Disjoint, OtaAssumption
      <3> QED
        BY <2>1, <3>1, GoesOn
    <2> QED
      BY <2>1 DEF QueryVersion, StartQuery
  <1>4. pc'[Main] = "idle"
    BY <1>1, <1>3, Disjoint
  <1>5. ToldInv'
    <2> SUFFICES ASSUME Listens', HeardIn(looper') PROVE WillBeTold'
      BY <1>2, <1>4 DEF ToldInv
    <2>1. HeardIn(looper) /\ (LastWordIn(looper, status) => LastWordIn(looper', status) \/ status = "query")
      BY <1>1, QueueShrinks
    <2>2. mICallback = TRUE
      BY <1>1, <2>1 DEF WayInv, ReturnInv, SwitchesOK, Listens
    <2>3. Listens
      BY <1>1, <2>2 DEF Listens
    <2>4. WillBeTold /\ status # "query"
      BY <2>1, <2>3 DEF WayInv, ToldInv, Listens, Offers
    <2>5. \A t \in Threads : Tells(t) => Tells(t)'
      BY <1>1, <1>3 DEF Tells, Telling
    <2> QED
      BY <1>1, <2>1, <2>4, <2>5 DEF WillBeTold
  <1>6. ButtonInv' /\ ReturnInv'
    BY <1>1 DEF ButtonInv, ReturnInv
  <1>7. BegunInv'
    BY <1>1, <1>3 DEF WayInv, BegunInv
  <1> QED
    BY <1>5, <1>6, <1>7 DEF WayInv

\* The buttons, and the start of a download.
LEMMA PressedWay ==
    ASSUME ThreadsOK, QueueOK, OwnOK, WayInv, races \subseteq races',
           \/ DownloadUpdate \/ DownloadRefused \/ SetDownloading \/ Accepted \/ StartInstall
           \/ Download /\ UNCHANGED ownVars
    PROVE  WayInv'
  <1> USE DEF ownVars, service, ui, stored
  <1>1. Main \in Threads /\ BegunInv
    BY Disjoint DEF WayInv
  <1>2. ASSUME NEW m \in {"download", "install"}, Message(m) PROVE QueueLaw /\ pc[Main] = "idle"
    BY <1>2, QueueTakes, SilentOnes DEF Message, MainReady, QueueOK, OwnOK
  <1>3. \A to : Goes(Main, to) => pc'[Main] = to
    BY <1>1, GoesOn
  <1>4. ASSUME QueueLaw, NEW t \in Threads, NEW to, Goes(t, to),
               UNCHANGED <<said, shown, mICallback, view>>,
               pc[t] \in MainPlaces \cup {"idle", "refused"},
               to \in MainPlaces \cup {"idle", "refused", "begin"},
               status' = status \/ (status' \notin Offers /\ status' # "IDLE"),
               t = Main /\ to \in Starting => pc[Main] \in Starting \/ status' \notin Offers,
               UnderWay \/ Shown =>
                   UnderWay' \/ Shown' \/ pc[Main] \in Starting \/ status' \notin Offers
        PROVE  WayInv'
    <2>1. pc[t] \notin Telling \cup {"post"} /\ to \notin Telling \cup {"post"}
      BY <1>4 DEF Telling, MainPlaces
    <2> QED
      BY <1>1, <1>4, <2>1, TurnSteady, SteadyKeeps
  <1>5. CASE DownloadUpdate
    <2>1. /\ Message("download") /\ UNCHANGED <<status, said, shown, mICallback, view>>
          /\ \E to \in {"refused", "downloading"} : Goes(Main, to)
      BY <1>5 DEF DownloadUpdate
    <2>2. PICK to \in {"refused", "downloading"} : Goes(Main, to)
      BY <2>1
    <2>3. UnderWay'
      BY <1>3, <2>2 DEF UnderWay
    <2>4. to \notin Starting /\ to \in MainPlaces \cup {"refused"}
      BY DEF Starting, MainPlaces
    <2> QED
      BY <1>1, <1>2, <1>4, <2>1, <2>2, <2>3, <2>4
  <1>6. CASE DownloadRefused
    <2>1. /\ pc[Main] = "refused" /\ Goes(Main, "idle") /\ downloadBtn' = TRUE
          /\ UNCHANGED <<status, looper, said, shown, mICallback, view>>
      BY <1>6 DEF DownloadRefused
    <2>2. Shown' /\ "idle" \notin Starting
      BY <2>1 DEF Shown, Starting, MainPlaces
    <2> QED
      BY <1>1, <1>4, <2>1, <2>2, QueueStays
  <1>7. CASE SetDownloading
    <2>1. /\ pc[Main] = "downloading" /\ Goes(Main, "download") /\ status' = "DOWNLOADING"
          /\ UNCHANGED <<looper, said, shown, mICallback, view>>
      BY <1>7 DEF SetDownloading
    <2>2. status' \notin Offers /\ status' # "IDLE" /\ {"downloading", "download"} \subseteq MainPlaces
      BY <2>1 DEF Offers, MainPlaces
    <2> QED
      BY <1>1, <1>4, <2>1, <2>2, QueueStays
  <1>8. CASE Accepted
    <2>1. /\ pc[Main] = "accepted" /\ Goes(Main, "idle")
          /\ UNCHANGED <<status, looper, said, shown, mICallback, view>>
      BY <1>8 DEF Accepted
    <2>2. pc[Main] \in Starting /\ pc[Main] \in MainPlaces
      BY <2>1 DEF Starting, MainPlaces
    <2> QED
      BY <1>1, <1>4, <2>1, <2>2, QueueStays
  <1>9. CASE StartInstall
    <2>1. PICK i \in InstallThreads : pc[i] = "idle" /\ Goes(i, "begin")
      BY <1>9 DEF StartInstall
    <2>2. Message("install") /\ UNCHANGED <<status, said, shown, mICallback, view>>
      BY <1>9 DEF StartInstall
    <2>3. i \in Threads /\ i # Main
      BY Disjoint, OtaAssumption
    <2>4. UnderWay'
      BY <2>1, <2>3, GoesOn DEF UnderWay
    <2> QED
      BY <1>2, <1>4, <2>1, <2>2, <2>3, <2>4
  <1>10. CASE Download /\ UNCHANGED ownVars
    <2>1. /\ pc[Main] \in Starting
          /\ UNCHANGED <<status, looper, said, shown, mICallback, view>>
          /\ \E to \in Starting : Goes(Main, to)
      BY <1>10 DEF Download, StartDownload, Enqueue, Commit, Register, Starting, MainPlaces
    <2>2. PICK to \in Starting : Goes(Main, to)
      BY <2>1
    <2> QED
      BY <1>1, <1>4, <2>1, <2>2, QueueStays DEF Starting
  <1> QED
    BY <1>5, <1>6, <1>7, <1>8, <1>9, <1>10

LEMMA ObserverWay ==
    ASSUME ThreadsOK, QueueOK, OwnOK, WayInv, races \subseteq races',
           Observer, UNCHANGED ownVars
    PROVE  WayInv'
  <1> USE DEF ownVars, service, ui
  <1>1. Main \in Threads /\ Main \notin QueryThreads /\ BegunInv
    BY Disjoint, OtaAssumption DEF WayInv
  <1>2. looper \in Seq(Messages) /\ looper # <<>> /\ pc[Main] = "idle" /\ Silent(Head(looper))
    BY SilentOnes DEF QueueOK, Observer, OnChange, HandleEnd, MainReady
  <1>3. CASE OnChange
    <2>1. \E r \in {<<"succeeded">>, <<"failed">>, <<>>} : looper' = Tail(looper) \o r
      BY <1>3 DEF OnChange
    <2>2. PICK r \in {<<"succeeded">>, <<"failed">>, <<>>} : looper' = Tail(looper) \o r
      BY <2>1
    <2>3. r \in Seq(Messages) /\ \A k \in 1 .. Len(r) : Silent(r[k])
      <3>1. CASE r = <<>>
        BY <3>1
      <3>2. ASSUME NEW m \in {"succeeded", "failed"}, r = <<m>> PROVE <2>3
        <4>1. Silent(m) /\ m \in Messages
          BY SilentOnes DEF Silent
        <4>2. Len(r) = 1 /\ r[1] = m /\ r \in Seq(Messages)
          BY <3>2, <4>1
        <4> QED
          BY <4>1, <4>2
      <3> QED
        BY <3>1, <3>2
    <2>5. Tail(looper) \in Seq(Messages)
      BY <1>2
    <2>4. QueueLaw
      BY <1>2, <2>2, <2>3, <2>5, QueueShrinks, QueueGrows DEF QueueLaw, OwnOK, Silent
    <2> QED
      BY <1>1, <1>3, <2>4, StillSteady, SteadyKeeps DEF OnChange
  <1>4. CASE HandleEnd
    <2>1. /\ looper' = Tail(looper) /\ status' = status
          /\ \E to \in {"success", "failed"} : Goes(Main, to)
      BY <1>4 DEF HandleEnd
    <2>2. PICK to \in {"success", "failed"} : Goes(Main, to)
      BY <2>1
    <2>3. QueueLaw
      BY <1>2, <2>1, QueueTakes DEF OwnOK
    <2>4. to \in Telling /\ to # "notify"
      BY DEF Telling
    <2> QED
      BY <1>1, <1>2, <2>1, <2>2, <2>3, <2>4, TurnTells, SteadyKeeps
  <1> QED
    BY <1>3, <1>4 DEF Observer

LEMMA MainWay ==
    ASSUME ThreadsOK, QueueOK, OwnOK, SwitchesOK, WayInv, MainThread, races \subseteq races',
           NoticeRace => "notice" \in races', ErrorRace => "error" \in races'
    PROVE  WayInv'
  <1>1. Main \in Threads /\ BegunInv
    BY Disjoint DEF WayInv
  <1>2. CASE Ending(Main) /\ UNCHANGED ownVars
    BY <1>1, <1>2, EndingSteady, SteadyKeeps
  <1>3. CASE Notify(Main)
    BY <1>1, <1>3, NotifyWay
  <1> QED
    BY <1>2, <1>3, AskingWay, PressedWay, ResponseWay, ObserverWay DEF MainThread

\* The timer, the server and the download manager.
LEMMA ElsewhereWay ==
    ASSUME ThreadsOK, QueueOK, CountsOK, WayInv, races \subseteq races',
           \/ TimerTest \/ TimerStart \/ Release
           \/ DownloadManager /\ UNCHANGED ownVars
    PROVE  WayInv'
  <1> USE DEF ownVars, service, ui, dlVars, memory
  <1>1. Timer \in Threads /\ Timer # Main /\ Timer \notin QueryThreads /\ BegunInv
    BY Disjoint, OtaAssumption DEF WayInv, Timer, Main
  <1>2. CASE TimerTest
    <2>1. /\ pc[Timer] = "idle" /\ Goes(Timer, "start")
          /\ UNCHANGED <<status, looper, mError, said, shown, mICallback, view, downloadBtn, installBtn>>
      BY <1>2 DEF TimerTest
    <2>2. UnderWay \/ Shown => UnderWay' \/ Shown'
      BY <1>1, <2>1, WorkStays DEF WorkPlaces
    <2>3. pc[Timer] \notin Telling \cup {"post"} /\ "start" \notin Telling \cup {"post"}
      BY <2>1 DEF Telling
    <2> QED
      BY <1>1, <2>1, <2>2, <2>3, QueueStays, TurnSteady, SteadyKeeps
  <1>3. CASE TimerStart
    <2>1. PICK q \in QueryThreads : /\ pc[Timer] = "start" /\ pc[q] = "idle"
                                    /\ pc' = [pc EXCEPT ![Timer] = "idle", ![q] = "reset"]
      BY <1>3 DEF TimerStart
    <2>2. UNCHANGED <<status, looper, said, shown, mICallback, view>>
      BY <1>3 DEF TimerStart
    <2>3. q \in Threads /\ q # Timer
      BY <1>1, Disjoint
    <2>4. /\ pc'[q] = "reset" /\ pc'[Timer] = "idle"
          /\ \A u \in Threads : u # q /\ u # Timer => pc'[u] = pc[u]
      BY <1>1, <2>1, <2>3 DEF ThreadsOK
    <2>5. "reset" \in Telling /\ pc[q] # "post"
      BY <2>1 DEF Telling
    <2> QED
      BY <1>1, <2>1, <2>2, <2>3, <2>4, <2>5, QueueStays, TurnsTell, SteadyKeeps
  <1>4. CASE Release
    BY <1>1, <1>4, QueueStays, StillSteady, SteadyKeeps DEF Release
  <1>5. CASE DownloadManager /\ UNCHANGED ownVars
    <2>1. /\ looper' = looper \o [i \in 1 .. observers |-> "change"]
          /\ UNCHANGED <<status, pc>>
      BY <1>5 DEF DownloadManager, Receive, Complete, Fail, Running, Told
    <2> DEFINE r == [i \in 1 .. observers |-> "change"]
    <2>2. r \in Seq(Messages) /\ \A k \in 1 .. Len(r) : Silent(r[k])
      <3>1. observers \in Nat /\ Silent("change") /\ "change" \in Messages
        BY SilentOnes DEF CountsOK, Silent
      <3>2. r \in Seq(Messages) /\ Len(r) = observers
        BY <3>1
      <3> QED
        BY <3>1, <3>2
    <2>3. QueueLaw
      <3> HIDE DEF r
      <3> QED
        BY <2>1, <2>2, QueueGrows DEF QueueLaw, QueueOK, r
    <2> QED
      BY <1>1, <1>5, <2>1, <2>3, StillSteady, SteadyKeeps
  <1> QED
    BY <1>2, <1>3, <1>4, <1>5

\* Who returns asks; who leaves no longer listens.
LEMMA UserWay ==
    ASSUME QueueOK, WayInv, User, races \subseteq races'
    PROVE  WayInv'
  <1> USE DEF ownVars, service, ui, dlVars, memory
  <1>1. CASE Resume
    <2>1. /\ pc[Main] = "idle" /\ looper' = Append(looper, "query") /\ UNCHANGED <<pc, status, said>>
      BY <1>1 DEF Resume
    <2>2. ~ HeardIn(looper') /\ AskedIn(looper')
      BY <2>1, QueueEnds DEF QueueOK
    <2>3. pc'[Main] \notin Starting
      BY <2>1 DEF Starting, MainPlaces
    <2> QED
      BY <2>1, <2>2, <2>3 DEF WayInv, ToldInv, ButtonInv, ReturnInv, BegunInv
  <1>2. CASE PressDownload \/ PressInstall
    <2>1. /\ \E m \in {"download", "install"} : looper' = Append(looper, m)
          /\ UNCHANGED <<pc, status, mError, said, shown, mICallback, view, downloadBtn, installBtn>>
      BY <1>2 DEF PressDownload, PressInstall, Press
    <2>2. QueueLaw
      BY <2>1, QueuePosts, SilentOnes DEF QueueOK
    <2> QED
      BY <2>1, <2>2, StillSteady, SteadyKeeps DEF WayInv
  <1>3. CASE Leave
    <2>1. shown' = FALSE /\ UNCHANGED <<pc, status, said>>
      BY <1>3 DEF Leave
    <2> QED
      BY <2>1 DEF WayInv, ToldInv, ButtonInv, ReturnInv, BegunInv, Listens
  <1> QED
    BY <1>1, <1>2, <1>3 DEF User

LEMMA WayStep == TypeInv /\ WayInv /\ [Next]_vars => WayInv'
  <1> SUFFICES ASSUME TypeInv, WayInv, [Next]_vars PROVE WayInv'
    OBVIOUS
  <1>1. ThreadsOK /\ FilesOK /\ QueueOK /\ CountsOK /\ OwnOK /\ SwitchesOK
    BY DEF TypeInv, Inv
  <1>2. CASE Next
    <2>1. /\ races \subseteq races'
          /\ NoticeRace => "notice" \in races'
          /\ ErrorRace => "error" \in races'
      BY <1>2 DEF Next
    <2>2. CASE Die
      BY <2>2, CreateWay DEF Die
    <2>3. ASSUME NEW q \in QueryThreads, Query(q) PROVE WayInv'
      BY <1>1, <2>1, <2>3, QueryWay
    <2>4. ASSUME NEW m \in Md5Threads, Md5(m) PROVE WayInv'
      BY <1>1, <2>1, <2>4, Md5Way
    <2>5. ASSUME NEW i \in InstallThreads, Install(i) PROVE WayInv'
      BY <1>1, <2>1, <2>5, InstallWay
    <2>6. CASE MainThread
      BY <1>1, <2>1, <2>6, MainWay
    <2>7. CASE TimerTest \/ TimerStart \/ Release \/ (DownloadManager /\ UNCHANGED ownVars)
      BY <1>1, <2>1, <2>7, ElsewhereWay
    <2>8. CASE User
      BY <1>1, <2>1, <2>8, UserWay
    <2> QED
      BY <1>2, <2>2, <2>3, <2>4, <2>5, <2>6, <2>7, <2>8 DEF Next, Step
  <1>3. CASE UNCHANGED vars
    <2>1. /\ UNCHANGED <<pc, looper, status, mError, said, shown, mICallback, view, downloadBtn,
                         installBtn>>
          /\ races \subseteq races'
      BY <1>3 DEF vars, code, dlVars, memory, ownVars, service, ui
    <2> QED
      BY <2>1, QueueStays, StillSteady, SteadyKeeps DEF WayInv
  <1> QED
    BY <1>2, <1>3

LEMMA WayInit == Init => WayInv
  <1> SUFFICES ASSUME Init PROVE WayInv
    OBVIOUS
  <1>1. shown = FALSE /\ \A t \in Threads : pc[t] = "idle"
    BY DEF Init, DlInit
  <1> QED
    BY <1>1 DEF WayInv, ToldInv, ButtonInv, ReturnInv, BegunInv, Listens, Telling

\* The user is never stuck: as long as the activity was told what was so, and read the
\* error of the installation it was told of, then whenever nothing is under way, the
\* version is in view and an update can be downloaded or installed, the button for it can
\* be pressed (OTAUpdateActivity.java:205-266), whatever was pressed, asked, refused or
\* died before and whatever the other threads did between two statements of a status and
\* its notice (OTAUpdateService.java:218-232, 426-459, 530-536).
THEOREM WayOn == Spec => []ThereIsAWayOn
  <1>1. TypeInv /\ WayInv => ThereIsAWayOn
    <2> SUFFICES ASSUME TypeInv, WayInv, {"notice", "error"} \cap races = {},
                        Quiet, shown, mICallback, view = "version",
                        status \in {"CATCH_NEW", "DOWNLOAD_FAILED", "DOWNLOAD_OK", "INSTALL_FAILED"}
                 PROVE  downloadBtn \/ installBtn = "enabled"
      BY DEF ThereIsAWayOn
    <2>1. shown = TRUE /\ mICallback = TRUE
      BY Zenon DEF TypeInv, SwitchesOK
    <2>2. Listens
      BY <2>1 DEF Listens, Offers
    <2>3. looper = <<>> /\ \A t \in Threads : pc[t] = "idle"
      BY DEF Quiet
    <2>4. ~ AskedIn(looper) /\ ~ LastWordIn(looper, status)
      BY <2>3 DEF AskedIn, LastWordIn
    <2>5. ~ WillBeTold /\ ~ UnderWay
      BY <2>3, <2>4, Disjoint DEF WillBeTold, UnderWay, Tells, Telling
    <2> QED
      BY <2>2, <2>4, <2>5 DEF WayInv, ButtonInv, Shown
  <1> QED
    BY <1>1, TypeInit, TypeStep, WayInit, WayStep, PTL DEF Spec

=============================================================================
