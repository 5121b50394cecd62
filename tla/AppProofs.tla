----------------------------- MODULE AppProofs -----------------------------
(***************************************************************************)
(* Proofs about App, for any number of projects and any bounds.  Four      *)
(* inductive invariants: TypeInv (types, and who may be at which stage),   *)
(* JobInv (slot, lock and published id), DownInv and DirsInv (who indexes, *)
(* indexes configured projects); each has a lemma with one step per action *)
(* of App.                                                                 *)
(***************************************************************************)
EXTENDS App, TLAPS

\* Types, and what each stage says about the holder of the lock.
TypeInv == TypeOK /\ HolderInv

\* The types of the progress, of the job slot and of the index.
ProgressTyped ==
    /\ progress \in ProgressState /\ progressFile \in FileState
    /\ idSaved \in BOOLEAN /\ statusSaved \in BOOLEAN
    /\ lostSaves \in 0..MaxLostSaves
SlotTyped ==
    /\ jobRunning \in BOOLEAN /\ currentJobID \in JobId \cup {NoJob} /\ spawned \subseteq JobId
IndexTyped ==
    /\ chunks \subseteq Project /\ unwritten \subseteq Project /\ leftover \subseteq Project
    /\ hashes \in HashTable /\ hashFile \in HashTable

\* What a report, or none, does to the progress: the id stays, the state gets it or keeps
\* its own, and so does the file.
Reported ==
    /\ ProgressTyped'
    /\ progress'.id = progress.id
    /\ progress'.job \in {progress.job, progress.id}
    /\ progressFile'.job \in {progressFile.job, progress'.job}
    /\ idSaved' = idSaved

\* A save writes the state to the file or leaves the file alone.
LEMMA SaveEffect ==
    ASSUME ProgressTyped, NEW s \in ProgressState, Save(s)
    PROVE  /\ progress' = s
           /\ progressFile' \in {progressFile, [job |-> s.job, status |-> s.status]}
           /\ progress' \in ProgressState /\ progressFile' \in FileState
           /\ lostSaves' \in 0..MaxLostSaves
<1>1. [job |-> s.job, status |-> s.status] \in FileState
    BY DEF ProgressState, FileState
<1>2. lostSaves' \in 0..MaxLostSaves
    BY BoundsAreNaturals DEF Save, ProgressTyped
<1> QED
    BY <1>1, <1>2 DEF Save, ProgressTyped

\* Start, Done and Fail.
LEMMA ReportEffect ==
    ASSUME ProgressTyped, NEW st \in Status, Report(st) PROVE Reported
<1> DEFINE s == [progress EXCEPT !.status = st,
                                 !.job = IF st = "running" THEN progress.id ELSE @]
<1>1. /\ s \in ProgressState
      /\ s.id = progress.id /\ s.job \in {progress.job, progress.id}
    BY DEF ProgressTyped, ProgressState
<1>2. Save(s) /\ idSaved' = idSaved /\ statusSaved' = (progressFile'.status = st)
    BY DEF Report
<1> HIDE DEF s
<1>3. /\ progress' = s
      /\ progressFile' \in {progressFile, [job |-> s.job, status |-> s.status]}
      /\ progress' \in ProgressState /\ progressFile' \in FileState
      /\ lostSaves' \in 0..MaxLostSaves
    BY <1>1, <1>2, SaveEffect
<1>4. statusSaved' \in BOOLEAN /\ idSaved' \in BOOLEAN
    BY <1>2 DEF ProgressTyped
<1> QED
    BY <1>1, <1>2, <1>3, <1>4 DEF Reported, ProgressTyped

\* No report.
LEMMA NoReportEffect == ProgressTyped /\ UNCHANGED progressVars => Reported
    BY DEF Reported, ProgressTyped, progressVars

\* A report some threads do not make.
LEMMA ReportIfAnyEffect ==
    ASSUME ProgressTyped, NEW st \in Status, ReportIfAny(st) PROVE Reported
    BY ReportEffect, NoReportEffect DEF ReportIfAny
LEMMA ReportErrorEffect == ProgressTyped /\ ReportIndexingError => Reported
    BY ReportEffect, NoReportEffect DEF ReportIndexingError, Status

\* SetJobID.
LEMMA SetJobIDEffect ==
    ASSUME ProgressTyped, NEW id \in JobId, NEW s \in ProgressState, SetJobID(id, s)
    PROVE  /\ ProgressTyped'
           /\ progress'.id = id /\ progress'.job = id
           /\ progressFile'.job \in {progressFile.job, id}
           /\ idSaved' = (progressFile'.job = id)
<1> DEFINE t == [s EXCEPT !.id = id, !.job = id]
<1>1. t \in ProgressState /\ t.id = id /\ t.job = id
    BY DEF ProgressState
<1>2. Save(t) /\ idSaved' = (progressFile'.job = id) /\ statusSaved' = statusSaved
    BY DEF SetJobID
<1> HIDE DEF t
<1>3. /\ progress' = t
      /\ progressFile' \in {progressFile, [job |-> t.job, status |-> t.status]}
      /\ progress' \in ProgressState /\ progressFile' \in FileState
      /\ lostSaves' \in 0..MaxLostSaves
    BY <1>1, <1>2, SaveEffect
<1>4. idSaved' \in BOOLEAN /\ statusSaved' \in BOOLEAN
    BY <1>2 DEF ProgressTyped
<1> QED
    BY <1>1, <1>2, <1>3, <1>4 DEF ProgressTyped

\* Taking the job slot, or not, keeps the types of the slot and the progress.
LEMMA StartJobTypes ==
    ASSUME ProgressTyped, SlotTyped, NEW id \in JobId, NEW s \in ProgressState,
           StartJobWithID(id, s)
    PROVE  ProgressTyped' /\ SlotTyped'
<1>1. CASE /\ jobRunning /\ progress' = s
           /\ UNCHANGED <<jobVars, progressFile, idSaved, statusSaved, lostSaves>>
    BY <1>1 DEF ProgressTyped, SlotTyped, jobVars
<1>2. CASE /\ jobRunning' = TRUE /\ currentJobID' = id
           /\ spawned' = spawned \cup {id} /\ SetJobID(id, s)
    <2>1. ProgressTyped'
        BY <1>2, SetJobIDEffect
    <2> QED
        BY <1>2, <2>1 DEF SlotTyped
<1> QED
    BY <1>1, <1>2 DEF StartJobWithID

\* The id startJob asks for is a job id, so startJob keeps them too.
LEMMA StartJobTypesToo ==
    ASSUME TypeOK, NEW t \in Target, StartJob(t)
    PROVE  ProgressTyped' /\ SlotTyped' /\ serial' \in 0..MaxJobs
<1>1. [target |-> t, serial |-> serial + 1] \in JobId /\ serial' \in 0..MaxJobs
    BY BoundsAreNaturals DEF StartJob, TypeOK, JobId
<1>2. ProgressTyped /\ SlotTyped
    BY DEF TypeOK, ProgressTyped, SlotTyped
<1>3. StartJobWithID([target |-> t, serial |-> serial + 1], progress)
    BY DEF StartJob
<1> QED
    BY <1>1, <1>2, <1>3, StartJobTypes DEF ProgressTyped

\* What Load puts into memory is a progress state.
LEMMA LoadedType == ProgressTyped => Loaded \in ProgressState
    BY DEF ProgressTyped, Loaded, ProgressState, FileState, Status

\* The store's deletes keep the types of the index, also when they fail half-way.
LEMMA DeleteTypes ==
    ASSUME IndexTyped, NEW P \in SUBSET Project, DeletePaths(P) \/ DeletePathsFails(P)
    PROVE  IndexTyped'
<1>1. \A D \in SUBSET Project : Without(hashes, D) \in HashTable
    BY DEF Without, IndexTyped, HashTable
<1>2. CASE DeletePaths(P)
    BY <1>1, <1>2 DEF DeletePaths, IndexTyped
<1>3. CASE DeletePathsFails(P)
    BY <1>1, <1>3 DEF DeletePathsFails, IndexTyped
<1> QED
    BY <1>2, <1>3
LEMMA TrackedType == \A P \in SUBSET Project : Tracked(P) \in SUBSET Project
    BY DEF Tracked

\* The hash a thread enters is that of what it read.
LEMMA EnterHashTypes == TypeOK /\ EnterHash => hashes' \in HashTable
    BY DEF TypeOK, EnterHash, HashTable

\* The steps that report something about the progress, but for the return of a job.
ReportingStep ==
    \/ \E p \in Project : StartDirectory(p)
    \/ WalkUnchanged \/ WalkChanged \/ FinishDirectory \/ CountProgress
    \/ DeleteFails \/ SaveHashesFails \/ IndexingFails \/ InsertFails \/ SymbolSaveFails

\* They do what a report does, and nothing to the job slot.
LEMMA ReportingEffect ==
    ASSUME TypeInv, ReportingStep
    PROVE  /\ Reported
           /\ UNCHANGED <<rebuildMu, jobRunning, currentJobID, spawned, serial>>
           /\ stage # "unlock" /\ stage' # "unlock"
<1>a. ProgressTyped
    BY DEF TypeInv, TypeOK, ProgressTyped
<1>b. {"running", "done", "error"} \subseteq Status
    BY DEF Status
<1> DEFINE SlotQuiet ==
        /\ UNCHANGED <<rebuildMu, jobRunning, currentJobID, spawned, serial>>
        /\ stage # "unlock" /\ stage' # "unlock"
<1> USE DEF jobVars
<1>1. ASSUME NEW p \in Project, StartDirectory(p) PROVE Reported /\ SlotQuiet
    BY <1>1, <1>a, <1>b, ReportEffect DEF StartDirectory
<1>2. CASE WalkUnchanged
    BY <1>2, <1>a, <1>b, ReportIfAnyEffect DEF WalkUnchanged
<1>3. CASE WalkChanged
    BY <1>3, <1>a, <1>b, ReportIfAnyEffect DEF WalkChanged
<1>4. CASE FinishDirectory
    BY <1>4, <1>a, <1>b, ReportIfAnyEffect DEF FinishDirectory
<1>5. CASE CountProgress
    <2>1. /\ progress \in ProgressState /\ Save(progress)
          /\ UNCHANGED <<idSaved, statusSaved>>
        BY <1>5, <1>a DEF CountProgress, ProgressTyped
    <2>2. /\ progress' = progress
          /\ progressFile' \in {progressFile, [job |-> progress.job, status |-> progress.status]}
          /\ progress' \in ProgressState /\ progressFile' \in FileState
          /\ lostSaves' \in 0..MaxLostSaves
        BY <2>1, <1>a, SaveEffect
    <2>3. Reported
        BY <2>1, <2>2, <1>a DEF Reported, ProgressTyped
    <2> QED
        BY <1>5, <2>3 DEF CountProgress, workVars
<1>6. CASE DeleteFails
    BY <1>6, <1>a, <1>b, ReportEffect DEF DeleteFails, JobHolds, Abort
<1>7. CASE SaveHashesFails
    BY <1>7, <1>a, <1>b, ReportIfAnyEffect, ReportErrorEffect, NoReportEffect
       DEF SaveHashesFails, Abort
<1>8. CASE IndexingFails
    BY <1>8, <1>a, ReportErrorEffect DEF IndexingFails, Abort
<1>9. CASE InsertFails
    BY <1>9, <1>a, ReportErrorEffect DEF InsertFails, Abort
<1>10. CASE SymbolSaveFails
    BY <1>10, <1>a, <1>b, ReportIfAnyEffect DEF SymbolSaveFails, JobHolds, Abort
<1> QED
    BY <1>1, <1>2, <1>3, <1>4, <1>5, <1>6, <1>7, <1>8, <1>9, <1>10 DEF ReportingStep

\* Every step keeps the types, and who may be at which stage.
LEMMA TypeStep == TypeInv /\ [Next]_vars => TypeInv'
<1> SUFFICES ASSUME TypeInv, [Next]_vars PROVE TypeInv'
    OBVIOUS
<1>a. ProgressTyped /\ SlotTyped /\ IndexTyped
    BY DEF TypeInv, TypeOK, ProgressTyped, SlotTyped, IndexTyped
<1>b. {"running", "done", "error"} \subseteq Status
    BY DEF Status
<1> USE NamesAreDistinct, BoundsAreNaturals
    DEF TypeInv, TypeOK, HolderInv, Thread,
        daemonVars, workVars, jobVars, progressVars, chunkVars, indexVars, projectVars,
        watchVars
<1>1. ASSUME Boot PROVE TypeInv'
    BY <1>1 DEF Boot
<1>2. ASSUME Shutdown PROVE TypeInv'
    BY <1>2 DEF Shutdown
<1>3. ASSUME StartupStops PROVE TypeInv'
    BY <1>3 DEF StartupStops, WatcherStop
<1>4. ASSUME Exit PROVE TypeInv'
    <2>1. Halt /\ stops' \in 0..MaxStops
        BY <1>4 DEF Exit
    <2>2. progress' \in ProgressState
        BY <2>1 DEF Halt, ZeroProgress, ProgressState, Status
    <2> QED
        BY <2>1, <2>2 DEF Halt, Unlock
<1>5. ASSUME StartupLocks PROVE TypeInv'
    BY <1>5 DEF StartupLocks, Lock
<1>6. ASSUME NEW j \in JobId, JobLocks(j) PROVE TypeInv'
    BY <1>6 DEF JobLocks, Lock
<1>7. ASSUME RebuildProject PROVE TypeInv'
    <2>1. IndexTyped'
        BY <1>7, <1>a, DeleteTypes, TrackedType DEF RebuildProject, JobHolds, DeleteChunks
    <2> QED
        BY <1>7, <2>1 DEF RebuildProject, JobHolds, DeleteChunks, IndexTyped
<1>8. ASSUME ProjectNotFound PROVE TypeInv'
    BY <1>8 DEF ProjectNotFound, JobHolds, Abort
<1>9. ASSUME RebuildIndex PROVE TypeInv'
    <2>1. IndexTyped'
        BY <1>9, <1>a, DeleteTypes, TrackedType DEF RebuildIndex, JobHolds, DeleteChunks
    <2> QED
        BY <1>9, <2>1 DEF RebuildIndex, JobHolds, DeleteChunks, WatcherStop, IndexTyped
<1>10. ASSUME SaveHashes PROVE TypeInv'
    <2>1. stage' \in {"walk", "load", "next", "commit", "embed", "finish"}
        BY <1>10 DEF SaveHashes, AfterSave
    <2>2. snapshot' \in {"stale", "fresh"}
        BY <1>10 DEF SaveHashes
    <2>3. TypeOK'
        BY <1>10, <2>1, <2>2 DEF SaveHashes
    <2>4. CASE stage = "cleared"
        <3>1. /\ rebuildMu = Handler => stage' = "walk"
              /\ rebuildMu # Handler => stage' \in {"load", "next"}
            BY <1>10, <2>4 DEF SaveHashes, AfterSave
        <3> QED
            BY <1>10, <2>3, <2>4, <3>1 DEF SaveHashes
    <2>5. CASE stage # "cleared"
        <3>1. /\ stage = "dropped" => stage' = "commit"
              /\ stage = "replaced" => stage' = "embed"
              /\ stage = "stored" => stage' = "finish"
            BY <1>10 DEF SaveHashes, AfterSave
        <3> QED
            BY <1>10, <2>3, <2>5, <3>1 DEF SaveHashes
    <2> QED
        BY <2>4, <2>5
<1>11. ASSUME InitialIndex PROVE TypeInv'
    <2>1. progress' \in ProgressState
        BY <1>11, <1>a, LoadedType DEF InitialIndex
    <2> QED
        BY <1>11, <2>1 DEF InitialIndex
<1>12. ASSUME ResumeInterruptedJob PROVE TypeInv'
    <2>1. stage' = "return" /\ rebuildMu \notin {NoThread, Handler, Callback}
        BY <1>12 DEF ResumeInterruptedJob
    <2>2. CASE Loaded.job \in JobId /\ StartJobWithID(Loaded.job, Loaded)
        <3>1. ProgressTyped' /\ SlotTyped'
            BY <2>2, <1>a, LoadedType, StartJobTypes
        <3> QED
            BY <1>12, <2>1, <3>1 DEF ResumeInterruptedJob, ProgressTyped, SlotTyped
    <2>3. CASE /\ Save([Loaded EXCEPT !.status = "error"])
               /\ statusSaved' = (progressFile'.status = "error")
               /\ UNCHANGED <<jobVars, idSaved>>
        <3>1. [Loaded EXCEPT !.status = "error"] \in ProgressState
            BY <1>a, <1>b, LoadedType DEF ProgressState
        <3>2. /\ progress' \in ProgressState /\ progressFile' \in FileState
              /\ lostSaves' \in 0..MaxLostSaves
            BY <2>3, <3>1, <1>a, SaveEffect
        <3>3. statusSaved' \in BOOLEAN
            BY <2>3
        <3> QED
            BY <1>12, <2>1, <2>3, <3>2, <3>3 DEF ResumeInterruptedJob
    <2> QED
        BY <1>12, <2>2, <2>3 DEF ResumeInterruptedJob
<1>13. ASSUME NEW p \in Project, StartDirectory(p) PROVE TypeInv'
    <2>1. Reported
        BY <1>13, ReportingEffect DEF ReportingStep
    <2> QED
        BY <1>13, <2>1 DEF StartDirectory, ProgressTyped, Reported
<1>14. ASSUME WalkUnchanged PROVE TypeInv'
    <2>1. Reported
        BY <1>14, ReportingEffect DEF ReportingStep
    <2> QED
        BY <1>14, <2>1 DEF WalkUnchanged, ProgressTyped, Reported
<1>15. ASSUME WalkChanged PROVE TypeInv'
    <2>1. IndexTyped'
        BY <1>15, <1>a, DeleteTypes DEF WalkChanged
    <2>2. Reported
        BY <1>15, ReportingEffect DEF ReportingStep
    <2> QED
        BY <1>15, <2>1, <2>2 DEF WalkChanged, MayFail, IndexTyped, ProgressTyped, Reported
<1>16. ASSUME StoreChunks PROVE TypeInv'
    <2>1. hashes' \in HashTable
        BY <1>16, EnterHashTypes DEF StoreChunks
    <2> QED
        BY <1>16, <2>1 DEF StoreChunks
<1>17. ASSUME FinishDirectory PROVE TypeInv'
    <2>1. Reported
        BY <1>17, ReportingEffect DEF ReportingStep
    <2> QED
        BY <1>17, <2>1 DEF FinishDirectory, ProgressTyped, Reported
<1>18. ASSUME JobReturns PROVE TypeInv'
    <2>1. Reported
        BY <1>18, <1>a, <1>b, ReportEffect, NoReportEffect DEF JobReturns
    <2>2. watching' \subseteq Project /\ events' \subseteq Project /\ inflight' \subseteq Project
        BY <1>18 DEF JobReturns
    <2>3. jobRunning' \in BOOLEAN
        BY <1>18 DEF JobReturns
    <2> QED
        BY <1>18, <2>1, <2>2, <2>3 DEF JobReturns, ProgressTyped, Reported
<1>19. ASSUME JobUnlocks PROVE TypeInv'
    BY <1>19 DEF JobUnlocks, JobHolds, Unlock
<1>20. ASSUME StartupServes PROVE TypeInv'
    BY <1>20 DEF StartupServes, Holds, Unlock
<1>21. ASSUME StartupFails PROVE TypeInv'
    BY <1>21 DEF StartupFails, Holds, Unlock
<1>22. ASSUME RemoveProjectCommits PROVE TypeInv'
    BY <1>22 DEF RemoveProjectCommits, Holds, Unlock, RestartWatcher, Shifted, MayFail
<1>23. ASSUME HandlerUnlocks PROVE TypeInv'
    BY <1>23 DEF HandlerUnlocks, Unlock
<1>24. ASSUME CountProgress PROVE TypeInv'
    <2>1. Reported
        BY <1>24, ReportingEffect DEF ReportingStep
    <2> QED
        BY <1>24, <2>1 DEF CountProgress, ProgressTyped, Reported
<1>25. ASSUME DeleteFails PROVE TypeInv'
    <2>1. IndexTyped'
        BY <1>25, <1>a, DeleteTypes, TrackedType DEF DeleteFails, JobHolds
    <2>2. Reported
        BY <1>25, ReportingEffect DEF ReportingStep
    <2> QED
        BY <1>25, <2>1, <2>2
           DEF DeleteFails, JobHolds, WatcherStop, MayFail, Abort, IndexTyped, ProgressTyped, Reported
<1>26. ASSUME SaveHashesFails PROVE TypeInv'
    <2>1. Reported
        BY <1>26, ReportingEffect DEF ReportingStep
    <2> QED
        BY <1>26, <2>1 DEF SaveHashesFails, Failure, MayFail, Abort, ProgressTyped, Reported
<1>27. ASSUME InitialIndexUnread PROVE TypeInv'
    BY <1>27 DEF InitialIndexUnread, MayFail
<1>28. ASSUME IndexingFails PROVE TypeInv'
    <2>1. Reported
        BY <1>28, ReportingEffect DEF ReportingStep
    <2> QED
        BY <1>28, <2>1 DEF IndexingFails, Failure, MayFail, Abort, ProgressTyped, Reported
<1>29. ASSUME InsertFails PROVE TypeInv'
    <2>1. hashes' \in HashTable
        BY <1>29, EnterHashTypes DEF InsertFails
    <2>2. Reported
        BY <1>29, ReportingEffect DEF ReportingStep
    <2> QED
        BY <1>29, <2>1, <2>2 DEF InsertFails, Failure, MayFail, Abort, ProgressTyped, Reported
<1>30. ASSUME SymbolSaveFails PROVE TypeInv'
    <2>1. Reported
        BY <1>30, ReportingEffect DEF ReportingStep
    <2> QED
        BY <1>30, <2>1 DEF SymbolSaveFails, JobHolds, MayFail, Abort, ProgressTyped, Reported
<1>31. ASSUME Crash PROVE TypeInv'
    <2>1. Halt /\ stops' \in 0..MaxStops
        BY <1>31 DEF Crash
    <2>2. progress' \in ProgressState
        BY <2>1 DEF Halt, ZeroProgress, ProgressState, Status
    <2> QED
        BY <2>1, <2>2 DEF Halt, Unlock
<1>32. ASSUME NEW t \in Target, RequestRebuild(t) PROVE TypeInv'
    <2>1. ProgressTyped' /\ SlotTyped' /\ serial' \in 0..MaxJobs
        BY <1>32, StartJobTypesToo DEF RequestRebuild
    <2> QED
        BY <1>32, <2>1 DEF RequestRebuild, ProgressTyped, SlotTyped
<1>33. ASSUME NEW p \in Project, AddProject(p) PROVE TypeInv'
    BY <1>33 DEF AddProject, RestartWatcher, Appended, MayFail
<1>34. ASSUME NEW p \in Project, AddProjectStartsJob(p) PROVE TypeInv'
    <2>1. StartJob(p) /\ p \in Target
        BY <1>34 DEF AddProjectStartsJob, Target
    <2>2. ProgressTyped' /\ SlotTyped' /\ serial' \in 0..MaxJobs
        BY <2>1, StartJobTypesToo
    <2> QED
        BY <1>34, <2>2 DEF AddProjectStartsJob, ProgressTyped, SlotTyped
<1>35. ASSUME NEW p \in Project, RemoveProjectDeletes(p) PROVE TypeInv'
    <2>1. IndexTyped'
        BY <1>35, <1>a, DeleteTypes, TrackedType DEF RemoveProjectDeletes, DeleteChunks
    <2> QED
        BY <1>35, <2>1 DEF RemoveProjectDeletes, Lock, DeleteChunks, Abort, MayFail, IndexTyped
<1>36. ASSUME NEW p \in Project, ReindexFilesAllowed(p) PROVE TypeInv'
    BY <1>36 DEF ReindexFilesAllowed
<1>37. ASSUME NEW p \in Project, ReindexFiles(p) PROVE TypeInv'
    <2>1. IndexTyped'
        BY <1>37, <1>a, DeleteTypes, TrackedType DEF ReindexFiles, DeleteChunks
    <2> QED
        BY <1>37, <2>1 DEF ReindexFiles, Lock, DeleteChunks, Abort, MayFail, IndexTyped
<1>38. ASSUME QueryStatus PROVE TypeInv'
    <2>1. progress' \in ProgressState
        BY <1>38, <1>a, LoadedType DEF QueryStatus
    <2> QED
        BY <1>38, <2>1 DEF QueryStatus
<1>39. ASSUME NEW p \in Project, Edit(p) PROVE TypeInv'
    <2>1. hashes' \in HashTable /\ hashFile' \in HashTable
        BY <1>39 DEF Edit, Aged, HashTable
    <2> QED
        BY <1>39, <2>1 DEF Edit
<1>40. ASSUME NEW p \in Project, CallbackLocks(p) PROVE TypeInv'
    BY <1>40 DEF CallbackLocks, Lock
<1>41. ASSUME WatcherFlush PROVE TypeInv'
    BY <1>41 DEF WatcherFlush
<1>42. ASSUME UNCHANGED vars PROVE TypeInv'
    BY <1>42 DEF vars
<1> QED
    BY <1>1, <1>2, <1>3, <1>4, <1>5, <1>6, <1>7, <1>8, <1>9, <1>10, <1>11, <1>12, <1>13,
       <1>14, <1>15, <1>16, <1>17, <1>18, <1>19, <1>20, <1>21, <1>22, <1>23, <1>24, <1>25,
       <1>26, <1>27, <1>28, <1>29, <1>30, <1>31, <1>32, <1>33, <1>34, <1>35, <1>36, <1>37,
       <1>38, <1>39, <1>40, <1>41, <1>42
       DEF Next, Work, Fault, Request
-----------------------------------------------------------------------------
(* The job slot, the lock and the published id.                            *)

JobInv == IdsInv /\ ProgressInv /\ OneActiveJob /\ RunningJobIsReported

\* A report publishes no id but that of the progress, which is the file's own or the latest
\* job's.
LEMMA ReportKeepsIds ==
    ASSUME TypeInv, JobInv, Reported, UNCHANGED <<rebuildMu, currentJobID, spawned, serial>>,
           jobRunning' \in {jobRunning, FALSE}
    PROVE  IdsInv' /\ ProgressInv' /\ RunningJobIsReported'
<1> USE DEF TypeInv, TypeOK, JobInv, IdsInv, ProgressInv, RunningJobIsReported, Reported
<1>1. /\ progress'.job \in {NoJob, progress.id}
      /\ progressFile'.job \in {progressFile.job, progress'.job}
    OBVIOUS
<1>2. progress'.job = NoJob => progress.job = NoJob
    OBVIOUS
<1>3. IdsInv'
    <2>1. progressFile'.job \in {NoJob, progressFile.job, currentJobID}
        BY <1>1
    <2>2. progressFile'.job # NoJob => progressFile'.job.serial <= serial'
        BY <2>1
    <2>3. jobRunning' => currentJobID' \in JobId
        OBVIOUS
    <2> QED
        BY <2>2, <2>3
<1>4. ProgressInv'
    BY <1>1, <1>2
<1>5. RunningJobIsReported'
    BY <1>1
<1> QED
    BY <1>3, <1>4, <1>5

\* So does a step that only reports.
LEMMA ReportKeepsJobInv ==
    ASSUME TypeInv, JobInv, ReportingStep PROVE JobInv'
<1>1. /\ Reported
      /\ UNCHANGED <<rebuildMu, currentJobID, spawned, serial, jobRunning>>
      /\ stage # "unlock" /\ stage' # "unlock"
    BY ReportingEffect
<1>2. IdsInv' /\ ProgressInv' /\ RunningJobIsReported'
    BY <1>1, ReportKeepsIds
<1>3. OneActiveJob'
    BY <1>1 DEF JobInv, OneActiveJob, ActiveJobs
<1> QED
    BY <1>2, <1>3 DEF JobInv

\* Load finds the id of the running job in the file, unless that could not be written.
LEMMA LoadKeepsJobInv ==
    ASSUME TypeInv, JobInv, progress' = Loaded,
           UNCHANGED <<rebuildMu, jobVars, progressFile, idSaved, serial>>,
           stage' = stage \/ (stage # "unlock" /\ stage' # "unlock")
    PROVE  JobInv'
<1> USE DEF TypeInv, TypeOK, JobInv, IdsInv, ProgressInv, OneActiveJob, ActiveJobs,
            RunningJobIsReported, Loaded, ZeroState, jobVars
<1>1. IdsInv' /\ OneActiveJob'
    OBVIOUS
<1>2. ProgressInv'
    OBVIOUS
<1>3. RunningJobIsReported'
    BY NamesAreDistinct
<1> QED
    BY <1>1, <1>2, <1>3

\* Taking the job slot, or not, keeps it.
LEMMA StartJobKeepsJobInv ==
    ASSUME TypeInv, JobInv, NEW id \in JobId, NEW s \in ProgressState,
           s \in {progress, Loaded}, StartJobWithID(id, s),
           id # rebuildMu \/ jobRunning,
           serial \in Nat, serial' \in Nat, serial <= serial', id.serial <= serial',
           rebuildMu' = rebuildMu,
           stage' = stage \/ (stage # "unlock" /\ stage' # "unlock")
    PROVE  JobInv'
<1> USE DEF TypeInv, TypeOK
<1>a. \A j \in JobId : j.serial \in Nat
    BY BoundsAreNaturals DEF JobId
<1>b. \A j \in JobId : j.serial <= serial => j.serial <= serial'
    BY <1>a
<1>1. CASE /\ jobRunning /\ progress' = s
           /\ UNCHANGED <<jobVars, progressFile, idSaved, statusSaved, lostSaves>>
    <2>1. IdsInv' /\ OneActiveJob'
        BY <1>1, <1>b DEF JobInv, IdsInv, OneActiveJob, ActiveJobs, jobVars, FileState
    <2>2. ProgressInv' /\ RunningJobIsReported'
        BY <1>1, NamesAreDistinct
           DEF JobInv, IdsInv, ProgressInv, RunningJobIsReported, Loaded, ZeroState, jobVars
    <2> QED
        BY <2>1, <2>2 DEF JobInv
<1>2. CASE /\ ~jobRunning /\ jobRunning' = TRUE /\ currentJobID' = id
           /\ spawned' = spawned \cup {id} /\ SetJobID(id, s)
    <2>1. /\ ProgressTyped'
          /\ progress'.id = id /\ progress'.job = id
          /\ progressFile'.job \in {progressFile.job, id}
          /\ idSaved' = (progressFile'.job = id)
        BY <1>2, SetJobIDEffect DEF ProgressTyped
    <2>2. ActiveJobs = {}
        BY <1>2 DEF JobInv, OneActiveJob
    <2>3. OneActiveJob'
        BY <1>2, <2>2 DEF OneActiveJob, ActiveJobs
    <2>4. IdsInv'
        <3>1. rebuildMu \notin spawned'
            BY <1>2, <2>2 DEF ActiveJobs
        <3>2. /\ rebuildMu' \in JobId => rebuildMu'.serial <= serial'
              /\ currentJobID'.serial <= serial'
              /\ progressFile'.job # NoJob => progressFile'.job.serial <= serial'
            BY <1>2, <2>1, <1>b DEF JobInv, IdsInv, FileState
        <3> QED
            BY <1>2, <3>1, <3>2 DEF IdsInv
    <2>5. ProgressInv' /\ RunningJobIsReported'
        BY <1>2, <2>1, NamesAreDistinct DEF ProgressInv, RunningJobIsReported
    <2> QED
        BY <2>3, <2>4, <2>5 DEF JobInv
<1> QED
    BY <1>1, <1>2 DEF StartJobWithID

\* startJob asks for an id that was never given.
LEMMA StartJobKeepsJobInvToo ==
    ASSUME TypeInv, JobInv, NEW t \in Target, StartJob(t), UNCHANGED <<rebuildMu, stage>>
    PROVE  JobInv'
<1> DEFINE id == [target |-> t, serial |-> serial + 1]
<1>1. /\ serial \in Nat /\ serial' \in Nat /\ serial <= serial'
      /\ id \in JobId /\ id.serial = serial + 1
    BY BoundsAreNaturals DEF StartJob, TypeInv, TypeOK, JobId
<1>2. id.serial <= serial' \/ jobRunning
    BY <1>1 DEF StartJob
<1>3. StartJobWithID(id, progress) /\ progress \in ProgressState
    BY DEF StartJob, TypeInv, TypeOK
<1>4. id # rebuildMu
    BY <1>1 DEF JobInv, IdsInv
<1> HIDE DEF id
<1>5. CASE ~jobRunning
    BY <1>1, <1>2, <1>3, <1>4, <1>5, StartJobKeepsJobInv
<1>6. CASE jobRunning
    BY <1>1, <1>3, <1>6
       DEF StartJobWithID, StartJob, JobInv, IdsInv, ProgressInv, OneActiveJob, ActiveJobs,
           RunningJobIsReported, jobVars
<1> QED
    BY <1>5, <1>6

\* Every step keeps it.
LEMMA JobStep == TypeInv /\ JobInv /\ [Next]_vars => JobInv'
<1> SUFFICES ASSUME TypeInv, JobInv, [Next]_vars PROVE JobInv'
    OBVIOUS
<1>b. "error" \in Status
    BY DEF Status
<1>r. ReportingStep => JobInv'
    BY ReportKeepsJobInv
<1> USE NamesAreDistinct, BoundsAreNaturals
    DEF TypeInv, TypeOK, HolderInv, JobInv, IdsInv, ProgressInv, OneActiveJob, ActiveJobs,
        RunningJobIsReported, Thread,
        daemonVars, workVars, jobVars, progressVars, chunkVars, indexVars, projectVars, watchVars
<1>1. ASSUME Boot PROVE JobInv'
    BY <1>1 DEF Boot
<1>2. ASSUME Shutdown PROVE JobInv'
    BY <1>2 DEF Shutdown
<1>3. ASSUME StartupStops PROVE JobInv'
    BY <1>3 DEF StartupStops, WatcherStop
<1>4. ASSUME Exit PROVE JobInv'
    BY <1>4 DEF Exit, Halt, Unlock, ZeroProgress
<1>5. ASSUME StartupLocks PROVE JobInv'
    BY <1>5 DEF StartupLocks, Lock
<1>6. ASSUME NEW j \in JobId, JobLocks(j) PROVE JobInv'
    BY <1>6 DEF JobLocks, Lock
<1>7. ASSUME RebuildProject PROVE JobInv'
    BY <1>7 DEF RebuildProject, JobHolds, DeleteChunks
<1>8. ASSUME ProjectNotFound PROVE JobInv'
    BY <1>8 DEF ProjectNotFound, JobHolds, Abort
<1>9. ASSUME RebuildIndex PROVE JobInv'
    BY <1>9 DEF RebuildIndex, JobHolds, DeleteChunks, WatcherStop
<1>10. ASSUME SaveHashes PROVE JobInv'
    BY <1>10 DEF SaveHashes, AfterSave
<1>11. ASSUME InitialIndex PROVE JobInv'
    BY <1>11, LoadKeepsJobInv DEF InitialIndex
<1>12. ASSUME ResumeInterruptedJob PROVE JobInv'
    <2>1. CASE Loaded.job \in JobId /\ StartJobWithID(Loaded.job, Loaded)
        <3>1. Loaded \in ProgressState
            BY LoadedType DEF ProgressTyped
        <3>2. Loaded.job # rebuildMu \/ jobRunning
            BY <1>12, <2>1 DEF ResumeInterruptedJob
        <3>3. Loaded.job.serial <= serial
            BY <2>1 DEF Loaded, ZeroState, ProgressState, FileState
        <3> QED
            BY <1>12, <2>1, <3>1, <3>2, <3>3, StartJobKeepsJobInv DEF ResumeInterruptedJob
    <2>2. CASE /\ Loaded.job = NoJob
               /\ Save([Loaded EXCEPT !.status = "error"]) /\ UNCHANGED <<jobVars, idSaved>>
        BY <1>12, <2>2 DEF ResumeInterruptedJob, Save, Loaded, ZeroState
    <2> QED
        BY <1>12, <2>1, <2>2 DEF ResumeInterruptedJob
<1>13. ASSUME NEW p \in Project, StartDirectory(p) PROVE JobInv'
    BY <1>13, <1>r DEF ReportingStep
<1>14. ASSUME WalkUnchanged PROVE JobInv'
    BY <1>14, <1>r DEF ReportingStep
<1>15. ASSUME WalkChanged PROVE JobInv'
    BY <1>15, <1>r DEF ReportingStep
<1>16. ASSUME StoreChunks PROVE JobInv'
    BY <1>16 DEF StoreChunks, EnterHash
<1>17. ASSUME FinishDirectory PROVE JobInv'
    BY <1>17, <1>r DEF ReportingStep
<1>18. ASSUME JobReturns PROVE JobInv'
    <2>1. /\ Reported /\ UNCHANGED <<rebuildMu, currentJobID, spawned, serial>>
        BY <1>18, <1>b, ReportEffect, NoReportEffect DEF JobReturns, ProgressTyped
    <2>2. jobRunning' = FALSE /\ stage' = "unlock" /\ spawned = {} /\ rebuildMu \in JobId
        BY <1>18 DEF JobReturns
    <2>3. IdsInv' /\ ProgressInv'
        BY <2>1, <2>2, ReportKeepsIds
    <2> QED
        BY <2>1, <2>2, <2>3
<1>19. ASSUME JobUnlocks PROVE JobInv'
    BY <1>19 DEF JobUnlocks, JobHolds, Unlock
<1>20. ASSUME StartupServes PROVE JobInv'
    BY <1>20 DEF StartupServes, Holds, Unlock
<1>21. ASSUME StartupFails PROVE JobInv'
    BY <1>21 DEF StartupFails, Holds, Unlock
<1>22. ASSUME RemoveProjectCommits PROVE JobInv'
    BY <1>22 DEF RemoveProjectCommits, Holds, Unlock, RestartWatcher, Shifted, MayFail
<1>23. ASSUME HandlerUnlocks PROVE JobInv'
    BY <1>23 DEF HandlerUnlocks, Unlock
<1>24. ASSUME CountProgress PROVE JobInv'
    BY <1>24, <1>r DEF ReportingStep
<1>25. ASSUME DeleteFails PROVE JobInv'
    BY <1>25, <1>r DEF ReportingStep
<1>26. ASSUME SaveHashesFails PROVE JobInv'
    BY <1>26, <1>r DEF ReportingStep
<1>27. ASSUME InitialIndexUnread PROVE JobInv'
    BY <1>27 DEF InitialIndexUnread, MayFail
<1>28. ASSUME IndexingFails PROVE JobInv'
    BY <1>28, <1>r DEF ReportingStep
<1>29. ASSUME InsertFails PROVE JobInv'
    BY <1>29, <1>r DEF ReportingStep
<1>30. ASSUME SymbolSaveFails PROVE JobInv'
    BY <1>30, <1>r DEF ReportingStep
<1>31. ASSUME Crash PROVE JobInv'
    BY <1>31 DEF Crash, Halt, Unlock, ZeroProgress
<1>32. ASSUME NEW t \in Target, RequestRebuild(t) PROVE JobInv'
    <2>1. StartJob(t) /\ UNCHANGED <<rebuildMu, stage>>
        BY <1>32 DEF RequestRebuild
    <2> QED
        BY <2>1, StartJobKeepsJobInvToo
<1>33. ASSUME NEW p \in Project, AddProject(p) PROVE JobInv'
    BY <1>33 DEF AddProject, RestartWatcher, Appended, MayFail
<1>34. ASSUME NEW p \in Project, AddProjectStartsJob(p) PROVE JobInv'
    <2>1. StartJob(p) /\ UNCHANGED <<rebuildMu, stage>>
        BY <1>34 DEF AddProjectStartsJob
    <2> QED
        BY <2>1, StartJobKeepsJobInvToo DEF Target
<1>35. ASSUME NEW p \in Project, RemoveProjectDeletes(p) PROVE JobInv'
    BY <1>35 DEF RemoveProjectDeletes, Lock, DeleteChunks, Abort, MayFail
<1>36. ASSUME NEW p \in Project, ReindexFilesAllowed(p) PROVE JobInv'
    BY <1>36 DEF ReindexFilesAllowed
<1>37. ASSUME NEW p \in Project, ReindexFiles(p) PROVE JobInv'
    BY <1>37 DEF ReindexFiles, Lock, DeleteChunks, Abort, MayFail
<1>38. ASSUME QueryStatus PROVE JobInv'
    BY <1>38, LoadKeepsJobInv DEF QueryStatus
<1>39. ASSUME NEW p \in Project, Edit(p) PROVE JobInv'
    BY <1>39 DEF Edit, Aged
<1>40. ASSUME NEW p \in Project, CallbackLocks(p) PROVE JobInv'
    BY <1>40 DEF CallbackLocks, Lock
<1>41. ASSUME WatcherFlush PROVE JobInv'
    BY <1>41 DEF WatcherFlush
<1>42. ASSUME UNCHANGED vars PROVE JobInv'
    BY <1>42 DEF vars
<1> QED
    BY <1>1, <1>2, <1>3, <1>4, <1>5, <1>6, <1>7, <1>8, <1>9, <1>10, <1>11, <1>12, <1>13,
       <1>14, <1>15, <1>16, <1>17, <1>18, <1>19, <1>20, <1>21, <1>22, <1>23, <1>24, <1>25,
       <1>26, <1>27, <1>28, <1>29, <1>30, <1>31, <1>32, <1>33, <1>34, <1>35, <1>36, <1>37,
       <1>38, <1>39, <1>40, <1>41, <1>42
       DEF Next, Work, Fault, Request
-----------------------------------------------------------------------------
(* Every action of App is an action of JobSlot or leaves its variables alone. *)

\* startJob enters a free slot under a new id or leaves the slot alone.
LEMMA StartJobIsSlotStep ==
    ASSUME TypeInv, JobInv, NEW t \in Target, StartJob(t)
    PROVE  Slot!Next \/ UNCHANGED Slot!vars
<1> DEFINE id == [target |-> t, serial |-> serial + 1]
<1>1. serial \in Nat /\ serial < MaxJobs
    BY BoundsAreNaturals DEF StartJob, TypeInv, TypeOK
<1>2. id \in Slot!JobId /\ id \in JobId /\ id.serial = serial + 1
    BY <1>1, BoundsAreNaturals DEF Slot!JobId, JobId
<1>3. StartJobWithID(id, progress) /\ progress \in ProgressState
    BY DEF StartJob, TypeInv, TypeOK
<1> HIDE DEF id
<1>4. CASE jobRunning
    BY <1>3, <1>4 DEF StartJobWithID, StartJob, jobVars, Slot!vars
<1>5. CASE ~jobRunning
    <2>1. /\ jobRunning' = TRUE /\ currentJobID' = id
          /\ SetJobID(id, progress) /\ serial' = serial + 1
        BY <1>3, <1>5 DEF StartJobWithID, StartJob
    <2>2. progressFile'.job \in {progressFile.job, id}
        BY <1>2, <1>3, <2>1, SetJobIDEffect DEF ProgressTyped, TypeInv, TypeOK
    <2>3. Slot!Enter(id)
        BY <1>1, <1>2, <1>5, <2>1, <2>2 DEF Slot!Enter, Slot!Occupy
    <2> QED
        BY <1>2, <2>3 DEF Slot!Next
<1> QED
    BY <1>4, <1>5

\* A report publishes the latest job's id, or takes back none but that of an earlier process.
LEMMA ReportIsSlotStep ==
    ASSUME TypeInv, JobInv, Reported, UNCHANGED <<currentJobID, serial>>
    PROVE  \/ progressFile'.job = progressFile.job
           \/ currentJobID # NoJob /\ progressFile'.job = currentJobID
           \/ currentJobID = NoJob /\ progressFile'.job = NoJob
<1> USE DEF JobInv, ProgressInv, Reported
<1>1. progressFile'.job \in {progressFile.job, NoJob, currentJobID}
    OBVIOUS
<1>2. progressFile'.job = NoJob => progressFile.job = NoJob \/ currentJobID = NoJob
    OBVIOUS
<1> QED
    BY <1>1, <1>2

\* A step of the daemon is a step of the abstract slot, or none.
LEMMA SlotStep == TypeInv /\ JobInv /\ [Next]_vars => [Slot!Next]_(Slot!vars)
<1> SUFFICES ASSUME TypeInv, JobInv, [Next]_vars PROVE Slot!Next \/ UNCHANGED Slot!vars
    OBVIOUS
<1>a. ProgressTyped
    BY DEF TypeInv, TypeOK, ProgressTyped
<1>b. "error" \in Status
    BY DEF Status
<1>r. ReportingStep => Slot!Next \/ UNCHANGED Slot!vars
    <2> SUFFICES ASSUME ReportingStep PROVE Slot!Next \/ UNCHANGED Slot!vars
        OBVIOUS
    <2>1. Reported /\ UNCHANGED <<jobRunning, currentJobID, serial>>
        BY ReportingEffect
    <2> QED
        BY <2>1, ReportIsSlotStep DEF Slot!Next, Slot!vars, Slot!Publish, Slot!Forget
<1> USE NamesAreDistinct DEF daemonVars, workVars, jobVars, progressVars, chunkVars, indexVars,
        projectVars, watchVars, Slot!vars
<1>1. ASSUME Boot PROVE Slot!Next \/ UNCHANGED Slot!vars
    BY <1>1 DEF Boot
<1>2. ASSUME Shutdown PROVE Slot!Next \/ UNCHANGED Slot!vars
    BY <1>2 DEF Shutdown
<1>3. ASSUME StartupStops PROVE Slot!Next \/ UNCHANGED Slot!vars
    BY <1>3 DEF StartupStops, WatcherStop
<1>4. ASSUME Exit PROVE Slot!Next \/ UNCHANGED Slot!vars
    BY <1>4 DEF Exit, Halt, Slot!Next, Slot!Die
<1>5. ASSUME StartupLocks PROVE Slot!Next \/ UNCHANGED Slot!vars
    BY <1>5 DEF StartupLocks, Lock
<1>6. ASSUME NEW j \in JobId, JobLocks(j) PROVE Slot!Next \/ UNCHANGED Slot!vars
    BY <1>6 DEF JobLocks, Lock
<1>7. ASSUME RebuildProject PROVE Slot!Next \/ UNCHANGED Slot!vars
    BY <1>7 DEF RebuildProject, JobHolds, DeleteChunks
<1>8. ASSUME ProjectNotFound PROVE Slot!Next \/ UNCHANGED Slot!vars
    BY <1>8 DEF ProjectNotFound, JobHolds, Abort
<1>9. ASSUME RebuildIndex PROVE Slot!Next \/ UNCHANGED Slot!vars
    BY <1>9 DEF RebuildIndex, JobHolds, DeleteChunks, WatcherStop
<1>10. ASSUME SaveHashes PROVE Slot!Next \/ UNCHANGED Slot!vars
    BY <1>10 DEF SaveHashes, AfterSave
<1>11. ASSUME InitialIndex PROVE Slot!Next \/ UNCHANGED Slot!vars
    BY <1>11 DEF InitialIndex, Loaded
<1>12. ASSUME ResumeInterruptedJob PROVE Slot!Next \/ UNCHANGED Slot!vars
    <2>1. CASE Loaded.job \in JobId /\ StartJobWithID(Loaded.job, Loaded)
        <3>1. CASE jobRunning
            BY <1>12, <2>1, <3>1 DEF ResumeInterruptedJob, StartJobWithID
        <3>2. CASE ~jobRunning
            <4>1. jobRunning' = TRUE /\ currentJobID' = Loaded.job /\ SetJobID(Loaded.job, Loaded)
                BY <2>1, <3>2 DEF StartJobWithID
            <4>2. progressFile'.job \in {progressFile.job, Loaded.job}
                BY <1>a, <2>1, <4>1, LoadedType, SetJobIDEffect
            <4>3. /\ Loaded.job \in {progressFile.job, currentJobID} \ {NoJob}
                  /\ Loaded.job = progressFile.job \/ progressFile.job = NoJob
                BY <1>a, <2>1
                   DEF Loaded, ZeroState, JobInv, ProgressInv, ProgressTyped, FileState, ProgressState
            <4>4. serial' = serial
                BY <1>12 DEF ResumeInterruptedJob
            <4>5. Slot!Resume
                BY <3>2, <4>1, <4>2, <4>3, <4>4 DEF Slot!Resume, Slot!Occupy
            <4> QED
                BY <4>5 DEF Slot!Next
        <3> QED
            BY <3>1, <3>2
    <2>2. CASE /\ Loaded.job = NoJob
               /\ Save([Loaded EXCEPT !.status = "error"]) /\ UNCHANGED <<jobVars, idSaved>>
        <3>1. progressFile.job = NoJob /\ progressFile'.job = NoJob
            BY <1>12, <1>a, <2>2
               DEF ResumeInterruptedJob, Save, Loaded, ZeroState, ProgressTyped, FileState, ProgressState
        <3> QED
            BY <1>12, <2>2, <3>1 DEF ResumeInterruptedJob
    <2> QED
        BY <1>12, <2>1, <2>2 DEF ResumeInterruptedJob
<1>13. ASSUME NEW p \in Project, StartDirectory(p) PROVE Slot!Next \/ UNCHANGED Slot!vars
    BY <1>13, <1>r DEF ReportingStep
<1>14. ASSUME WalkUnchanged PROVE Slot!Next \/ UNCHANGED Slot!vars
    BY <1>14, <1>r DEF ReportingStep
<1>15. ASSUME WalkChanged PROVE Slot!Next \/ UNCHANGED Slot!vars
    BY <1>15, <1>r DEF ReportingStep
<1>16. ASSUME StoreChunks PROVE Slot!Next \/ UNCHANGED Slot!vars
    BY <1>16 DEF StoreChunks, EnterHash
<1>17. ASSUME FinishDirectory PROVE Slot!Next \/ UNCHANGED Slot!vars
    BY <1>17, <1>r DEF ReportingStep
<1>18. ASSUME JobReturns PROVE Slot!Next \/ UNCHANGED Slot!vars
    <2>1. Reported /\ UNCHANGED <<currentJobID, serial>>
        BY <1>18, <1>a, <1>b, ReportEffect, NoReportEffect DEF JobReturns
    <2>2. /\ jobRunning /\ jobRunning' = FALSE /\ currentJobID # NoJob
        BY <1>18 DEF JobReturns, JobInv, OneActiveJob, ActiveJobs, IdsInv
    <2>3. Slot!Leave
        BY <2>1, <2>2, ReportIsSlotStep DEF Slot!Leave
    <2> QED
        BY <2>3 DEF Slot!Next
<1>19. ASSUME JobUnlocks PROVE Slot!Next \/ UNCHANGED Slot!vars
    BY <1>19 DEF JobUnlocks, JobHolds, Unlock
<1>20. ASSUME StartupServes PROVE Slot!Next \/ UNCHANGED Slot!vars
    BY <1>20 DEF StartupServes, Holds, Unlock
<1>21. ASSUME StartupFails PROVE Slot!Next \/ UNCHANGED Slot!vars
    BY <1>21 DEF StartupFails, Holds, Unlock
<1>22. ASSUME RemoveProjectCommits PROVE Slot!Next \/ UNCHANGED Slot!vars
    BY <1>22 DEF RemoveProjectCommits, Holds, Unlock, RestartWatcher, Shifted, MayFail
<1>23. ASSUME HandlerUnlocks PROVE Slot!Next \/ UNCHANGED Slot!vars
    BY <1>23 DEF HandlerUnlocks, Unlock
<1>24. ASSUME CountProgress PROVE Slot!Next \/ UNCHANGED Slot!vars
    BY <1>24, <1>r DEF ReportingStep
<1>25. ASSUME DeleteFails PROVE Slot!Next \/ UNCHANGED Slot!vars
    BY <1>25, <1>r DEF ReportingStep
<1>26. ASSUME SaveHashesFails PROVE Slot!Next \/ UNCHANGED Slot!vars
    BY <1>26, <1>r DEF ReportingStep
<1>27. ASSUME InitialIndexUnread PROVE Slot!Next \/ UNCHANGED Slot!vars
    BY <1>27 DEF InitialIndexUnread, MayFail
<1>28. ASSUME IndexingFails PROVE Slot!Next \/ UNCHANGED Slot!vars
    BY <1>28, <1>r DEF ReportingStep
<1>29. ASSUME InsertFails PROVE Slot!Next \/ UNCHANGED Slot!vars
    BY <1>29, <1>r DEF ReportingStep
<1>30. ASSUME SymbolSaveFails PROVE Slot!Next \/ UNCHANGED Slot!vars
    BY <1>30, <1>r DEF ReportingStep
<1>31. ASSUME Crash PROVE Slot!Next \/ UNCHANGED Slot!vars
    BY <1>31 DEF Crash, Halt, Slot!Next, Slot!Die
<1>32. ASSUME NEW t \in Target, RequestRebuild(t) PROVE Slot!Next \/ UNCHANGED Slot!vars
    BY <1>32, StartJobIsSlotStep DEF RequestRebuild
<1>33. ASSUME NEW p \in Project, AddProject(p) PROVE Slot!Next \/ UNCHANGED Slot!vars
    BY <1>33 DEF AddProject, RestartWatcher, Appended, MayFail
<1>34. ASSUME NEW p \in Project, AddProjectStartsJob(p) PROVE Slot!Next \/ UNCHANGED Slot!vars
    BY <1>34, StartJobIsSlotStep DEF AddProjectStartsJob, Target
<1>35. ASSUME NEW p \in Project, RemoveProjectDeletes(p) PROVE Slot!Next \/ UNCHANGED Slot!vars
    BY <1>35 DEF RemoveProjectDeletes, Lock, DeleteChunks, Abort, MayFail
<1>36. ASSUME NEW p \in Project, ReindexFilesAllowed(p) PROVE Slot!Next \/ UNCHANGED Slot!vars
    BY <1>36 DEF ReindexFilesAllowed
<1>37. ASSUME NEW p \in Project, ReindexFiles(p) PROVE Slot!Next \/ UNCHANGED Slot!vars
    BY <1>37 DEF ReindexFiles, Lock, DeleteChunks, Abort, MayFail
<1>38. ASSUME QueryStatus PROVE Slot!Next \/ UNCHANGED Slot!vars
    BY <1>38 DEF QueryStatus, Loaded
<1>39. ASSUME NEW p \in Project, Edit(p) PROVE Slot!Next \/ UNCHANGED Slot!vars
    BY <1>39 DEF Edit, Aged
<1>40. ASSUME NEW p \in Project, CallbackLocks(p) PROVE Slot!Next \/ UNCHANGED Slot!vars
    BY <1>40 DEF CallbackLocks, Lock
<1>41. ASSUME WatcherFlush PROVE Slot!Next \/ UNCHANGED Slot!vars
    BY <1>41 DEF WatcherFlush
<1>42. ASSUME UNCHANGED vars PROVE Slot!Next \/ UNCHANGED Slot!vars
    BY <1>42 DEF vars
<1> QED
    BY <1>1, <1>2, <1>3, <1>4, <1>5, <1>6, <1>7, <1>8, <1>9, <1>10, <1>11, <1>12, <1>13,
       <1>14, <1>15, <1>16, <1>17, <1>18, <1>19, <1>20, <1>21, <1>22, <1>23, <1>24, <1>25,
       <1>26, <1>27, <1>28, <1>29, <1>30, <1>31, <1>32, <1>33, <1>34, <1>35, <1>36, <1>37,
       <1>38, <1>39, <1>40, <1>41, <1>42
       DEF Next, Work, Fault, Request
-----------------------------------------------------------------------------
\* A process that is not there holds no lock, and nothing of it waits for one.
LEMMA DownStep == TypeInv /\ DownInv /\ [Next]_vars => DownInv'
<1> SUFFICES ASSUME TypeInv, DownInv, [Next]_vars PROVE DownInv'
    OBVIOUS
<1> USE NamesAreDistinct, BoundsAreNaturals
    DEF TypeInv, TypeOK, HolderInv, DownInv, Alive, Thread,
        daemonVars, workVars, jobVars, progressVars, chunkVars, indexVars, projectVars, watchVars
<1>1. ASSUME Boot PROVE DownInv'
    BY <1>1 DEF Boot
<1>2. ASSUME Shutdown PROVE DownInv'
    BY <1>2 DEF Shutdown
<1>3. ASSUME StartupStops PROVE DownInv'
    BY <1>3 DEF StartupStops, WatcherStop
<1>4. ASSUME Exit PROVE DownInv'
    BY <1>4 DEF Exit, Halt, Unlock
<1>5. ASSUME StartupLocks PROVE DownInv'
    BY <1>5 DEF StartupLocks, Lock
<1>6. ASSUME NEW j \in JobId, JobLocks(j) PROVE DownInv'
    BY <1>6 DEF JobLocks, Lock
<1>7. ASSUME RebuildProject PROVE DownInv'
    BY <1>7 DEF RebuildProject, JobHolds, DeleteChunks
<1>8. ASSUME ProjectNotFound PROVE DownInv'
    BY <1>8 DEF ProjectNotFound, JobHolds, Abort
<1>9. ASSUME RebuildIndex PROVE DownInv'
    BY <1>9 DEF RebuildIndex, JobHolds, DeleteChunks, WatcherStop
<1>10. ASSUME SaveHashes PROVE DownInv'
    BY <1>10 DEF SaveHashes, AfterSave
<1>11. ASSUME InitialIndex PROVE DownInv'
    BY <1>11 DEF InitialIndex, Loaded
<1>12. ASSUME ResumeInterruptedJob PROVE DownInv'
    BY <1>12 DEF ResumeInterruptedJob, Loaded, StartJobWithID, SetJobID, Save
<1>13. ASSUME NEW p \in Project, StartDirectory(p) PROVE DownInv'
    BY <1>13 DEF StartDirectory
<1>14. ASSUME WalkUnchanged PROVE DownInv'
    BY <1>14 DEF WalkUnchanged, ReportIfAny
<1>15. ASSUME WalkChanged PROVE DownInv'
    BY <1>15 DEF WalkChanged, ReportIfAny, MayFail
<1>16. ASSUME StoreChunks PROVE DownInv'
    BY <1>16 DEF StoreChunks, EnterHash
<1>17. ASSUME FinishDirectory PROVE DownInv'
    BY <1>17 DEF FinishDirectory, ReportIfAny
<1>18. ASSUME JobReturns PROVE DownInv'
    BY <1>18 DEF JobReturns
<1>19. ASSUME JobUnlocks PROVE DownInv'
    BY <1>19 DEF JobUnlocks, JobHolds, Unlock
<1>20. ASSUME StartupServes PROVE DownInv'
    BY <1>20 DEF StartupServes, Holds, Unlock
<1>21. ASSUME StartupFails PROVE DownInv'
    BY <1>21 DEF StartupFails, Holds, Unlock
<1>22. ASSUME RemoveProjectCommits PROVE DownInv'
    BY <1>22 DEF RemoveProjectCommits, Holds, Unlock, RestartWatcher, Shifted, MayFail
<1>23. ASSUME HandlerUnlocks PROVE DownInv'
    BY <1>23 DEF HandlerUnlocks, Unlock
<1>24. ASSUME CountProgress PROVE DownInv'
    BY <1>24 DEF CountProgress, Save
<1>25. ASSUME DeleteFails PROVE DownInv'
    BY <1>25 DEF DeleteFails, JobHolds, WatcherStop, MayFail, Abort
<1>26. ASSUME SaveHashesFails PROVE DownInv'
    BY <1>26 DEF SaveHashesFails, Failure, MayFail, Abort, ReportIfAny, ReportIndexingError
<1>27. ASSUME InitialIndexUnread PROVE DownInv'
    BY <1>27 DEF InitialIndexUnread, MayFail
<1>28. ASSUME IndexingFails PROVE DownInv'
    BY <1>28 DEF IndexingFails, Failure, MayFail, Abort, ReportIndexingError
<1>29. ASSUME InsertFails PROVE DownInv'
    BY <1>29 DEF InsertFails, Failure, MayFail, Abort, EnterHash, ReportIndexingError
<1>30. ASSUME SymbolSaveFails PROVE DownInv'
    BY <1>30 DEF SymbolSaveFails, JobHolds, MayFail, ReportIfAny, Abort
<1>31. ASSUME Crash PROVE DownInv'
    BY <1>31 DEF Crash, Halt, Unlock, Alive
<1>32. ASSUME NEW t \in Target, RequestRebuild(t) PROVE DownInv'
    BY <1>32 DEF RequestRebuild, StartJob, StartJobWithID
<1>33. ASSUME NEW p \in Project, AddProject(p) PROVE DownInv'
    BY <1>33 DEF AddProject, RestartWatcher, Appended, MayFail
<1>34. ASSUME NEW p \in Project, AddProjectStartsJob(p) PROVE DownInv'
    BY <1>34 DEF AddProjectStartsJob, StartJob, StartJobWithID
<1>35. ASSUME NEW p \in Project, RemoveProjectDeletes(p) PROVE DownInv'
    BY <1>35 DEF RemoveProjectDeletes, Lock, DeleteChunks, Abort, MayFail
<1>36. ASSUME NEW p \in Project, ReindexFilesAllowed(p) PROVE DownInv'
    BY <1>36 DEF ReindexFilesAllowed
<1>37. ASSUME NEW p \in Project, ReindexFiles(p) PROVE DownInv'
    BY <1>37 DEF ReindexFiles, Lock, DeleteChunks, Abort, MayFail
<1>38. ASSUME QueryStatus PROVE DownInv'
    BY <1>38 DEF QueryStatus, Loaded
<1>39. ASSUME NEW p \in Project, Edit(p) PROVE DownInv'
    BY <1>39 DEF Edit, Aged
<1>40. ASSUME NEW p \in Project, CallbackLocks(p) PROVE DownInv'
    BY <1>40 DEF CallbackLocks, Lock
<1>41. ASSUME WatcherFlush PROVE DownInv'
    BY <1>41 DEF WatcherFlush
<1>42. ASSUME UNCHANGED vars PROVE DownInv'
    BY <1>42 DEF vars
<1> QED
    BY <1>1, <1>2, <1>3, <1>4, <1>5, <1>6, <1>7, <1>8, <1>9, <1>10, <1>11, <1>12, <1>13,
       <1>14, <1>15, <1>16, <1>17, <1>18, <1>19, <1>20, <1>21, <1>22, <1>23, <1>24, <1>25,
       <1>26, <1>27, <1>28, <1>29, <1>30, <1>31, <1>32, <1>33, <1>34, <1>35, <1>36, <1>37,
       <1>38, <1>39, <1>40, <1>41, <1>42
       DEF Next, Work, Fault, Request
\* Whoever indexes and reports it, indexes configured projects.
DirsInv ==
    /\ todo \subseteq projects
    /\ stage \in {"walk", "replaced", "embed", "stored", "finish"} /\ Reports => dir \in projects

\* The project list changes only while nobody indexes.
LEMMA DirsStep == TypeInv /\ DownInv /\ DirsInv /\ [Next]_vars => DirsInv'
<1> SUFFICES ASSUME TypeInv, DownInv, DirsInv, [Next]_vars PROVE DirsInv'
    OBVIOUS
<1> USE NamesAreDistinct
    DEF TypeInv, TypeOK, HolderInv, DownInv, DirsInv, Thread, Alive, Reports,
        daemonVars, workVars, jobVars, progressVars, chunkVars, indexVars, projectVars, watchVars
<1>1. ASSUME Boot PROVE DirsInv'
    BY <1>1 DEF Boot
<1>2. ASSUME Shutdown PROVE DirsInv'
    BY <1>2 DEF Shutdown
<1>3. ASSUME StartupStops PROVE DirsInv'
    BY <1>3 DEF StartupStops, WatcherStop
<1>4. ASSUME Exit PROVE DirsInv'
    BY <1>4 DEF Exit, Halt, Unlock
<1>5. ASSUME StartupLocks PROVE DirsInv'
    BY <1>5 DEF StartupLocks, Lock
<1>6. ASSUME NEW j \in JobId, JobLocks(j) PROVE DirsInv'
    BY <1>6 DEF JobLocks, Lock
<1>7. ASSUME RebuildProject PROVE DirsInv'
    BY <1>7 DEF RebuildProject, JobHolds, DeleteChunks
<1>8. ASSUME ProjectNotFound PROVE DirsInv'
    BY <1>8 DEF ProjectNotFound, JobHolds, Abort
<1>9. ASSUME RebuildIndex PROVE DirsInv'
    BY <1>9 DEF RebuildIndex, JobHolds, DeleteChunks, WatcherStop
<1>10. ASSUME SaveHashes PROVE DirsInv'
    BY <1>10 DEF SaveHashes, AfterSave
<1>11. ASSUME InitialIndex PROVE DirsInv'
    BY <1>11 DEF InitialIndex, Loaded
<1>12. ASSUME ResumeInterruptedJob PROVE DirsInv'
    BY <1>12 DEF ResumeInterruptedJob, Loaded, StartJobWithID, SetJobID, Save
<1>13. ASSUME NEW p \in Project, StartDirectory(p) PROVE DirsInv'
    BY <1>13 DEF StartDirectory
<1>14. ASSUME WalkUnchanged PROVE DirsInv'
    BY <1>14 DEF WalkUnchanged, ReportIfAny
<1>15. ASSUME WalkChanged PROVE DirsInv'
    BY <1>15 DEF WalkChanged, ReportIfAny, MayFail
<1>16. ASSUME StoreChunks PROVE DirsInv'
    BY <1>16 DEF StoreChunks, EnterHash
<1>17. ASSUME FinishDirectory PROVE DirsInv'
    BY <1>17 DEF FinishDirectory, ReportIfAny
<1>18. ASSUME JobReturns PROVE DirsInv'
    BY <1>18 DEF JobReturns
<1>19. ASSUME JobUnlocks PROVE DirsInv'
    BY <1>19 DEF JobUnlocks, JobHolds, Unlock
<1>20. ASSUME StartupServes PROVE DirsInv'
    BY <1>20 DEF StartupServes, Holds, Unlock
<1>21. ASSUME StartupFails PROVE DirsInv'
    BY <1>21 DEF StartupFails, Holds, Unlock
<1>22. ASSUME RemoveProjectCommits PROVE DirsInv'
    BY <1>22 DEF RemoveProjectCommits, Holds, Unlock, RestartWatcher, Shifted, MayFail
<1>23. ASSUME HandlerUnlocks PROVE DirsInv'
    BY <1>23 DEF HandlerUnlocks, Unlock
<1>24. ASSUME CountProgress PROVE DirsInv'
    BY <1>24 DEF CountProgress, Save
<1>25. ASSUME DeleteFails PROVE DirsInv'
    BY <1>25 DEF DeleteFails, JobHolds, WatcherStop, MayFail, Abort
<1>26. ASSUME SaveHashesFails PROVE DirsInv'
    BY <1>26 DEF SaveHashesFails, Failure, MayFail, Abort, ReportIfAny, ReportIndexingError
<1>27. ASSUME InitialIndexUnread PROVE DirsInv'
    BY <1>27 DEF InitialIndexUnread, MayFail
<1>28. ASSUME IndexingFails PROVE DirsInv'
    BY <1>28 DEF IndexingFails, Failure, MayFail, Abort, ReportIndexingError
<1>29. ASSUME InsertFails PROVE DirsInv'
    BY <1>29 DEF InsertFails, Failure, MayFail, Abort, EnterHash, ReportIndexingError
<1>30. ASSUME SymbolSaveFails PROVE DirsInv'
    BY <1>30 DEF SymbolSaveFails, JobHolds, MayFail, ReportIfAny, Abort
<1>31. ASSUME Crash PROVE DirsInv'
    BY <1>31 DEF Crash, Halt, Unlock, Alive
<1>32. ASSUME NEW t \in Target, RequestRebuild(t) PROVE DirsInv'
    BY <1>32 DEF RequestRebuild, StartJob, StartJobWithID
<1>33. ASSUME NEW p \in Project, AddProject(p) PROVE DirsInv'
    BY <1>33 DEF AddProject, RestartWatcher, Appended, MayFail
<1>34. ASSUME NEW p \in Project, AddProjectStartsJob(p) PROVE DirsInv'
    BY <1>34 DEF AddProjectStartsJob, StartJob, StartJobWithID
<1>35. ASSUME NEW p \in Project, RemoveProjectDeletes(p) PROVE DirsInv'
    BY <1>35 DEF RemoveProjectDeletes, Lock, DeleteChunks, Abort, MayFail
<1>36. ASSUME NEW p \in Project, ReindexFilesAllowed(p) PROVE DirsInv'
    BY <1>36 DEF ReindexFilesAllowed
<1>37. ASSUME NEW p \in Project, ReindexFiles(p) PROVE DirsInv'
    BY <1>37 DEF ReindexFiles, Lock, DeleteChunks, Abort, MayFail
<1>38. ASSUME QueryStatus PROVE DirsInv'
    BY <1>38 DEF QueryStatus, Loaded
<1>39. ASSUME NEW p \in Project, Edit(p) PROVE DirsInv'
    BY <1>39 DEF Edit, Aged
<1>40. ASSUME NEW p \in Project, CallbackLocks(p) PROVE DirsInv'
    BY <1>40 DEF CallbackLocks, Lock
<1>41. ASSUME WatcherFlush PROVE DirsInv'
    BY <1>41 DEF WatcherFlush
<1>42. ASSUME UNCHANGED vars PROVE DirsInv'
    BY <1>42 DEF vars
<1> QED
    BY <1>1, <1>2, <1>3, <1>4, <1>5, <1>6, <1>7, <1>8, <1>9, <1>10, <1>11, <1>12, <1>13,
       <1>14, <1>15, <1>16, <1>17, <1>18, <1>19, <1>20, <1>21, <1>22, <1>23, <1>24, <1>25,
       <1>26, <1>27, <1>28, <1>29, <1>30, <1>31, <1>32, <1>33, <1>34, <1>35, <1>36, <1>37,
       <1>38, <1>39, <1>40, <1>41, <1>42
       DEF Next, Work, Fault, Request

\* Chunks appear only when they are inserted, or when a process ends in which a delete had
\* failed half-way.
LEMMA ChunksGrow == [Next]_vars => chunks' \subseteq chunks \/ StoreChunks \/ InsertFails \/ Halt
<1> SUFFICES ASSUME [Next]_vars, ~(StoreChunks \/ InsertFails \/ Halt)
             PROVE  chunks' \subseteq chunks
    OBVIOUS
<1> USE DEF chunkVars, indexVars, DeletePaths, DeletePathsFails
<1>1. ASSUME Boot PROVE chunks' \subseteq chunks
    BY <1>1 DEF Boot
<1>2. ASSUME Shutdown PROVE chunks' \subseteq chunks
    BY <1>2 DEF Shutdown
<1>3. ASSUME StartupStops PROVE chunks' \subseteq chunks
    BY <1>3 DEF StartupStops
<1>4. ASSUME Exit PROVE chunks' \subseteq chunks
    BY <1>4 DEF Exit
<1>5. ASSUME StartupLocks PROVE chunks' \subseteq chunks
    BY <1>5 DEF StartupLocks
<1>6. ASSUME NEW j \in JobId, JobLocks(j) PROVE chunks' \subseteq chunks
    BY <1>6 DEF JobLocks
<1>7. ASSUME RebuildProject PROVE chunks' \subseteq chunks
    BY <1>7 DEF RebuildProject, DeleteChunks
<1>8. ASSUME ProjectNotFound PROVE chunks' \subseteq chunks
    BY <1>8 DEF ProjectNotFound
<1>9. ASSUME RebuildIndex PROVE chunks' \subseteq chunks
    BY <1>9 DEF RebuildIndex, DeleteChunks
<1>10. ASSUME SaveHashes PROVE chunks' \subseteq chunks
    BY <1>10 DEF SaveHashes
<1>11. ASSUME InitialIndex PROVE chunks' \subseteq chunks
    BY <1>11 DEF InitialIndex
<1>12. ASSUME ResumeInterruptedJob PROVE chunks' \subseteq chunks
    BY <1>12 DEF ResumeInterruptedJob
<1>13. ASSUME NEW p \in Project, StartDirectory(p) PROVE chunks' \subseteq chunks
    BY <1>13 DEF StartDirectory
<1>14. ASSUME WalkUnchanged PROVE chunks' \subseteq chunks
    BY <1>14 DEF WalkUnchanged
<1>15. ASSUME WalkChanged PROVE chunks' \subseteq chunks
    BY <1>15 DEF WalkChanged
<1>16. ASSUME StoreChunks PROVE chunks' \subseteq chunks
    BY <1>16 DEF StoreChunks
<1>17. ASSUME FinishDirectory PROVE chunks' \subseteq chunks
    BY <1>17 DEF FinishDirectory
<1>18. ASSUME JobReturns PROVE chunks' \subseteq chunks
    BY <1>18 DEF JobReturns
<1>19. ASSUME JobUnlocks PROVE chunks' \subseteq chunks
    BY <1>19 DEF JobUnlocks
<1>20. ASSUME StartupServes PROVE chunks' \subseteq chunks
    BY <1>20 DEF StartupServes
<1>21. ASSUME StartupFails PROVE chunks' \subseteq chunks
    BY <1>21 DEF StartupFails
<1>22. ASSUME RemoveProjectCommits PROVE chunks' \subseteq chunks
    BY <1>22 DEF RemoveProjectCommits
<1>23. ASSUME HandlerUnlocks PROVE chunks' \subseteq chunks
    BY <1>23 DEF HandlerUnlocks
<1>24. ASSUME CountProgress PROVE chunks' \subseteq chunks
    BY <1>24 DEF CountProgress
<1>25. ASSUME DeleteFails PROVE chunks' \subseteq chunks
    BY <1>25 DEF DeleteFails
<1>26. ASSUME SaveHashesFails PROVE chunks' \subseteq chunks
    BY <1>26 DEF SaveHashesFails
<1>27. ASSUME InitialIndexUnread PROVE chunks' \subseteq chunks
    BY <1>27 DEF InitialIndexUnread
<1>28. ASSUME IndexingFails PROVE chunks' \subseteq chunks
    BY <1>28 DEF IndexingFails
<1>29. ASSUME InsertFails PROVE chunks' \subseteq chunks
    BY <1>29 DEF InsertFails
<1>30. ASSUME SymbolSaveFails PROVE chunks' \subseteq chunks
    BY <1>30 DEF SymbolSaveFails
<1>31. ASSUME Crash PROVE chunks' \subseteq chunks
    BY <1>31 DEF Crash
<1>32. ASSUME NEW t \in Target, RequestRebuild(t) PROVE chunks' \subseteq chunks
    BY <1>32 DEF RequestRebuild
<1>33. ASSUME NEW p \in Project, AddProject(p) PROVE chunks' \subseteq chunks
    BY <1>33 DEF AddProject
<1>34. ASSUME NEW p \in Project, AddProjectStartsJob(p) PROVE chunks' \subseteq chunks
    BY <1>34 DEF AddProjectStartsJob
<1>35. ASSUME NEW p \in Project, RemoveProjectDeletes(p) PROVE chunks' \subseteq chunks
    BY <1>35 DEF RemoveProjectDeletes, DeleteChunks
<1>36. ASSUME NEW p \in Project, ReindexFilesAllowed(p) PROVE chunks' \subseteq chunks
    BY <1>36 DEF ReindexFilesAllowed
<1>37. ASSUME NEW p \in Project, ReindexFiles(p) PROVE chunks' \subseteq chunks
    BY <1>37 DEF ReindexFiles, DeleteChunks
<1>38. ASSUME QueryStatus PROVE chunks' \subseteq chunks
    BY <1>38 DEF QueryStatus
<1>39. ASSUME NEW p \in Project, Edit(p) PROVE chunks' \subseteq chunks
    BY <1>39 DEF Edit
<1>40. ASSUME NEW p \in Project, CallbackLocks(p) PROVE chunks' \subseteq chunks
    BY <1>40 DEF CallbackLocks
<1>41. ASSUME WatcherFlush PROVE chunks' \subseteq chunks
    BY <1>41 DEF WatcherFlush
<1>42. ASSUME UNCHANGED vars PROVE chunks' \subseteq chunks
    BY <1>42 DEF vars
<1> QED
    BY <1>1, <1>2, <1>3, <1>4, <1>5, <1>6, <1>7, <1>8, <1>9, <1>10, <1>11, <1>12, <1>13,
       <1>14, <1>15, <1>16, <1>17, <1>18, <1>19, <1>20, <1>21, <1>22, <1>23, <1>24, <1>25,
       <1>26, <1>27, <1>28, <1>29, <1>30, <1>31, <1>32, <1>33, <1>34, <1>35, <1>36, <1>37,
       <1>38, <1>39, <1>40, <1>41, <1>42
       DEF Next, Work, Fault, Request

\* With that, jobs and the start-up index give chunks to configured projects only.
LEMMA RemovedStep ==
    TypeInv /\ DirsInv /\ [Next]_vars =>
        \A q \in Project : q \notin projects /\ q \notin chunks /\ q \in chunks'
            => (rebuildMu \in {Handler, Callback} /\ dir = q) \/ q \in leftover
<1> SUFFICES ASSUME TypeInv, DirsInv, [Next]_vars,
                    NEW q \in Project, q \notin projects, q \notin chunks, q \in chunks'
             PROVE  (rebuildMu \in {Handler, Callback} /\ dir = q) \/ q \in leftover
    OBVIOUS
<1>1. CASE Halt
    BY <1>1 DEF Halt
<1>2. CASE StoreChunks \/ InsertFails
    <2>1. stage = "embed" /\ q = dir
        BY <1>2 DEF StoreChunks, InsertFails, chunkVars
    <2> QED
        BY <2>1 DEF DirsInv, Reports
<1> QED
    BY <1>1, <1>2, ChunksGrow

-----------------------------------------------------------------------------
(* The theorems.                                                           *)

\* A fresh installation satisfies all of it.
LEMMA InitHolds == Init => TypeInv /\ JobInv /\ DownInv /\ DirsInv
<1> SUFFICES ASSUME Init PROVE TypeInv /\ JobInv /\ DownInv /\ DirsInv
    OBVIOUS
<1> USE NamesAreDistinct, BoundsAreNaturals DEF Init, ZeroState, ZeroProgress
<1>1. TypeOK
    <2>1. progress \in ProgressState /\ progressFile \in FileState
        BY DEF ProgressState, FileState, Status
    <2>2. hashes \in HashTable /\ hashFile \in HashTable
        BY DEF HashTable
    <2>3. jobRunning \in BOOLEAN /\ idSaved \in BOOLEAN /\ statusSaved \in BOOLEAN
        OBVIOUS
    <2> QED
        BY <2>1, <2>2, <2>3 DEF TypeOK
<1>2. HolderInv
    BY DEF HolderInv, Thread
<1>3. JobInv
    BY DEF JobInv, IdsInv, ProgressInv, OneActiveJob, ActiveJobs, RunningJobIsReported, Thread
<1>4. DownInv /\ DirsInv
    BY DEF DownInv, DirsInv
<1> QED
    BY <1>1, <1>2, <1>3, <1>4 DEF TypeInv

\* Type correctness, and who may be at which stage with what at hand (all of App).
THEOREM TypeCorrect == Spec => [](TypeOK /\ HolderInv)
<1> SUFFICES Spec => []TypeInv
    BY PTL DEF TypeInv
<1> QED
    BY InitHolds, TypeStep, PTL DEF Spec

\* What the theorems about jobs rest on.
LEMMA CoreInvariant == Spec => [](TypeInv /\ JobInv /\ DownInv /\ DirsInv)
<1>1. Init => TypeInv /\ JobInv /\ DownInv /\ DirsInv
    BY InitHolds
<1> QED
    BY <1>1, TypeStep, JobStep, DownStep, DirsStep, PTL DEF Spec

\* At any time at most the announced job waits or works, through crashes, resumed
\* jobs, coalesced requests and any number of projects (startJobWithID).
THEOREM AtMostOneJob == Spec => []OneActiveJob
    BY CoreInvariant, PTL DEF JobInv

\* While a job runs whose id got into progress.json as it began, memory and progress.json
\* carry that id, whichever later writes fail (Progress.Load, SetJobID, saveLocked).
THEOREM JobIsReported == Spec => []RunningJobIsReported
    BY CoreInvariant, PTL DEF JobInv

\* Jobs, start-up index and resumed jobs never bring back a removed project; only the
\* watcher's callback, a reindex_files call and the end of a process after a failed delete do.
THEOREM RemovedProjectsStayRemoved == Spec => RemovedStaysRemoved
<1>1. TypeInv /\ DirsInv /\ [Next]_vars
        => [\A p \in Project :
              p \notin projects /\ p \notin chunks /\ p \in chunks'
                  => (rebuildMu \in {Handler, Callback} /\ dir = p) \/ p \in leftover]_vars
    BY RemovedStep
<1> QED
    BY <1>1, CoreInvariant, PTL DEF Spec, RemovedStaysRemoved

\* The daemon's job machinery implements the abstract job slot, through crashes and lost
\* writes of progress.json.
THEOREM AppImplementsJobSlot == Spec => ImplementsJobSlot
<1>1. Init => Slot!Init
    BY DEF Init, ZeroState, Slot!Init
<1>2. Init => TypeInv /\ JobInv
    BY InitHolds
<1> QED
    BY <1>1, <1>2, TypeStep, JobStep, SlotStep, PTL DEF Spec, ImplementsJobSlot, Slot!Spec
=============================================================================
