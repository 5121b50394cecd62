--------------------------- MODULE AppWatchProofs ---------------------------
(***************************************************************************)
(* The rest of App's inductive invariant: what the watcher covers, who may *)
(* have reported that it runs, and how far a rebuild has come.             *)
(***************************************************************************)
EXTENDS AppProofs

\* Whoever changes the list of projects restarts the watcher or cannot write the file, and
\* a full rebuild that stops it starts it again, whatever happens in between.
LEMMA CoverStep == TypeInv /\ DownInv /\ CoverInv /\ [Next]_vars => CoverInv'
<1> SUFFICES ASSUME TypeInv, DownInv, CoverInv, [Next]_vars PROVE CoverInv'
    OBVIOUS
<1> USE NamesAreDistinct, BoundsAreNaturals
        DEF TypeInv, TypeOK, HolderInv, DownInv, CoverInv, Rebuilding, WatcherStarted, Alive,
            Thread, JobId,
            daemonVars, workVars, jobVars, progressVars, chunkVars, indexVars, projectVars, watchVars
<1>1. ASSUME Boot PROVE CoverInv'
    BY <1>1 DEF Boot
<1>2. ASSUME Shutdown PROVE CoverInv'
    BY <1>2 DEF Shutdown
<1>3. ASSUME StartupStops PROVE CoverInv'
    BY <1>3 DEF StartupStops, WatcherStop
<1>4. ASSUME Exit PROVE CoverInv'
    BY <1>4 DEF Exit, Halt, Unlock
<1>5. ASSUME StartupLocks PROVE CoverInv'
    BY <1>5 DEF StartupLocks, Lock
<1>6. ASSUME NEW j \in JobId, JobLocks(j) PROVE CoverInv'
    BY <1>6 DEF JobLocks, Lock
<1>7. ASSUME RebuildProject PROVE CoverInv'
    BY <1>7 DEF RebuildProject, JobHolds, DeleteChunks
<1>8. ASSUME ProjectNotFound PROVE CoverInv'
    BY <1>8 DEF ProjectNotFound, JobHolds, Abort
<1>9. ASSUME RebuildIndex PROVE CoverInv'
    BY <1>9 DEF RebuildIndex, JobHolds, DeleteChunks, WatcherStop
<1>10. ASSUME SaveHashes PROVE CoverInv'
    BY <1>10 DEF SaveHashes, AfterSave
<1>11. ASSUME InitialIndex PROVE CoverInv'
    BY <1>11 DEF InitialIndex
<1>12. ASSUME ResumeInterruptedJob PROVE CoverInv'
    BY <1>12 DEF ResumeInterruptedJob, StartJobWithID
<1>13. ASSUME NEW p \in Project, StartDirectory(p) PROVE CoverInv'
    BY <1>13 DEF StartDirectory
<1>14. ASSUME WalkUnchanged PROVE CoverInv'
    BY <1>14 DEF WalkUnchanged, ReportIfAny
<1>15. ASSUME WalkChanged PROVE CoverInv'
    BY <1>15 DEF WalkChanged, ReportIfAny, MayFail
<1>16. ASSUME StoreChunks PROVE CoverInv'
    BY <1>16 DEF StoreChunks, EnterHash
<1>17. ASSUME FinishDirectory PROVE CoverInv'
    BY <1>17 DEF FinishDirectory, ReportIfAny
<1>18. ASSUME JobReturns PROVE CoverInv'
    BY <1>18 DEF JobReturns
<1>19. ASSUME JobUnlocks PROVE CoverInv'
    BY <1>19 DEF JobUnlocks, JobHolds, Unlock
<1>20. ASSUME StartupServes PROVE CoverInv'
    BY <1>20 DEF StartupServes, Holds, Unlock
<1>21. ASSUME StartupFails PROVE CoverInv'
    BY <1>21 DEF StartupFails, Holds, Unlock
<1>22. ASSUME RemoveProjectCommits PROVE CoverInv'
    BY <1>22 DEF RemoveProjectCommits, Holds, Unlock, RestartWatcher, Shifted, MayFail
<1>23. ASSUME HandlerUnlocks PROVE CoverInv'
    BY <1>23 DEF HandlerUnlocks, Unlock
<1>24. ASSUME CountProgress PROVE CoverInv'
    BY <1>24 DEF CountProgress
<1>25. ASSUME DeleteFails PROVE CoverInv'
    BY <1>25 DEF DeleteFails, JobHolds, WatcherStop, MayFail, Abort
<1>26. ASSUME SaveHashesFails PROVE CoverInv'
    BY <1>26 DEF SaveHashesFails, Failure, MayFail, Abort, ReportIfAny, ReportIndexingError
<1>27. ASSUME InitialIndexUnread PROVE CoverInv'
    BY <1>27 DEF InitialIndexUnread, MayFail
<1>28. ASSUME IndexingFails PROVE CoverInv'
    BY <1>28 DEF IndexingFails, Failure, MayFail, Abort, ReportIndexingError
<1>29. ASSUME InsertFails PROVE CoverInv'
    BY <1>29 DEF InsertFails, Failure, MayFail, Abort, EnterHash, ReportIndexingError
<1>30. ASSUME SymbolSaveFails PROVE CoverInv'
    BY <1>30 DEF SymbolSaveFails, JobHolds, MayFail, ReportIfAny, Abort
<1>31. ASSUME Crash PROVE CoverInv'
    BY <1>31 DEF Crash, Halt, Unlock, Alive
<1>32. ASSUME NEW t \in Target, RequestRebuild(t) PROVE CoverInv'
    BY <1>32 DEF RequestRebuild, StartJob, StartJobWithID
<1>33. ASSUME NEW p \in Project, AddProject(p) PROVE CoverInv'
    BY <1>33 DEF AddProject, RestartWatcher, Appended, MayFail
<1>34. ASSUME NEW p \in Project, AddProjectStartsJob(p) PROVE CoverInv'
    BY <1>34 DEF AddProjectStartsJob, StartJob, StartJobWithID
<1>35. ASSUME NEW p \in Project, RemoveProjectDeletes(p) PROVE CoverInv'
    BY <1>35 DEF RemoveProjectDeletes, Lock, DeleteChunks, Abort, MayFail
<1>36. ASSUME NEW p \in Project, ReindexFilesAllowed(p) PROVE CoverInv'
    BY <1>36 DEF ReindexFilesAllowed
<1>37. ASSUME NEW p \in Project, ReindexFiles(p) PROVE CoverInv'
    BY <1>37 DEF ReindexFiles, Lock, DeleteChunks, Abort, MayFail
<1>38. ASSUME QueryStatus PROVE CoverInv'
    BY <1>38 DEF QueryStatus
<1>39. ASSUME NEW p \in Project, Edit(p) PROVE CoverInv'
    BY <1>39 DEF Edit, Aged
<1>40. ASSUME NEW p \in Project, CallbackLocks(p) PROVE CoverInv'
    BY <1>40 DEF CallbackLocks, Lock
<1>41. ASSUME WatcherFlush PROVE CoverInv'
    BY <1>41 DEF WatcherFlush
<1>42. ASSUME UNCHANGED vars PROVE CoverInv'
    BY <1>42 DEF vars
<1> QED
    BY <1>1, <1>2, <1>3, <1>4, <1>5, <1>6, <1>7, <1>8, <1>9, <1>10, <1>11, <1>12, <1>13,
       <1>14, <1>15, <1>16, <1>17, <1>18, <1>19, <1>20, <1>21, <1>22, <1>23, <1>24, <1>25,
       <1>26, <1>27, <1>28, <1>29, <1>30, <1>31, <1>32, <1>33, <1>34, <1>35, <1>36, <1>37,
       <1>38, <1>39, <1>40, <1>41, <1>42
       DEF Next, Work, Fault, Request

\* What a report leaves as the status, in the file only if it got there.
LEMMA ReportStatus ==
    ASSUME ProgressTyped, NEW st \in Status, Report(st)
    PROVE  progress'.status = st /\ (statusSaved' => progressFile'.status = st)
    BY DEF Report, Save, ProgressTyped, ProgressState

\* Starting a job saves the status there is, and does not count as a report of it.
LEMMA StartJobStatus ==
    ASSUME TypeOK, NEW t \in Target, StartJob(t)
    PROVE  /\ progress'.status = progress.status /\ statusSaved' = statusSaved
           /\ progressFile'.status \in {progressFile.status, progress.status}
<1> DEFINE id == [target |-> t, serial |-> serial + 1]
           s == [progress EXCEPT !.id = id, !.job = id]
<1>1. s.status = progress.status
    BY DEF TypeOK, ProgressState
<1>2. \/ progress' = progress /\ UNCHANGED <<progressFile, statusSaved>>
      \/ Save(s) /\ UNCHANGED statusSaved
    BY DEF StartJob, StartJobWithID, SetJobID
<1> HIDE DEF s
<1> QED
    BY <1>1, <1>2 DEF Save

\* As long as no process ended early, every thread that stops indexing reports it.
LEMMA BackedStep == TypeInv /\ JobInv /\ BackedInv /\ [Next]_vars => BackedInv'
<1> SUFFICES ASSUME TypeInv, JobInv, BackedInv, [Next]_vars PROVE BackedInv'
    OBVIOUS
<1>a. ProgressTyped
    BY DEF TypeInv, TypeOK, ProgressTyped
<1>b. {"running", "done", "error"} \subseteq Status
    BY DEF Status
<1> USE NamesAreDistinct, BoundsAreNaturals
        DEF TypeInv, TypeOK, HolderInv, BackedInv, Indexing, Reports, Holds, JobHolds,
            ZeroState, FileState, ProgressState, Thread,
            daemonVars, workVars, jobVars, progressVars, chunkVars, indexVars, projectVars, watchVars
<1>1. ASSUME Boot PROVE BackedInv'
    BY <1>1 DEF Boot
<1>2. ASSUME Shutdown PROVE BackedInv'
    BY <1>2 DEF Shutdown
<1>3. ASSUME StartupStops PROVE BackedInv'
    BY <1>3 DEF StartupStops, WatcherStop
<1>4. ASSUME Exit PROVE BackedInv'
    BY <1>4 DEF Exit, Halt, Unlock, ZeroProgress
<1>5. ASSUME StartupLocks PROVE BackedInv'
    BY <1>5 DEF StartupLocks, Lock
<1>6. ASSUME NEW j \in JobId, JobLocks(j) PROVE BackedInv'
    BY <1>6 DEF JobLocks, Lock
<1>7. ASSUME RebuildProject PROVE BackedInv'
    BY <1>7 DEF RebuildProject, JobHolds, DeleteChunks
<1>8. ASSUME ProjectNotFound PROVE BackedInv'
    BY <1>8 DEF ProjectNotFound, JobHolds, Abort
<1>9. ASSUME RebuildIndex PROVE BackedInv'
    BY <1>9 DEF RebuildIndex, JobHolds, DeleteChunks, WatcherStop
<1>10. ASSUME SaveHashes PROVE BackedInv'
    BY <1>10 DEF SaveHashes, AfterSave
<1>11. ASSUME InitialIndex PROVE BackedInv'
    BY <1>11 DEF InitialIndex, Loaded
<1>12. ASSUME ResumeInterruptedJob PROVE BackedInv'
    BY <1>12 DEF ResumeInterruptedJob, Loaded, StartJobWithID, SetJobID, Save
<1>13. ASSUME NEW p \in Project, StartDirectory(p) PROVE BackedInv'
    BY <1>13, <1>a, <1>b, ReportStatus DEF StartDirectory
<1>14. ASSUME WalkUnchanged PROVE BackedInv'
    BY <1>14, <1>a, <1>b, ReportStatus DEF WalkUnchanged, ReportIfAny
<1>15. ASSUME WalkChanged PROVE BackedInv'
    BY <1>15, <1>a, <1>b, ReportStatus DEF WalkChanged, ReportIfAny, MayFail
<1>16. ASSUME StoreChunks PROVE BackedInv'
    BY <1>16 DEF StoreChunks, EnterHash
<1>17. ASSUME FinishDirectory PROVE BackedInv'
    BY <1>17, <1>a, <1>b, ReportStatus DEF FinishDirectory, ReportIfAny
<1>18. ASSUME JobReturns PROVE BackedInv'
    BY <1>18, <1>a, <1>b, ReportStatus DEF JobReturns
<1>19. ASSUME JobUnlocks PROVE BackedInv'
    BY <1>19 DEF JobUnlocks, JobHolds, Unlock
<1>20. ASSUME StartupServes PROVE BackedInv'
    BY <1>20 DEF StartupServes, Holds, Unlock
<1>21. ASSUME StartupFails PROVE BackedInv'
    BY <1>21 DEF StartupFails, Holds, Unlock
<1>22. ASSUME RemoveProjectCommits PROVE BackedInv'
    BY <1>22 DEF RemoveProjectCommits, Holds, Unlock, RestartWatcher, Shifted, MayFail
<1>23. ASSUME HandlerUnlocks PROVE BackedInv'
    BY <1>23 DEF HandlerUnlocks, Unlock
<1>24. ASSUME CountProgress PROVE BackedInv'
    BY <1>24 DEF CountProgress, Save
<1>25. ASSUME DeleteFails PROVE BackedInv'
    BY <1>25, <1>a, <1>b, ReportStatus DEF DeleteFails, JobHolds, WatcherStop, MayFail, Abort
<1>26. ASSUME SaveHashesFails PROVE BackedInv'
    BY <1>26, <1>a, <1>b, ReportStatus DEF SaveHashesFails, Failure, MayFail, Abort, ReportIfAny, ReportIndexingError
<1>27. ASSUME InitialIndexUnread PROVE BackedInv'
    BY <1>27 DEF InitialIndexUnread, MayFail
<1>28. ASSUME IndexingFails PROVE BackedInv'
    BY <1>28, <1>a, <1>b, ReportStatus DEF IndexingFails, Failure, MayFail, Abort, ReportIndexingError
<1>29. ASSUME InsertFails PROVE BackedInv'
    BY <1>29, <1>a, <1>b, ReportStatus DEF InsertFails, Failure, MayFail, Abort, EnterHash, ReportIndexingError
<1>30. ASSUME SymbolSaveFails PROVE BackedInv'
    BY <1>30, <1>a, <1>b, ReportStatus DEF SymbolSaveFails, JobHolds, MayFail, ReportIfAny, Abort
<1>31. ASSUME Crash PROVE BackedInv'
    BY <1>31 DEF Crash, Halt, Unlock, Alive, ZeroProgress
<1>32. ASSUME NEW t \in Target, RequestRebuild(t) PROVE BackedInv'
    <2>1. StartJob(t) /\ UNCHANGED <<daemonVars, workVars, indexVars, projects, stops>>
        BY <1>32 DEF RequestRebuild
    <2>2. /\ progress'.status = progress.status /\ statusSaved' = statusSaved
          /\ progressFile'.status \in {progressFile.status, progress.status}
        BY <2>1, StartJobStatus
    <2> QED
        BY <2>1, <2>2
<1>33. ASSUME NEW p \in Project, AddProject(p) PROVE BackedInv'
    BY <1>33 DEF AddProject, RestartWatcher, Appended, MayFail
<1>34. ASSUME NEW p \in Project, AddProjectStartsJob(p) PROVE BackedInv'
    <2>1. StartJob(p) /\ UNCHANGED <<daemonVars, workVars, indexVars, projects, stops>>
        BY <1>34 DEF AddProjectStartsJob
    <2>2. /\ progress'.status = progress.status /\ statusSaved' = statusSaved
          /\ progressFile'.status \in {progressFile.status, progress.status}
        BY <2>1, StartJobStatus DEF Target
    <2> QED
        BY <2>1, <2>2
<1>35. ASSUME NEW p \in Project, RemoveProjectDeletes(p) PROVE BackedInv'
    BY <1>35 DEF RemoveProjectDeletes, Lock, DeleteChunks, Abort, MayFail
<1>36. ASSUME NEW p \in Project, ReindexFilesAllowed(p) PROVE BackedInv'
    BY <1>36 DEF ReindexFilesAllowed
<1>37. ASSUME NEW p \in Project, ReindexFiles(p) PROVE BackedInv'
    BY <1>37 DEF ReindexFiles, Lock, DeleteChunks, Abort, MayFail
<1>38. ASSUME QueryStatus PROVE BackedInv'
    BY <1>38 DEF QueryStatus, Loaded
<1>39. ASSUME NEW p \in Project, Edit(p) PROVE BackedInv'
    BY <1>39 DEF Edit, Aged
<1>40. ASSUME NEW p \in Project, CallbackLocks(p) PROVE BackedInv'
    BY <1>40 DEF CallbackLocks, Lock
<1>41. ASSUME WatcherFlush PROVE BackedInv'
    BY <1>41 DEF WatcherFlush
<1>42. ASSUME UNCHANGED vars PROVE BackedInv'
    BY <1>42 DEF vars
<1> QED
    BY <1>1, <1>2, <1>3, <1>4, <1>5, <1>6, <1>7, <1>8, <1>9, <1>10, <1>11, <1>12, <1>13,
       <1>14, <1>15, <1>16, <1>17, <1>18, <1>19, <1>20, <1>21, <1>22, <1>23, <1>24, <1>25,
       <1>26, <1>27, <1>28, <1>29, <1>30, <1>31, <1>32, <1>33, <1>34, <1>35, <1>36, <1>37,
       <1>38, <1>39, <1>40, <1>41, <1>42
       DEF Next, Work, Fault, Request

\* A rebuild works off the list it found, which nobody changes meanwhile.
LEMMA DeliverStep ==
    TypeInv /\ JobInv /\ BackedInv /\ DownInv /\ DeliverInv /\ [Next]_vars => DeliverInv'
<1> SUFFICES ASSUME TypeInv, JobInv, BackedInv, DownInv, DeliverInv, [Next]_vars PROVE DeliverInv'
    OBVIOUS
<1> USE NamesAreDistinct, BoundsAreNaturals
        DEF TypeInv, TypeOK, HolderInv, DownInv, DeliverInv, Covered, Ahead, InWork, HashTable,
            Target, JobId,
            daemonVars, workVars, jobVars, progressVars, chunkVars, indexVars, projectVars, watchVars
<1>1. ASSUME Boot PROVE DeliverInv'
    BY <1>1 DEF Boot
<1>2. ASSUME Shutdown PROVE DeliverInv'
    BY <1>2 DEF Shutdown
<1>3. ASSUME StartupStops PROVE DeliverInv'
    BY <1>3 DEF StartupStops, WatcherStop
<1>4. ASSUME Exit PROVE DeliverInv'
    BY <1>4 DEF Exit, Halt, Unlock
<1>5. ASSUME StartupLocks PROVE DeliverInv'
    BY <1>5 DEF StartupLocks, Lock
<1>6. ASSUME NEW j \in JobId, JobLocks(j) PROVE DeliverInv'
    BY <1>6 DEF JobLocks, Lock
<1>7. ASSUME RebuildProject PROVE DeliverInv'
    BY <1>7 DEF RebuildProject, JobHolds, DeleteChunks, DeletePaths, Tracked, Without
<1>8. ASSUME ProjectNotFound PROVE DeliverInv'
    BY <1>8 DEF ProjectNotFound, JobHolds, Abort
<1>9. ASSUME RebuildIndex PROVE DeliverInv'
    BY <1>9 DEF RebuildIndex, JobHolds, DeleteChunks, WatcherStop, DeletePaths, Tracked, Without
<1>10. ASSUME SaveHashes PROVE DeliverInv'
    BY <1>10 DEF SaveHashes, AfterSave
<1>11. ASSUME InitialIndex PROVE DeliverInv'
    BY <1>11 DEF InitialIndex, Loaded
<1>12. ASSUME ResumeInterruptedJob PROVE DeliverInv'
    <2>1. stage = "load" /\ stage' = "return" /\ UNCHANGED <<rebuildMu, stops, projects, chunks, todo>>
        BY <1>12 DEF ResumeInterruptedJob
    <2>2. ASSUME rebuildMu \in JobId PROVE stops # 0 \/ ~statusSaved'
        <3>1. jobRunning
            BY <2>1, <2>2 DEF JobInv, OneActiveJob, ActiveJobs
        <3>2. Loaded.job # NoJob
            BY <3>1, <1>12 DEF ResumeInterruptedJob, Loaded, JobInv, ProgressInv, IdsInv, ZeroState
        <3>3. statusSaved' = statusSaved
            BY <1>12, <3>1, <3>2 DEF ResumeInterruptedJob, StartJobWithID
        <3>4. progressFile.status = "running"
            BY <1>12 DEF ResumeInterruptedJob, Loaded, ZeroState
        <3> QED
            BY <2>1, <3>3, <3>4 DEF BackedInv, Indexing, JobHolds
    <2>3. rebuildMu \in JobId => rebuildMu.target = AllProjects
        BY <2>1
    <2> QED
        BY <2>1, <2>2, <2>3
<1>13. ASSUME NEW p \in Project, StartDirectory(p) PROVE DeliverInv'
    BY <1>13 DEF StartDirectory
<1>14. ASSUME WalkUnchanged PROVE DeliverInv'
    BY <1>14 DEF WalkUnchanged, ReportIfAny
<1>15. ASSUME WalkChanged PROVE DeliverInv'
    <2>1. chunks \ {dir} \subseteq chunks'
        BY <1>15 DEF WalkChanged, DeletePaths, DeletePathsFails
    <2>2. \A p \in Project : hashes[p] = "absent" => hashes'[p] = "absent"
        BY <1>15 DEF WalkChanged, DeletePaths, DeletePathsFails, Without
    <2>3. stage = "walk" /\ stage' \in {"replaced", "embed"}
          /\ UNCHANGED <<rebuildMu, todo, dir, projects>>
        BY <1>15 DEF WalkChanged
    <2> QED
        BY <2>1, <2>2, <2>3
<1>16. ASSUME StoreChunks PROVE DeliverInv'
    BY <1>16 DEF StoreChunks, EnterHash
<1>17. ASSUME FinishDirectory PROVE DeliverInv'
    BY <1>17 DEF FinishDirectory, ReportIfAny
<1>18. ASSUME JobReturns PROVE DeliverInv'
    BY <1>18 DEF JobReturns
<1>19. ASSUME JobUnlocks PROVE DeliverInv'
    BY <1>19 DEF JobUnlocks, JobHolds, Unlock
<1>20. ASSUME StartupServes PROVE DeliverInv'
    BY <1>20 DEF StartupServes, Holds, Unlock
<1>21. ASSUME StartupFails PROVE DeliverInv'
    BY <1>21 DEF StartupFails, Holds, Unlock
<1>22. ASSUME RemoveProjectCommits PROVE DeliverInv'
    BY <1>22 DEF RemoveProjectCommits, Holds, Unlock, RestartWatcher, Shifted, MayFail
<1>23. ASSUME HandlerUnlocks PROVE DeliverInv'
    BY <1>23 DEF HandlerUnlocks, Unlock
<1>24. ASSUME CountProgress PROVE DeliverInv'
    BY <1>24 DEF CountProgress, Save
<1>25. ASSUME DeleteFails PROVE DeliverInv'
    BY <1>25 DEF DeleteFails, JobHolds, WatcherStop, MayFail, Abort
<1>26. ASSUME SaveHashesFails PROVE DeliverInv'
    BY <1>26 DEF SaveHashesFails, Failure, MayFail, Abort, ReportIfAny, ReportIndexingError
<1>27. ASSUME InitialIndexUnread PROVE DeliverInv'
    BY <1>27 DEF InitialIndexUnread, MayFail
<1>28. ASSUME IndexingFails PROVE DeliverInv'
    BY <1>28 DEF IndexingFails, Failure, MayFail, Abort, ReportIndexingError
<1>29. ASSUME InsertFails PROVE DeliverInv'
    BY <1>29 DEF InsertFails, Failure, MayFail, Abort, EnterHash, ReportIndexingError
<1>30. ASSUME SymbolSaveFails PROVE DeliverInv'
    BY <1>30 DEF SymbolSaveFails, JobHolds, MayFail, ReportIfAny, Abort
<1>31. ASSUME Crash PROVE DeliverInv'
    BY <1>31 DEF Crash, Halt, Unlock, Alive
<1>32. ASSUME NEW t \in Target, RequestRebuild(t) PROVE DeliverInv'
    <2>1. StartJob(t) /\ UNCHANGED <<daemonVars, workVars, indexVars, projects, stops>>
        BY <1>32 DEF RequestRebuild
    <2>2. /\ progress'.status = progress.status /\ statusSaved' = statusSaved
          /\ progressFile'.status \in {progressFile.status, progress.status}
        BY <2>1, StartJobStatus
    <2> QED
        BY <2>1, <2>2
<1>33. ASSUME NEW p \in Project, AddProject(p) PROVE DeliverInv'
    BY <1>33 DEF AddProject, RestartWatcher, Appended, MayFail
<1>34. ASSUME NEW p \in Project, AddProjectStartsJob(p) PROVE DeliverInv'
    <2>1. StartJob(p) /\ UNCHANGED <<daemonVars, workVars, indexVars, projects, stops>>
        BY <1>34 DEF AddProjectStartsJob
    <2>2. /\ progress'.status = progress.status /\ statusSaved' = statusSaved
          /\ progressFile'.status \in {progressFile.status, progress.status}
        BY <2>1, StartJobStatus DEF Target
    <2> QED
        BY <2>1, <2>2
<1>35. ASSUME NEW p \in Project, RemoveProjectDeletes(p) PROVE DeliverInv'
    BY <1>35 DEF RemoveProjectDeletes, Lock, DeleteChunks, Abort, MayFail
<1>36. ASSUME NEW p \in Project, ReindexFilesAllowed(p) PROVE DeliverInv'
    BY <1>36 DEF ReindexFilesAllowed
<1>37. ASSUME NEW p \in Project, ReindexFiles(p) PROVE DeliverInv'
    BY <1>37 DEF ReindexFiles, Lock, DeleteChunks, Abort, MayFail
<1>38. ASSUME QueryStatus PROVE DeliverInv'
    BY <1>38 DEF QueryStatus, Loaded
<1>39. ASSUME NEW p \in Project, Edit(p) PROVE DeliverInv'
    BY <1>39 DEF Edit, Aged
<1>40. ASSUME NEW p \in Project, CallbackLocks(p) PROVE DeliverInv'
    BY <1>40 DEF CallbackLocks, Lock
<1>41. ASSUME WatcherFlush PROVE DeliverInv'
    BY <1>41 DEF WatcherFlush
<1>42. ASSUME UNCHANGED vars PROVE DeliverInv'
    BY <1>42 DEF vars
<1> QED
    BY <1>1, <1>2, <1>3, <1>4, <1>5, <1>6, <1>7, <1>8, <1>9, <1>10, <1>11, <1>12, <1>13,
       <1>14, <1>15, <1>16, <1>17, <1>18, <1>19, <1>20, <1>21, <1>22, <1>23, <1>24, <1>25,
       <1>26, <1>27, <1>28, <1>29, <1>30, <1>31, <1>32, <1>33, <1>34, <1>35, <1>36, <1>37,
       <1>38, <1>39, <1>40, <1>41, <1>42
       DEF Next, Work, Fault, Request

-----------------------------------------------------------------------------
\* A fresh installation.
LEMMA InitHoldsToo == Init => CoverInv /\ BackedInv /\ DeliverInv
    BY NamesAreDistinct
       DEF Init, CoverInv, BackedInv, DeliverInv, ZeroState, ZeroProgress, Alive, Holds, Thread

\* The whole invariant of App, for any projects and bounds, through crashes, failures and
\* lost writes of progress.json.
THEOREM InvariantHolds == Spec => []IInv
<1>1. Init => TypeInv /\ JobInv /\ DownInv /\ CoverInv /\ BackedInv /\ DeliverInv
    BY InitHolds, InitHoldsToo
<1>2. TypeInv /\ JobInv /\ CoverInv /\ BackedInv /\ DownInv /\ DeliverInv => IInv
    BY DEF IInv, TypeInv, JobInv
<1> QED
    BY <1>1, <1>2, TypeStep, JobStep, DownStep, CoverStep, BackedStep, DeliverStep,
       PTL DEF Spec

\* The watcher covers every project but those config.yaml could not be written for
\* (restartWatcher, and the stop and start of RebuildIndex).
THEOREM WatcherCovers == Spec => []WatcherCoversProjects
<1>1. TypeInv /\ CoverInv /\ DownInv => WatcherCoversProjects
    BY NamesAreDistinct
       DEF TypeInv, TypeOK, CoverInv, DownInv, Alive, WatcherCoversProjects, Rebuilding, Thread
<1>2. IInv => CoverInv /\ DownInv
    BY DEF IInv
<1> QED
    BY <1>1, <1>2, InvariantHolds, TypeCorrect, PTL DEF TypeInv

\* A status that keeps searches waiting is one somebody will change, unless a process
\* ended early or the latest status could not be written (indexDirectory, and the errors of
\* its callers).
THEOREM RunningMeansIndexing == Spec => []RunningIsBacked
<1>1. IInv => RunningIsBacked
    BY DEF IInv, BackedInv, RunningIsBacked
<1> QED
    BY <1>1, InvariantHolds, PTL

\* A job that returns without error has put all it is for into the index (RebuildProject,
\* RebuildIndex).
THEOREM JobsDeliver == Spec => []JobDelivers
<1>1. IInv => JobDelivers
    BY DEF IInv, DeliverInv, JobDelivers, JobHolds
<1> QED
    BY <1>1, InvariantHolds, PTL

\* Every successful job for one project has put that project into the index, also one
\* resumed after a crash, and nothing that interleaves takes it away first.
THEOREM ProjectJobsDeliver == Spec => []ProjectJobDelivers
<1>1. IInv => ProjectJobDelivers
    BY DEF IInv, DeliverInv, ProjectJobDelivers, JobHolds
<1> QED
    BY <1>1, InvariantHolds, PTL
=============================================================================
