-------------------------------- MODULE App --------------------------------
(***************************************************************************)
(* The Gnostis daemon's index coordinator (internal/app): the start-up     *)
(* index, the background rebuild jobs, the tool handlers and the file      *)
(* watcher all change one persistent index.  They exclude each other with  *)
(* rebuildMu; jobMu guards the single job slot; progress.json tells a      *)
(* restarted daemon what the previous process left unfinished.             *)
(*                                                                         *)
(* A project stands for its directory with one indexable file: files are   *)
(* indexed independently of each other, so what happens to the index of    *)
(* a project is what happens to each of its files.                         *)
(***************************************************************************)
EXTENDS Naturals

CONSTANTS
    Project,        \* directories that may be configured as projects
    Configured,     \* the projects of the first config.yaml
    AllProjects,    \* what an "index-<time>" job id names
    Startup,        \* the goroutine of Run that builds the start-up index
    Handler,        \* whichever tool handler holds rebuildMu
    Callback,       \* the watcher's callback
    NoThread, NoJob, NoProject,
    MaxJobs,        \* job ids ever issued
    MaxStops,       \* crashes, shutdowns and failed start-ups
    MaxEdits,       \* edits of files
    MaxFailures,    \* failed embeddings, store operations, config and symbol writes
    MaxLostSaves    \* failed writes of progress.json

Target == Project \cup {AllProjects}

\* A job id is its prefix ("index" or "project:<name>") and the time of issue.
JobId == [target : Target, serial : 1..MaxJobs]

Thread == JobId \cup {Startup, Handler, Callback}

ASSUME NamesAreDistinct ==
    /\ Configured \subseteq Project
    /\ AllProjects \notin Project
    /\ NoProject \notin Project
    /\ Startup # Handler /\ Startup # Callback /\ Handler # Callback
    /\ Startup \notin JobId
    /\ Handler \notin JobId
    /\ Callback \notin JobId
    /\ NoThread \notin Thread
    /\ NoJob \notin JobId

ASSUME BoundsAreNaturals ==
    MaxJobs \in Nat /\ MaxStops \in Nat /\ MaxEdits \in Nat
    /\ MaxFailures \in Nat /\ MaxLostSaves \in Nat

VARIABLES
    daemon,         \* "down", "up", or "stopping" once Run's context is cancelled
    startup,        \* where the start-up goroutine is
    rebuildMu,      \* the thread that holds rebuildMu
    stage,          \* how far the holder of rebuildMu has come
    todo,           \* directories initialIndex has still to index
    dir,            \* the directory being indexed or removed
    snapshot,       \* whether what the walk read is still the file's content
    jobRunning, currentJobID,
    spawned,        \* jobs whose goroutine waits for rebuildMu
    progress,       \* progress.Progress: jobID, and the JobID and Status of its state
    progressFile,   \* JobID and Status in progress.json
    idSaved,        \* whether the id of the latest job got into progress.json as it began
    statusSaved,    \* whether the latest status reported is the one in progress.json
    chunks,         \* projects whose file has chunks in the store
    unwritten,      \* ... in memory only: the insert failed when it came to their files
    leftover,       \* projects with chunk files the store's memory does not know of, left
                    \* by a delete that failed: they come back when the store is opened
    hashes,         \* per project: the file's entry in the store's hash table, and whether
                    \* it is the present content's
    hashFile,       \* ... and its entry in the hash file
    projects,       \* a.projects and a.dirs
    config,         \* the directories of config.yaml
    adding,         \* add_project handlers between AddProject and StartRebuildProject
    reindexing,     \* the directory of a reindex_files handler between the check of the path
                    \* and the lock (one call at a time)
    watching,       \* directories the running watcher covers
    events,         \* changes the watcher still debounces
    inflight,       \* changes a flush has taken and reports one by one
    roots,          \* the directories the watcher was built for, and watches when it starts
    unsaved,        \* projects whose addition or removal could not be saved, and no watcher
                    \* has been built since
    serial, stops, edits, failures, lostSaves   \* how much of each bound is used up

daemonVars   == <<daemon, startup>>
workVars     == <<rebuildMu, stage, todo, dir, snapshot>>
jobVars      == <<jobRunning, currentJobID, spawned>>
progressVars == <<progress, progressFile, idSaved, statusSaved, lostSaves>>
chunkVars    == <<chunks, unwritten, leftover>>
indexVars    == <<chunkVars, hashes, hashFile>>
projectVars  == <<projects, config, adding, reindexing>>
watchVars    == <<watching, events, inflight, roots, unsaved>>
vars == <<daemonVars, workVars, jobVars, progressVars, indexVars, projectVars,
          watchVars, serial, stops, edits, failures>>

Status == {"unset", "idle", "running", "done", "error"}
ProgressState == [id : JobId \cup {NoJob}, job : JobId \cup {NoJob}, status : Status]
FileState == [job : JobId \cup {NoJob}, status : Status]
HashTable == [Project -> {"absent", "stale", "fresh"}]

Alive == daemon # "down"

\* a.watcherStarted: set when the start-up goroutine has started the watcher.
WatcherStarted == startup \in {"serving", "stopped"}

TypeOK ==
    /\ daemon \in {"down", "up", "stopping"}
    /\ startup \in {"off", "waiting", "indexing", "serving", "stopped", "failed"}
    /\ rebuildMu \in Thread \cup {NoThread}
    /\ stage \in {"idle", "rebuild", "cleared", "load", "next", "walk", "replaced", "embed",
                  "stored", "finish", "return", "abort", "unlock", "dropped", "commit"}
    /\ todo \subseteq Project
    /\ dir \in Project \cup {NoProject}
    /\ snapshot \in {"stale", "fresh"}
    /\ jobRunning \in BOOLEAN
    /\ currentJobID \in JobId \cup {NoJob}
    /\ spawned \subseteq JobId
    /\ progress \in ProgressState
    /\ progressFile \in FileState
    /\ idSaved \in BOOLEAN /\ statusSaved \in BOOLEAN
    /\ chunks \subseteq Project /\ unwritten \subseteq Project /\ leftover \subseteq Project
    /\ hashes \in HashTable /\ hashFile \in HashTable
    /\ projects \subseteq Project
    /\ config \subseteq Project
    /\ adding \subseteq Project /\ reindexing \in Project \cup {NoProject}
    /\ watching \subseteq Project
    /\ events \subseteq Project
    /\ inflight \subseteq Project
    /\ roots \subseteq Project /\ unsaved \subseteq Project
    /\ serial \in 0..MaxJobs
    /\ stops \in 0..MaxStops
    /\ edits \in 0..MaxEdits
    /\ failures \in 0..MaxFailures
    /\ lostSaves \in 0..MaxLostSaves

-----------------------------------------------------------------------------
(* progress.Progress.  Every setter saves the whole state (tmp + rename), and no caller
   looks at the error.                                                     *)

\* A new Progress; in the file, that there is none.
ZeroState == [job |-> NoJob, status |-> "unset"]
ZeroProgress == [id |-> NoJob, job |-> NoJob, status |-> "unset"]

\* A write that fails leaves the file as it was.
Save(s) ==
    /\ progress' = s
    /\ \/ progressFile' = [job |-> s.job, status |-> s.status] /\ UNCHANGED lostSaves
       \/ /\ lostSaves < MaxLostSaves /\ lostSaves' = lostSaves + 1
          /\ UNCHANGED progressFile

\* Load replaces the state in memory by the file's; a job id survives an
\* empty one in the file, and where there is no file, only as the id of later states.
Loaded ==
    IF progressFile = ZeroState
    THEN [id |-> progress.id, job |-> NoJob, status |-> "idle"]
    ELSE LET id == IF progressFile.job = NoJob THEN progress.id ELSE progressFile.job
         IN  [id |-> id, job |-> id, status |-> progressFile.status]

\* (Mutant: the new state is built without the job id.)
ReportWithoutJob(status) ==
    /\ Save([progress EXCEPT !.job = NoJob, !.status = status])
    /\ statusSaved' = (progressFile'.status = status)
    /\ UNCHANGED idSaved

\* Start builds a new state with the job id; Done and Fail change the status of the state.
Report(status) ==
    /\ Save([progress EXCEPT !.status = status,
                             !.job = IF status = "running" THEN progress.id ELSE @])
    /\ statusSaved' = (progressFile'.status = status)
    /\ UNCHANGED idSaved

\* reindex_files and the watcher's callback pass no Progress to indexDirectory.
Reports == rebuildMu \notin {Handler, Callback}
ReportIfAny(status) == IF Reports THEN Report(status) ELSE UNCHANGED progressVars

\* An error of indexDirectory: initialIndex reports it, RebuildProject leaves that to the
\* job's goroutine.
ReportIndexingError ==
    IF rebuildMu = Startup \/ (rebuildMu \in JobId /\ rebuildMu.target = AllProjects)
    THEN Report("error") ELSE UNCHANGED progressVars

\* SetJobID, of a state s already in memory.
SetJobID(id, s) ==
    /\ Save([s EXCEPT !.id = id, !.job = id])
    /\ idSaved' = (progressFile'.job = id)
    /\ UNCHANGED statusSaved

-----------------------------------------------------------------------------
(* The job slot and the watcher.                                           *)

\* (Mutant: the slot is taken without a look at jobRunning.)
StartJobWithIDUnguarded(id, s) ==
    /\ jobRunning' = TRUE
    /\ currentJobID' = id
    /\ spawned' = spawned \cup {id}
    /\ SetJobID(id, s)

\* startJobWithID with a state s already in memory: either a job runs and the
\* caller gets its id, or the slot is taken, SetJobID saves the id and a
\* goroutine is spawned.
StartJobWithID(id, s) ==
    \/ /\ jobRunning
       /\ progress' = s
       /\ UNCHANGED <<jobVars, progressFile, idSaved, statusSaved, lostSaves>>
    \/ /\ ~jobRunning
       /\ jobRunning' = TRUE
       /\ currentJobID' = id
       /\ spawned' = spawned \cup {id}
       /\ SetJobID(id, s)

\* (Mutant: the time of issue does not advance.)
StartJobReusesSerial(target) ==
    /\ serial < MaxJobs
    /\ serial' = IF jobRunning THEN serial ELSE serial + 1
    /\ StartJobWithID([target |-> target, serial |-> serial], progress)

\* startJob: a fresh id, wasted when a job is running.
StartJob(target) ==
    /\ serial < MaxJobs
    /\ serial' = IF jobRunning THEN serial ELSE serial + 1
    /\ StartJobWithID([target |-> target, serial |-> serial + 1], progress)

\* Stop cancels the debounced changes; those a flush has taken go on.
WatcherStop == watching' = {} /\ events' = {} /\ UNCHANGED <<inflight, roots, unsaved>>

\* (Mutant: the watcher is built before the list changes.)
RestartWatcherEarly ==
    /\ roots' = projects
    /\ watching' = IF WatcherStarted THEN roots' ELSE {}
    /\ events' = {} /\ unsaved' = {}
    /\ UNCHANGED inflight

\* restartWatcher, with the project list as it now is.
RestartWatcher ==
    /\ roots' = projects'
    /\ watching' = IF WatcherStarted THEN roots' ELSE {}
    /\ events' = {} /\ unsaved' = {}
    /\ UNCHANGED inflight

Lock(t) == rebuildMu = NoThread /\ rebuildMu' = t
Unlock == rebuildMu' = NoThread /\ stage' = "idle"
              /\ todo' = {} /\ dir' = NoProject /\ snapshot' = "fresh"

MayFail == failures < MaxFailures /\ failures' = failures + 1
Holds(t, s) == rebuildMu = t /\ stage = s
JobHolds(s) == rebuildMu \in JobId /\ stage = s

\* The thread gives up what it does with the index.
Abort == stage' = "abort" /\ todo' = {} /\ dir' = NoProject /\ snapshot' = "fresh"

\* What goes wrong under rebuildMu counts as a failure; in the start-up index it stops the
\* daemon, and the cancelled context of one that is stopping is a reason, too.
Failure ==
    IF rebuildMu = Startup
    THEN /\ \/ daemon = "stopping" /\ UNCHANGED stops
            \/ daemon = "up" /\ stops < MaxStops /\ stops' = stops + 1
         /\ UNCHANGED failures
    ELSE MayFail /\ UNCHANGED stops

-----------------------------------------------------------------------------
(* The store: chunks in memory and in a file each, the hash table in memory and in one
   file that is written after the chunks (SaveHashes below).               *)

Tracked(P) == {p \in P : hashes[p] # "absent"}
Without(table, P) == [p \in Project |-> IF p \in P THEN "absent" ELSE table[p]]

\* (Mutant: DeleteByPaths keeps the hash entries.)
DeletePathsKeepsHashes(P) ==
    /\ chunks' = chunks \ P /\ unwritten' = unwritten \ P
    /\ UNCHANGED <<leftover, hashes, hashFile>>

\* DeleteByPaths up to the save: a path's documents leave the memory with their files.
DeletePaths(P) ==
    /\ chunks' = chunks \ P /\ unwritten' = unwritten \ P
    /\ hashes' = Without(hashes, P)
    /\ UNCHANGED <<leftover, hashFile>>

\* DeleteByPaths stops at path q: its documents may have left the memory, their files stay.
DeletePathsFails(P) ==
    \E q \in P \cap chunks : \E D \in SUBSET (P \ {q}) : \E gone \in {{}, {q}} :
        /\ chunks' = chunks \ (D \cup gone) /\ unwritten' = unwritten \ (D \cup gone)
        /\ leftover' = leftover \cup (gone \ unwritten)
        /\ hashes' = Without(hashes, D)
        /\ UNCHANGED hashFile

\* deleteChunksByPrefix finds its paths in the hash table, and writes nothing when there
\* are none: the thread goes on at once then.
DeleteChunks(P, unsavedStage, savedStage) ==
    /\ DeletePaths(Tracked(P))
    /\ stage' = IF Tracked(P) = {} THEN savedStage ELSE unsavedStage

-----------------------------------------------------------------------------
(* The process: start, shutdown, exit, crash.                              *)

Init ==
    /\ daemon = "down" /\ startup = "off"
    /\ rebuildMu = NoThread /\ stage = "idle"
    /\ todo = {} /\ dir = NoProject /\ snapshot = "fresh"
    /\ jobRunning = FALSE /\ currentJobID = NoJob /\ spawned = {}
    /\ progress = ZeroProgress /\ progressFile = ZeroState
    /\ idSaved = TRUE /\ statusSaved = TRUE /\ lostSaves = 0
    /\ chunks = {} /\ unwritten = {} /\ leftover = {}
    /\ hashes = [p \in Project |-> "absent"] /\ hashFile = [p \in Project |-> "absent"]
    /\ projects = Configured /\ config = Configured /\ adding = {} /\ reindexing = NoProject
    /\ watching = {} /\ events = {} /\ inflight = {}
    /\ roots = {} /\ unsaved = {}
    /\ serial = 0 /\ stops = 0 /\ edits = 0 /\ failures = 0

\* New and Run: the HTTP server answers before the start-up goroutine has
\* taken rebuildMu.
Boot ==
    /\ daemon = "down"
    /\ daemon' = "up" /\ startup' = "waiting"
    /\ projects' = config /\ roots' = config
    /\ UNCHANGED <<workVars, jobVars, progressVars, indexVars, config, adding, reindexing,
                   watching, events, inflight, unsaved, serial, stops, edits, failures>>

\* SIGTERM, or the end of the HTTP server: Run's context is cancelled.
Shutdown ==
    /\ daemon = "up" /\ stops < MaxStops
    /\ daemon' = "stopping" /\ stops' = stops + 1
    /\ UNCHANGED <<startup, workVars, jobVars, progressVars, indexVars,
                   projectVars, watchVars, serial, edits, failures>>

\* The start-up goroutine sees the cancelled context and stops the watcher.
StartupStops ==
    /\ daemon = "stopping" /\ startup = "serving"
    /\ startup' = "stopped"
    /\ WatcherStop
    /\ UNCHANGED <<daemon, workVars, jobVars, progressVars, indexVars,
                   projectVars, serial, stops, edits, failures>>

\* What the end of the process leaves: the files.
Halt ==
    /\ daemon' = "down" /\ startup' = "off"
    /\ Unlock
    /\ jobRunning' = FALSE /\ currentJobID' = NoJob /\ spawned' = {}
    /\ progress' = ZeroProgress /\ idSaved' = TRUE /\ statusSaved' = TRUE
    /\ chunks' = (chunks \ unwritten) \cup leftover
    /\ unwritten' = {} /\ leftover' = {}
    /\ hashes' = hashFile
    /\ adding' = {} /\ reindexing' = NoProject
    /\ watching' = {} /\ events' = {} /\ inflight' = {}
    /\ roots' = {} /\ unsaved' = {}
    /\ UNCHANGED <<progressFile, lostSaves, hashFile, projects, config, serial, edits, failures>>

\* Run waits for its own goroutines and not for a job: a job that is running
\* dies with the process.
Exit ==
    /\ daemon = "stopping" /\ startup \in {"stopped", "failed"}
    /\ Halt
    /\ UNCHANGED stops

Crash ==
    /\ Alive /\ stops < MaxStops
    /\ stops' = stops + 1
    /\ Halt

-----------------------------------------------------------------------------
(* Taking rebuildMu, and initialIndex.                                     *)

StartupLocks ==
    /\ startup = "waiting" /\ Lock(Startup)
    /\ startup' = "indexing" /\ stage' = "load"
    /\ UNCHANGED <<daemon, todo, dir, snapshot, jobVars, progressVars, indexVars,
                   projectVars, watchVars, serial, stops, edits, failures>>

JobLocks(j) ==
    /\ j \in spawned /\ Lock(j)
    /\ spawned' = spawned \ {j}
    /\ stage' = "rebuild"
    /\ UNCHANGED <<daemonVars, todo, dir, snapshot, jobRunning, currentJobID,
                   progressVars, indexVars, projectVars, watchVars,
                   serial, stops, edits, failures>>

\* (Mutant: the job trusts the project list of the time it was asked for.)
RebuildProjectUnchecked ==
    /\ JobHolds("rebuild") /\ rebuildMu.target \in Project
    /\ DeleteChunks({rebuildMu.target}, "cleared", "next")
    /\ todo' = {rebuildMu.target}
    /\ UNCHANGED <<daemonVars, rebuildMu, dir, snapshot, jobVars, progressVars,
                   projectVars, watchVars, serial, stops, edits, failures>>

\* RebuildProject, first half: delete the project's chunks.
RebuildProject ==
    /\ JobHolds("rebuild") /\ rebuildMu.target \in projects
    /\ DeleteChunks({rebuildMu.target}, "cleared", "next")
    /\ todo' = {rebuildMu.target}
    /\ UNCHANGED <<daemonVars, rebuildMu, dir, snapshot, jobVars, progressVars,
                   projectVars, watchVars, serial, stops, edits, failures>>

\* (Mutant: the error is swallowed.)
ProjectNotFoundIgnored ==
    /\ JobHolds("rebuild")
    /\ rebuildMu.target # AllProjects /\ rebuildMu.target \notin projects
    /\ stage' = "return"
    /\ UNCHANGED <<daemonVars, rebuildMu, todo, dir, snapshot, jobVars, progressVars,
                   indexVars, projectVars, watchVars, serial, stops, edits, failures>>

\* RebuildProject of a project that is no longer configured.
ProjectNotFound ==
    /\ JobHolds("rebuild")
    /\ rebuildMu.target # AllProjects /\ rebuildMu.target \notin projects
    /\ Abort
    /\ UNCHANGED <<daemonVars, rebuildMu, jobVars, progressVars,
                   indexVars, projectVars, watchVars, serial, stops, edits, failures>>

\* RebuildIndex up to initialIndex: stop the watcher, delete all chunks.
RebuildIndex ==
    /\ JobHolds("rebuild") /\ rebuildMu.target = AllProjects
    /\ IF WatcherStarted THEN WatcherStop ELSE UNCHANGED watchVars
    /\ DeleteChunks(Project, "cleared", "load")
    /\ UNCHANGED <<daemonVars, rebuildMu, todo, dir, snapshot, jobVars,
                   progressVars, projectVars, serial, stops, edits, failures>>

\* The store refuses the delete of either rebuild.
DeleteFails ==
    /\ JobHolds("rebuild") /\ rebuildMu.target \in projects \cup {AllProjects}
    /\ IF rebuildMu.target = AllProjects
       THEN DeletePathsFails(Tracked(Project)) ELSE DeletePathsFails(Tracked({rebuildMu.target}))
    /\ IF rebuildMu.target = AllProjects /\ WatcherStarted
       THEN WatcherStop ELSE UNCHANGED watchVars
    /\ MayFail
    /\ Report("error")
    /\ Abort
    /\ UNCHANGED <<daemonVars, rebuildMu, jobVars,
                   projectVars, serial, stops, edits>>

\* Where a thread goes on once the hash file is written.
AfterSave ==
    CASE stage = "cleared" -> (IF rebuildMu = Handler THEN "walk"
                               ELSE IF rebuildMu.target = AllProjects THEN "load" ELSE "next")
      [] stage = "dropped" -> "commit"
      [] stage = "replaced" -> "embed"
      [] stage = "stored" -> "finish"

\* saveHashes, at the end of DeleteByPaths and of AddChunks.  The watcher's callback
\* reads the file after that, the walk has read it before.
SaveHashes ==
    /\ stage \in {"cleared", "dropped", "replaced", "stored"}
    /\ hashFile' = hashes
    /\ snapshot' = IF rebuildMu = Callback THEN "fresh" ELSE snapshot
    /\ stage' = AfterSave
    /\ UNCHANGED <<daemonVars, rebuildMu, todo, dir, jobVars, progressVars, chunkVars, hashes,
                   projectVars, watchVars, serial, stops, edits, failures>>

\* The hash file cannot be written.  After the delete of a file's old chunks this is only
\* logged; a job reports it.
SaveHashesFails ==
    /\ \/ /\ stage = "replaced"
          /\ MayFail
          /\ stage' = "embed"
          /\ snapshot' = IF rebuildMu = Callback THEN "fresh" ELSE snapshot
          /\ UNCHANGED <<todo, dir, progressVars, stops>>
       \/ /\ stage \in {"cleared", "dropped"}
          /\ MayFail
          /\ Abort
          /\ ReportIfAny("error")
          /\ UNCHANGED stops
       \/ /\ stage = "stored"
          /\ Failure
          /\ Abort
          /\ ReportIndexingError
    /\ UNCHANGED <<daemonVars, rebuildMu, jobVars, indexVars,
                   projectVars, watchVars, serial, edits>>

\* initialIndex when no rebuild was interrupted.
InitialIndex ==
    /\ stage = "load" /\ Loaded.status # "running"
    /\ progress' = Loaded
    /\ todo' = projects
    /\ stage' = IF projects = {} THEN "return" ELSE "next"
    /\ UNCHANGED <<daemonVars, rebuildMu, dir, snapshot, jobVars, progressFile, idSaved,
                   statusSaved, lostSaves, indexVars, projectVars, watchVars,
                   serial, stops, edits, failures>>

\* initialIndex when progress.json cannot be read, which is logged.
InitialIndexUnread ==
    /\ stage = "load" /\ progressFile # ZeroState
    /\ MayFail
    /\ todo' = projects
    /\ stage' = IF projects = {} THEN "return" ELSE "next"
    /\ UNCHANGED <<daemonVars, rebuildMu, dir, snapshot, jobVars, progressVars,
                   indexVars, projectVars, watchVars, serial, stops, edits>>

\* resumeInterruptedJob: restart the job the file names, or mark a run without
\* a job id as failed; either way initialIndex returns and indexes nothing.
ResumeInterruptedJob ==
    /\ stage = "load" /\ Loaded.status = "running"
    /\ \/ /\ Loaded.job \in JobId
          /\ StartJobWithID(Loaded.job, Loaded)
       \/ /\ Loaded.job = NoJob
          /\ Save([Loaded EXCEPT !.status = "error"])
          /\ statusSaved' = (progressFile'.status = "error")
          /\ UNCHANGED <<jobVars, idSaved>>
    /\ stage' = "return"
    /\ UNCHANGED <<daemonVars, rebuildMu, todo, dir, snapshot, indexVars,
                   projectVars, watchVars, serial, stops, edits, failures>>

-----------------------------------------------------------------------------
(* indexDirectory, by whoever holds rebuildMu.                             *)

StartDirectory(p) ==
    /\ stage = "next" /\ p \in todo
    /\ dir' = p /\ todo' = todo \ {p}
    /\ Report("running")
    /\ stage' = "walk"
    /\ UNCHANGED <<daemonVars, rebuildMu, snapshot, jobVars, indexVars,
                   projectVars, watchVars, serial, stops, edits, failures>>

\* The walk finds the file's hash in the table: nothing to embed.  indexDirectory
\* reports its start again once it knows the number of files.
WalkUnchanged ==
    /\ stage = "walk" /\ rebuildMu # Callback /\ hashes[dir] = "fresh"
    /\ ReportIfAny("running")
    /\ stage' = "finish"
    /\ UNCHANGED <<daemonVars, rebuildMu, todo, dir, snapshot, jobVars,
                   indexVars, projectVars, watchVars, serial, stops, edits, failures>>

\* The walk reads the file, chunks it and deletes its old chunks.  A delete that fails
\* half-way is only logged.  The watcher's callback looks at no hash.
WalkChanged ==
    /\ stage = "walk" /\ (rebuildMu = Callback \/ hashes[dir] # "fresh")
    /\ ReportIfAny("running")
    /\ \/ /\ DeletePaths({dir})
          /\ stage' = "replaced"
          /\ UNCHANGED failures
       \/ /\ DeletePathsFails({dir})
          /\ stage' = "embed"
          /\ MayFail
    /\ snapshot' = "fresh"
    /\ UNCHANGED <<daemonVars, rebuildMu, todo, dir, jobVars,
                   projectVars, watchVars, serial, stops, edits>>

\* SetPhase, SetTotalChunks, AddFiles and AddChunks save the state with new numbers.
CountProgress ==
    /\ stage \in {"walk", "replaced", "embed"} /\ Reports
    /\ Save(progress)
    /\ UNCHANGED <<daemonVars, workVars, jobVars, idSaved, statusSaved, indexVars, projectVars,
                   watchVars, serial, stops, edits, failures>>

\* AddChunks enters the hash of what the walk read before it inserts the chunks; those of
\* the watcher's callback carry none.
EnterHash ==
    hashes' = IF rebuildMu = Callback THEN hashes ELSE [hashes EXCEPT ![dir] = snapshot]

\* embedChunks succeeds and AddChunks inserts the chunks.  Those of the same content have
\* the same files.
StoreChunks ==
    /\ stage = "embed"
    /\ EnterHash
    /\ chunks' = chunks \cup {dir} /\ unwritten' = unwritten \ {dir}
    /\ leftover' \in {leftover, leftover \ {dir}}
    /\ snapshot' = "fresh"
    /\ stage' = "stored"
    /\ UNCHANGED <<daemonVars, rebuildMu, todo, dir, jobVars, progressVars, hashFile,
                   projectVars, watchVars, serial, stops, edits, failures>>

\* The insert fails, before the chunks are in the store's memory or when it writes their files.
InsertFails ==
    /\ stage = "embed"
    /\ Failure
    /\ EnterHash
    /\ \/ UNCHANGED chunkVars
       \/ /\ chunks' = chunks \cup {dir}
          /\ unwritten' = IF dir \in chunks THEN unwritten ELSE unwritten \cup {dir}
          /\ UNCHANGED leftover
    /\ ReportIndexingError
    /\ Abort
    /\ UNCHANGED <<daemonVars, rebuildMu, jobVars, hashFile,
                   projectVars, watchVars, serial, edits>>

FinishDirectory ==
    /\ stage = "finish"
    /\ ReportIfAny("done")
    /\ stage' = IF todo = {} THEN "return" ELSE "next"
    /\ dir' = NoProject
    /\ UNCHANGED <<daemonVars, rebuildMu, todo, snapshot, jobVars, indexVars,
                   projectVars, watchVars, serial, stops, edits, failures>>

\* The walk or the embedding fails.
IndexingFails ==
    /\ stage = "embed" \/ (stage = "walk" /\ rebuildMu # Callback)
    /\ Failure
    /\ ReportIndexingError
    /\ Abort
    /\ UNCHANGED <<daemonVars, rebuildMu, jobVars, indexVars,
                   projectVars, watchVars, serial, edits>>

\* symbolIndex.Save at the end of a project's rebuild, of reindex_files, or between
\* the two halves of RemoveProject.  (initialIndex only logs such a failure.)
SymbolSaveFails ==
    /\ \/ JobHolds("return") /\ rebuildMu.target \in Project
       \/ rebuildMu = Handler /\ stage \in {"return", "commit"}
    /\ MayFail
    /\ ReportIfAny("error")
    /\ Abort
    /\ UNCHANGED <<daemonVars, rebuildMu, jobVars, indexVars,
                   projectVars, watchVars, serial, stops, edits>>

-----------------------------------------------------------------------------
(* Releasing rebuildMu.                                                    *)

\* (Mutant: the job's error is logged and not reported.)
JobReturnsUnreported ==
    /\ rebuildMu \in JobId /\ stage \in {"return", "abort"}
    /\ IF rebuildMu.target = AllProjects /\ WatcherStarted
       THEN watching' = roots /\ events' = {} /\ UNCHANGED <<inflight, roots, unsaved>>
       ELSE UNCHANGED watchVars
    /\ jobRunning' = FALSE
    /\ stage' = "unlock"
    /\ UNCHANGED <<daemonVars, rebuildMu, todo, dir, snapshot, currentJobID, spawned,
                   progressVars, indexVars, projectVars, serial, stops, edits, failures>>

\* A job's function returns: RebuildIndex's defer starts the watcher it stopped; the
\* goroutine reports an error, and its defers give up the job slot, then rebuildMu.
JobReturns ==
    /\ rebuildMu \in JobId /\ stage \in {"return", "abort"}
    /\ IF rebuildMu.target = AllProjects /\ WatcherStarted
       THEN watching' = roots /\ events' = {} /\ UNCHANGED <<inflight, roots, unsaved>>
       ELSE UNCHANGED watchVars
    /\ IF stage = "abort" THEN Report("error") ELSE UNCHANGED progressVars
    /\ jobRunning' = FALSE
    /\ stage' = "unlock"
    /\ UNCHANGED <<daemonVars, rebuildMu, todo, dir, snapshot, currentJobID, spawned,
                   indexVars, projectVars, serial, stops, edits, failures>>

\* (Mutant: no deferred Unlock.)
JobKeepsLock ==
    /\ JobHolds("unlock") /\ stage' = "idle"
    /\ UNCHANGED <<rebuildMu, todo, dir, snapshot, daemonVars, jobVars, progressVars,
                   indexVars, projectVars, watchVars, serial, stops, edits, failures>>

JobUnlocks ==
    /\ JobHolds("unlock") /\ Unlock
    /\ UNCHANGED <<daemonVars, jobVars, progressVars, indexVars, projectVars,
                   watchVars, serial, stops, edits, failures>>

\* The start-up goroutine starts the watcher and serves.
StartupServes ==
    /\ Holds(Startup, "return") /\ Unlock
    /\ startup' = "serving"
    /\ watching' = roots /\ events' = {}
    /\ UNCHANGED <<daemon, jobVars, progressVars, indexVars, projectVars,
                   inflight, roots, unsaved, serial, stops, edits, failures>>

\* An error of the start-up index cancels Run's context.
StartupFails ==
    /\ Holds(Startup, "abort") /\ Unlock
    /\ startup' = "failed" /\ daemon' = "stopping"
    /\ UNCHANGED <<jobVars, progressVars, indexVars, projectVars, watchVars,
                   serial, stops, edits, failures>>

\* (Mutant: an early return with rebuildMu held.)
HandlerKeepsLock ==
    /\ Holds(Handler, "return") /\ Unlock
    /\ UNCHANGED <<daemonVars, jobVars, progressVars, indexVars, projectVars,
                   watchVars, serial, stops, edits, failures>>

\* The watcher's callback only logs an error.
HandlerUnlocks ==
    /\ rebuildMu \in {Handler, Callback} /\ stage \in {"return", "abort"} /\ Unlock
    /\ UNCHANGED <<daemonVars, jobVars, progressVars, indexVars, projectVars,
                   watchVars, serial, stops, edits, failures>>

-----------------------------------------------------------------------------
(* The tool handlers.                                                      *)

\* rebuild_project and rebuild_index.
RequestRebuild(target) ==
    /\ Alive
    /\ StartJob(target)
    /\ UNCHANGED <<daemonVars, workVars, indexVars, projectVars, watchVars,
                   stops, edits, failures>>

\* The watcher's list is a slice of the array of a.dirs.  Where a removal that was not
\* saved has left it longer than a.dirs, an append writes into it: p gets in, in the place of
\* a directory that is listed twice or of one that has been removed.
Appended(p) ==
    {roots} \cup IF unsaved \subseteq projects THEN {}
                 ELSE {roots \cup {p}} \cup {(roots \ {q}) \cup {p} : q \in roots \ projects}

\* A removal moves the later elements down: unless it was the last of the list, or the
\* array another one, the watcher's list loses the removed directory, and may get one an
\* unsaved addition has put behind it.
Shifted == {roots, roots \ {dir}} \cup
    {(roots \ {dir}) \cup {q} : q \in (unsaved \cap projects) \ {dir}}

\* AddProject.  When config.yaml cannot be written the project stays in
\* memory, and neither the watcher nor a rebuild learns of it; the next tool that
\* writes the file writes it, too.
AddProject(p) ==
    /\ Alive /\ rebuildMu = NoThread /\ p \notin projects
    /\ projects' = projects \cup {p}
    /\ \/ /\ config' = projects'
          /\ RestartWatcher
          /\ adding' = adding \cup {p}
          /\ UNCHANGED failures
       \/ /\ MayFail
          /\ unsaved' = unsaved \cup {p}
          /\ roots' \in Appended(p)
          /\ UNCHANGED <<config, adding, watching, events, inflight>>
    /\ UNCHANGED <<daemonVars, workVars, jobVars, progressVars, indexVars, reindexing,
                   serial, stops, edits>>

\* The add_project tool goes on with StartRebuildProject.
AddProjectStartsJob(p) ==
    /\ p \in adding /\ adding' = adding \ {p}
    /\ StartJob(p)
    /\ UNCHANGED <<daemonVars, workVars, indexVars, projects, config, reindexing, watchVars,
                   stops, edits, failures>>

\* RemoveProject deletes the chunks, then changes the lists and config.yaml.
RemoveProjectDeletes(p) ==
    /\ Alive /\ p \in projects /\ Lock(Handler)
    /\ \/ /\ DeleteChunks({p}, "dropped", "commit")
          /\ dir' = p
          /\ UNCHANGED <<todo, snapshot, failures>>
       \/ /\ DeletePathsFails(Tracked({p}))
          /\ MayFail
          /\ Abort
    /\ UNCHANGED <<daemonVars, jobVars, progressVars, projectVars,
                   watchVars, serial, stops, edits>>

RemoveProjectCommits ==
    /\ Holds(Handler, "commit") /\ Unlock
    /\ projects' = projects \ {dir}
    /\ \/ /\ config' = projects'
          /\ RestartWatcher
          /\ UNCHANGED failures
       \/ /\ MayFail
          /\ unsaved' = unsaved \cup {dir}
          /\ roots' \in Shifted
          /\ UNCHANGED <<config, watching, events, inflight>>
    /\ UNCHANGED <<daemonVars, jobVars, progressVars, indexVars, adding, reindexing,
                   serial, stops, edits>>

\* reindex_files looks for the path in the server's list, which a change that could not be
\* saved did not reach.
ReindexFilesAllowed(p) ==
    /\ Alive /\ p \in projects \cup unsaved /\ reindexing = NoProject
    /\ reindexing' = p
    /\ UNCHANGED <<daemonVars, workVars, jobVars, progressVars, indexVars, projects, config,
                   adding, watchVars, serial, stops, edits, failures>>

\* Then, for a directory, rebuildDirectory, which asks for no project.
ReindexFiles(p) ==
    /\ p = reindexing /\ Lock(Handler)
    /\ reindexing' = NoProject
    /\ \/ /\ DeleteChunks({p}, "cleared", "walk")
          /\ dir' = p
          /\ UNCHANGED <<todo, snapshot, failures>>
       \/ /\ DeletePathsFails(Tracked({p}))
          /\ MayFail
          /\ Abort
    /\ UNCHANGED <<daemonVars, jobVars, progressVars, projects, config,
                   adding, watchVars, serial, stops, edits>>

\* get_index_status, get_index_job and the readiness test of a search read the
\* progress through Load, which overwrites the state in memory.
QueryStatus ==
    /\ Alive
    /\ progress' = Loaded
    /\ UNCHANGED <<daemonVars, workVars, jobVars, progressFile, idSaved, statusSaved, lostSaves,
                   indexVars, projectVars, watchVars, serial, stops, edits, failures>>

-----------------------------------------------------------------------------
(* Files change, and the watcher reports it.                               *)

Aged(table, p) == [table EXCEPT ![p] = IF @ = "absent" THEN @ ELSE "stale"]

\* The daemon need not run when a file is edited.
Edit(p) ==
    /\ edits < MaxEdits /\ edits' = edits + 1
    /\ hashes' = Aged(hashes, p) /\ hashFile' = Aged(hashFile, p)
    /\ snapshot' = IF stage \in {"replaced", "embed"} /\ dir = p THEN "stale" ELSE snapshot
    /\ events' = IF p \in watching THEN events \cup {p} ELSE events
    /\ UNCHANGED <<daemonVars, rebuildMu, stage, todo, dir, jobVars, progressVars,
                   chunkVars, projectVars, watching, inflight, roots, unsaved,
                   serial, stops, failures>>

\* The debounce timer fires.
WatcherFlush ==
    /\ events # {}
    /\ inflight' = inflight \cup events /\ events' = {}
    /\ UNCHANGED <<daemonVars, workVars, jobVars, progressVars, indexVars,
                   projectVars, watching, roots, unsaved, serial, stops, edits, failures>>

\* The watcher's callback: reindexFile under rebuildMu, which goes through the steps of
\* indexDirectory from "walk" on.  A path outside every configured directory is indexed
\* under a made-up project.
CallbackLocks(p) ==
    /\ p \in inflight /\ Lock(Callback)
    /\ inflight' = inflight \ {p}
    /\ dir' = p /\ stage' = "walk"
    /\ UNCHANGED <<daemonVars, todo, snapshot, jobVars, progressVars, indexVars, projectVars,
                   watching, events, roots, unsaved, serial, stops, edits, failures>>

-----------------------------------------------------------------------------

\* What the holder of rebuildMu does next.
Work ==
    \/ RebuildProject \/ ProjectNotFound \/ RebuildIndex
    \/ SaveHashes \/ InitialIndex \/ ResumeInterruptedJob
    \/ \E p \in Project : StartDirectory(p)
    \/ WalkUnchanged \/ WalkChanged \/ StoreChunks \/ FinishDirectory
    \/ JobReturns \/ JobUnlocks \/ StartupServes \/ StartupFails
    \/ RemoveProjectCommits \/ HandlerUnlocks

Fault ==
    \/ DeleteFails \/ SaveHashesFails \/ InitialIndexUnread
    \/ IndexingFails \/ InsertFails \/ SymbolSaveFails
    \/ Crash

Request ==
    \/ \E target \in Target : RequestRebuild(target)
    \/ \E p \in Project : AddProject(p) \/ AddProjectStartsJob(p)
    \/ \E p \in Project : RemoveProjectDeletes(p) \/ ReindexFilesAllowed(p) \/ ReindexFiles(p)
    \/ QueryStatus

Next ==
    \/ Boot \/ Shutdown \/ StartupStops \/ Exit
    \/ StartupLocks \/ \E j \in JobId : JobLocks(j)
    \/ Work \/ CountProgress \/ Fault \/ Request
    \/ \E p \in Project : Edit(p) \/ CallbackLocks(p)
    \/ WatcherFlush

Spec == Init /\ [][Next]_vars

\* Goroutines that can run do run, and sync.RWMutex hands the lock to waiters in
\* the order they came.
Fairness ==
    /\ WF_vars(Boot) /\ WF_vars(StartupStops) /\ WF_vars(Exit)
    /\ WF_vars(Work)
    /\ SF_vars(StartupLocks)
    /\ \A j \in JobId : SF_vars(JobLocks(j))

FairSpec == Spec /\ Fairness

-----------------------------------------------------------------------------
(* Properties.                                                             *)

\* Jobs whose goroutine waits for rebuildMu or holds it with its work undone.
ActiveJobs == spawned \cup (IF rebuildMu \in JobId /\ stage # "unlock"
                            THEN {rebuildMu} ELSE {})

\* Whoever has reported that it runs and not yet how it ended.
Indexing ==
    /\ \/ stage \in {"walk", "replaced", "embed", "stored", "finish"}
       \/ JobHolds("abort")
    /\ Reports

\* There is one job slot: at any time at most the job that jobRunning and
\* currentJobID announce is waiting or at work (startJobWithID, and the order
\* in which a job's goroutine gives up the slot and the lock).
OneActiveJob == ActiveJobs = IF jobRunning THEN {currentJobID} ELSE {}

\* As long as a job is running whose id could be written to progress.json when it began,
\* the progress in memory and in the file carries that id: get_index_job finds the job, and
\* a restart the right one, whatever status queries, start-up index and other work came
\* between and whatever later writes were lost.
RunningJobIsReported ==
    jobRunning /\ idSaved => /\ progress.id = currentJobID
                             /\ progress.job = currentJobID
                             /\ progressFile.job = currentJobID

\* Searches answer "index is still being built" while the status is running.  Then the
\* holder of rebuildMu is really indexing, or about to report that it failed - as long as
\* no process ended early and the latest status reported got into progress.json.
RunningIsBacked ==
    Alive /\ stops = 0 /\ statusSaved /\ progressFile.status = "running" => Indexing

Covered(j) == IF j.target = AllProjects THEN projects ELSE {j.target}

\* A job that returns without error has indexed every project it is for, whatever store
\* operations failed before it (RebuildProject, RebuildIndex) - as long as no process ended
\* early and the latest status reported got into progress.json: a full rebuild that finds
\* the status running takes itself for an interrupted one and indexes nothing.
JobDelivers ==
    stops = 0 /\ statusSaved /\ JobHolds("return") => Covered(rebuildMu) \subseteq chunks

\* The same of the jobs for one project without conditions: it also holds of those a
\* restart resumes.
ProjectJobDelivers ==
    JobHolds("return") /\ rebuildMu.target # AllProjects => rebuildMu.target \in chunks

\* When no one holds rebuildMu, the running watcher covers every project there is, but
\* for those config.yaml could not be written for (restartWatcher after each change of
\* the lists, and the stop and start around a full rebuild, which goes by the watcher's
\* own list).
WatcherCoversProjects ==
    startup = "serving" /\ rebuildMu = NoThread => projects \ unsaved \subseteq watching

\* Once a removed project's chunks are gone, no job, resumed job or start-up index brings
\* them back: only a change the watcher had already taken, a reindex_files call accepted
\* before the removal, or the end of a process in which a delete had failed half-way does.
RemovedStaysRemoved ==
    [][\A p \in Project :
        p \notin projects /\ p \notin chunks /\ p \in chunks'
            => (rebuildMu \in {Handler, Callback} /\ dir = p) \/ p \in leftover]_vars

\* The job machinery keeps the promises of JobSlot, through crashes, resumed jobs and lost
\* writes of progress.json (startJob, startJobWithID, resumeInterruptedJob).
Slot == INSTANCE JobSlot WITH
    slot <- IF jobRunning THEN currentJobID ELSE NoJob,
    latest <- currentJobID,
    published <- progressFile.job,
    clock <- serial
ImplementsJobSlot == Slot!Spec

\* Every job comes to an end, unless the process does.
JobsEnd == \A j \in JobId : (j \in ActiveJobs) ~> (j \notin ActiveJobs)

\* The start-up goroutine gets rebuildMu and comes to serve or fail.
StartupEnds == (startup = "waiting") ~> (startup # "waiting" /\ startup # "indexing")

\* A shutdown ends the process, also when the start-up goroutine still waits for
\* rebuildMu behind a job (Run's wg.Wait).
ShutdownEnds == (daemon = "stopping") ~> (daemon = "down")

-----------------------------------------------------------------------------
(* The inductive invariant behind the safety properties.                   *)

\* Who may be at which stage, and what it then has at hand.
HolderInv ==
    /\ rebuildMu = NoThread => stage = "idle" /\ todo = {}
    /\ rebuildMu = Handler =>
         /\ stage \in {"cleared", "dropped", "commit", "walk", "replaced", "embed", "stored",
                       "finish", "return", "abort"}
         /\ todo = {}
    /\ rebuildMu = Callback =>
         /\ stage \in {"walk", "replaced", "embed", "stored", "finish", "return", "abort"}
         /\ todo = {}
    /\ rebuildMu = Startup =>
         stage \in {"load", "next", "walk", "replaced", "embed", "stored", "finish",
                    "return", "abort"}
    /\ rebuildMu \in JobId => stage \notin {"dropped", "commit"}
    /\ stage \in {"dropped", "commit", "walk", "replaced", "embed", "stored", "finish"}
         => dir \in Project
    /\ rebuildMu = Handler /\ stage = "cleared" => dir \in Project

\* Every id in sight was issued, and whoever holds the lock does not wait for it.
IdsInv ==
    /\ rebuildMu \notin spawned
    /\ rebuildMu \in JobId => rebuildMu.serial <= serial
    /\ currentJobID # NoJob => currentJobID.serial <= serial
    /\ progressFile.job # NoJob => progressFile.job.serial <= serial
    /\ jobRunning => currentJobID \in JobId

\* The id in memory is the file's or that of this process's latest job, which it is
\* in a process that has had one; the state carries that id, or none where there was no file.
ProgressInv ==
    /\ progress.id \in {NoJob, progressFile.job, currentJobID}
    /\ progress.job \in {NoJob, progress.id}
    /\ progress.id = NoJob => currentJobID = NoJob
    /\ progress.job = NoJob =>
         /\ progress.id \in {NoJob, currentJobID}
         /\ progressFile.job = NoJob \/ currentJobID = NoJob

\* A full rebuild in between the stop and the start of the watcher.
Rebuilding == rebuildMu \in JobId /\ rebuildMu.target = AllProjects
                  /\ stage \notin {"rebuild", "unlock"}
CoverInv == Alive =>
    /\ projects \ unsaved \subseteq roots
    /\ startup = "serving" /\ ~Rebuilding => projects \ unsaved \subseteq watching

\* As long as no process ended early: nothing is about to stop the daemon, and only a
\* thread that is indexing has reported that it runs.
BackedInv == stops = 0 =>
    /\ daemon # "stopping" /\ ~Holds(Startup, "abort")
    /\ statusSaved /\ "running" \in {progress.status, progressFile.status} => Indexing

\* Nothing of a process outlives it.
DownInv == daemon = "down" =>
    /\ rebuildMu = NoThread /\ startup = "off" /\ spawned = {}
    /\ adding = {} /\ reindexing = NoProject
    /\ watching = {} /\ events = {} /\ inflight = {}

\* What a rebuild has still to walk, and what it has to show.
Ahead == IF rebuildMu.target = AllProjects /\ stage \in {"cleared", "load"} THEN Project
         ELSE todo \cup (IF stage = "walk" THEN {dir} ELSE {})
InWork == IF stage \in {"walk", "replaced", "embed"} THEN {dir} ELSE {}

\* How far a rebuild has come: what it has still to walk has no hash, so that the walk does
\* not skip it, and each of its projects is to do, in work, or in the index.
DeliverInv == rebuildMu \in JobId =>
    /\ stage \notin {"rebuild", "return", "abort", "unlock"} =>
         \A p \in Ahead : hashes[p] = "absent"
    /\ stage \in {"walk", "replaced", "embed", "stored"} => dir \notin todo
    /\ stage \in {"next", "walk", "replaced", "embed", "stored", "finish"} =>
         Covered(rebuildMu) \subseteq todo \cup InWork \cup chunks
    /\ rebuildMu.target # AllProjects =>
         /\ stage # "load" /\ todo \subseteq {rebuildMu.target}
         /\ stage \in {"cleared", "next"} => todo = {rebuildMu.target}
         /\ stage = "return" => rebuildMu.target \in chunks
    /\ stage = "return" /\ stops = 0 /\ statusSaved => Covered(rebuildMu) \subseteq chunks

\* All that, with what it is there to prove.
IInv == /\ HolderInv /\ IdsInv /\ ProgressInv
        /\ CoverInv /\ BackedInv /\ DownInv /\ DeliverInv
        /\ OneActiveJob /\ RunningJobIsReported
=============================================================================
