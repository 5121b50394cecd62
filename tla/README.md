# Gnostis: TLA+ models, model checking and proofs

Gnostis (`src/`, Go) is a daemon that keeps a semantic index of configured
project directories and serves it to editors over MCP. This directory holds
TLA+ models of the parts of it that are hard to test: who may change the index
when, what a crash leaves on disk, and what a client may conclude from what it
is told. The models are translated from the source; `PROJECT.json` maps each
definition to its lines.

## Files

| file | what it is |
| --- | --- |
| `App.tla` | the coordinator: start-up index, jobs, tool handlers, watcher, progress file, shutdown, crash |
| `JobSlot.tla` | what the daemon promises about background jobs; `App` implements it |
| `AppProofs.tla`, `AppWatchProofs.tla` | theorems about `App`: jobs, progress and index; watcher, status and full rebuilds |
| `IndexStore.tla`, `IndexStoreProofs.tla` | one index operation write by write: collection, hash table, symbol index and their files |
| `SearchIndex.tla` | what such an operation promises to App and to searches; `IndexStore` implements it |
| `Memory.tla`, `MemoryProofs.tla` | the memory of chats and notes: managers, their threads, the tools, the store and its files |
| `Discovery.tla`, `DiscoveryProofs.tla` | what discovery finds below an auto root, and the names it gives: functions without state, and what they return for every input |
| `ConfigSync.tla`, `ResolveProofs.tla`, `ConfigSyncProofs.tla` | the four copies of the configuration; extends `Discovery`. Theorems about `resolveProjects`, and about the configuration on top of them |
| `Watcher.tla`, `WatcherProofs.tla` | the file watcher: goroutines, events, timers, flushes, stop and start |
| `MCApp.tla`, `App_*.cfg` | small instances of `App`, and statements of the documentation it violates |
| `MCIndexStore.tla`, `Index_*.cfg` | the same for `IndexStore` |
| `MCMemory.tla`, `MCConfigSync.tla`, `MCWatcher.tla`, with one `.cfg` each | small instances of the other three |

Run `tlc -config App_steady.cfg MCApp`, `tlapm AppProofs.tla` and so on here.
Definitions marked `(Mutant: ...)` are broken variants of the definition that
follows; substituting one must make a property fail, which shows that the
property depends on that piece of code.

## Inventory of the system

| part | state | operations | interacts with |
| --- | --- | --- | --- |
| App (`internal/app`) | project and directory lists, configuration, job slot (`jobMu`, `jobRunning`, `currentJobID`), `rebuildMu`, `watcherStarted` | `New`, `Run`, `initialIndex`, `resumeInterruptedJob`, `StartRebuild*`, `RebuildProject`, `RebuildIndex`, `AddProject`, `RemoveProject`, `ReindexFiles`, `ReloadConfig`, watcher callback | everything below |
| Progress (`internal/progress`) | state in memory, `indexing-progress.json` (tmp + rename) | `Load`, `SetJobID`, `Start`, `Done`, `Fail`, counters | written by whoever indexes, read by status queries and by the next process |
| Store (`internal/store`) | chromem collection (one file per chunk), `hashes`, `file_hashes.json`, `dim`, `embedding_dim.json` | `AddChunks`, `DeleteByPaths`, `Query`, counts | index operations, search |
| Symbol index (`internal/symbol`) | `data`, `symbols.json` (tmp + rename) | `AddChunks`, `RemoveByPath`, `Save`, `Lookup` | index operations, `find_symbol` |
| Watcher (`internal/watcher`) | fsnotify handle, pending paths, debounce timer | `Start`, `Stop`, `run`, `handleEvent`, `flush` | callback into App |
| Indexer, directory rules, chunker | .gitignore cache | `Index`, `ShouldIndex`, `ChunkFile` | App |
| Embeddings (`internal/embeddings`) | a semaphore of one with a timeout of 5 s | `Embed` | index operations, search, memory |
| Configuration (`internal/config`, `config_watcher.go`) | `config.yaml` | `Load`, `ReloadConfig`, `saveConfig` | user, App |
| Memory (`internal/memory`) | its own store, pending exports, embedding cache | `Start`, `run`, `syncAll`, `WriteNote`, `Rebuild`, `Stop` | chat providers, MCP tools |
| MCP server (`internal/mcp`) | project list, memory manager (replaced on reload) | one handler per tool | App, search, memory |
| Instance lock (`internal/lock`), statistics (`internal/stats`) | `.lock`, `project-stats.json` | `TryLock`, `Update`, `Load` | `Run`, status |
| Search, discovery, chat providers, log, command line | none that lasts | | |

What makes each correct:

* **App** - at most one job at a time, found under its id until the next one; every
  job ends; a job that reports no error has indexed what it is for; a removed
  project stays removed; the watcher covers the configured projects; a shutdown
  ends; a restart picks up what was interrupted.
* **Store and symbol index** - a search never sees two contents of one file; a file
  taken for unchanged is in the collection; symbols agree with chunks; a rebuild
  repairs whatever a crash or failure left of the files that are still there.
* **Progress** - the status a client reads is that of the job it names, and
  `running` means that somebody is indexing.
* **Watcher** - no change of a watched file is lost but by a stop or an event the kernel drops; every
  directory of the tree is watched, unless the kernel refuses; what is pending has a timer.
* **Configuration** - reload, add and remove do not undo each other; `config.yaml` has
  what was asked for; names and paths are unique as long as the user's are.
* **Memory** - a search finds what a note or session contains and no older version beside it; a note
  whose path was returned survives; every `Stop` ends.

The models meet where the parts do. `App` has the store, the watcher and the
configuration as far as its own threads depend on them; `IndexStore` is one
operation of `App` in detail; `Watcher` is the watcher of `App` in detail, with
`App` as its owner; `ConfigSync` has the project lists `App` starts from, and the
reload that `Memory` sees as the replacement of its manager.

The hard behaviours are listed under `hazards` in `PROJECT.json`, each at its line.

## App

State and code: `daemon` and `startup` are the process and the goroutine of `Run`
that calls `initialIndex`; `rebuildMu` is the holder of the lock of that name (a job, the
start-up goroutine, a tool's `Handler`, or the watcher's `Callback`) and `stage` how far it has come:

| stage | the holder is about to |
| --- | --- |
| `rebuild` | begin the function of a job |
| `cleared`, `dropped`, `replaced`, `stored` | write the hash file, behind the deletes of a rebuild, of `RemoveProject` or of one file, and behind an insert |
| `load` | call `progress.Load` in `initialIndex` |
| `next`, `walk`, `embed`, `finish` | go on in `initialIndex` and `indexDirectory` |
| `commit` | change the lists, in `RemoveProject` |
| `return`, `abort` | return without or with an error |
| `unlock` | unlock, the job slot being given up already |

`jobRunning` and `currentJobID` are the fields of
that name, `spawned` the job goroutines waiting for the lock; `progress` and
`progressFile` the two copies of the progress state; `chunks`, `unwritten` and `leftover` the
collection (what a search finds; what of it is not in files since an insert failed; what is in files
only since a delete failed), `hashes` and `hashFile` the table and its file; `projects` and `config` the
runtime list and `config.yaml`; `reindexing` a `reindex_files` call whose path was allowed and that waits
for the lock; `watching`, `events` and `inflight` the watcher's directories,
its debounced changes, and those a flush is handing over; `roots` is the watcher's own
list of directories. `unsaved`, `idSaved` and `statusSaved` are history variables: a change of the
projects that could not be saved, and whether the id of the latest job and the latest status
reported got into `progress.json`.

`roots` is there because `RebuildIndex` stops and starts the *same* watcher, which
walks the list it was built with. `restartWatcher` builds a new one from `a.dirs`; when
`saveConfig` fails, `AddProject` and `RemoveProject` return before it. Worse, the
watcher's list is a slice of the array of `a.dirs`, which `RemoveProject` shifts in place
(`Shifted`) and `AddProject` may write behind (`Appended`).

Every setter of the progress drops the error of its save, so `Save` may fail anywhere. Then memory and file
go apart, and a query's `Load` puts the file's state back. Two properties therefore have a condition:
an id that never got into the file is gone with the next query (`idSaved`), and where a `done` or an error
was lost, `running` stays, under which searches answer that the index is being built, and the next full rebuild takes itself
for an interrupted one (`statusSaved`). Writes that are lost at any other moment do no harm, which is what the run
with lost writes and the proofs show.

Every step between which another thread can do something is an action, and so is every write of a file;
what happens under `jobMu` or the mutex of `Progress` is one step. Boot to `initialIndex`, each stage of `indexDirectory`, each
handler's locked part, the flush and each callback of the watcher, shutdown, exit and crash are
interleaved freely. `Crash` may strike in any state and keeps the files only.

Abstractions:

* A project is a directory with one indexable file: files are indexed
  independently, and a job's progress over directories is kept. Several files of
  one directory appear in `IndexStore`.
  With one file, a project's chunks are there or not, and a delete that fails half-way leaves
  all or none of them in files.
* A hash is `fresh` or `stale` against the file's present content. The walk reads the file at one
  moment, and an edit while it is embedded makes the hash of what is stored stale. The walk skips a file by its hash
  alone, as in the code, whether its chunks are there or not.
* A hash file cut off by a crash, which keeps the daemon down, is in `IndexStore`.
* The directories of `initialIndex` are indexed in any order (a set for a list):
  every order of the configuration is covered.
* The callback of the watcher takes the lock and goes through the steps of `indexDirectory`: its delete,
  embedding and insert fail alike; it looks at no hash and enters none.
* `watcher.Stop` and `Start` succeed here (their failures are in `Watcher`). A file that is gone or excluded is not
  distinguished from one that is edited (in `IndexStore` it is).
* `reindex_files` takes a project's directory, and one call at a time is between its check of the path and
  the lock. The directory of a removed project may still be reindexed by it and by a change in flight, as in the code.

### Runs

| run | instance | states | what it shows |
| --- | --- | --- | --- |
| `App_steady` | 2 projects, both configured, 2 jobs, 1 edit, 1 failure, no stop, symmetric in the projects | 4.0M | `OneActiveJob`, `RunningJobIsReported`, `RunningIsBacked`, `JobDelivers`, `WatcherCoversProjects`, `RemovedStaysRemoved` |
| `App_restart` | 1 project, 2 jobs, 2 stops, 1 failure, 1 lost write of the progress | 2.3M | the inductive invariant, from which the invariants above follow, `ProjectJobDelivers`, `RemovedStaysRemoved` and `ImplementsJobSlot` across crashes, shutdowns, resumed jobs and lost writes |
| `App_live` | 1 project, 1 job, 1 stop, 1 failure, `FairSpec` | 96k | `JobsEnd`, `StartupEnds`, `ShutdownEnds` |
| `App_rebuild_resumed` | 1 job, 1 stop | violation | a resumed `rebuild_index` wipes the index and indexes nothing |
| `App_done_early` | 2 jobs | violation | `done` under the id of a job that is not done |
| `App_add_coalesced` | 2 jobs | violation | an added project that is never indexed |
| `App_remove_untracked` | 1 edit | violation | a removed project whose chunks stay |

Bounds. Two projects are the least that separate a job's project from another's
and a full rebuild's first directory from its last. Two job ids give a job, a
coalesced request, and a job that meets the other's leftovers; a resumed job needs no new id. Two stops
give a crash, a resumed job, and a crash of that; what a restart finds depends on the progress and on the files of
each project by itself, so one project is enough there. One edit
gives an event at any moment against any handler; one failure strikes at any step that can fail, one lost write at any
save of the progress. `MaxJobs`, `MaxStops`, `MaxEdits`, `MaxFailures` and `MaxLostSaves` are guards in the actions they
name. The proofs are for every value of them, and for failures, edits, stops and lost writes together.

`RunningIsBacked` and `JobDelivers` are stated for a daemon that never stopped and whose latest status was saved: after
a crash they fail in the code, which is what `App_rebuild_resumed` shows. `JobDelivers` asks for chunks that are
there whatever failed before: it rests on `DeleteByPaths` removing the hashes with the chunks, so that the walk of a rebuild skips nothing.

Fairness (`Fairness` in `App`). The Go scheduler runs every goroutine that can
run: weak fairness of the process steps and of the lock holder's next step
(`Work`; an embedding request has a timeout of 120 s, so `embed` ends, and failures are
not forced). `sync.RWMutex` serves waiting writers in the order they came: strong
fairness of each goroutine's acquisition, although others take the lock in between.
Nothing is assumed of clients, of edits, of the watcher's timer, of faults, or of a shutdown.

### Proofs

`AppProofs` proves, for any set of projects and any bounds: `TypeCorrect`,
`AtMostOneJob`, `JobIsReported`, `RemovedProjectsStayRemoved`, and the refinement `AppImplementsJobSlot`;
`AppWatchProofs` adds `InvariantHolds`, `WatcherCovers`, `RunningMeansIndexing`,
`JobsDeliver` and `ProjectJobsDeliver`. They rest on the assumptions `NamesAreDistinct` and `BoundsAreNaturals` alone.

The inductive invariant is `IInv`, and it is needed because none of the
properties is inductive. `HolderInv` says which holder may be at which stage: without it
nothing excludes a handler at `load`. `IdsInv` says that every id
in sight was issued, so that a new job's id is new, and that the lock holder is not
also waiting. `ProgressInv` says that memory's id is the file's or that of the process's latest
job, and in a process that has had a job never none; without it a status report of
the start-up index could overwrite the file's id, and a query's `Load` the
running job's. `OneActiveJob` itself must be carried along: at the step in which a
job takes the lock and at the one in which it gives up the slot it is what
tells that there is no other.

The rest of `IInv` is for `AppWatchProofs`. `CoverInv`: the watcher's own list has every
project that is not `unsaved`, and except inside a full rebuild, which has stopped it, the
running watcher covers them; without the first half nothing is known of the watcher a
full rebuild starts again. `BackedInv`: as long as no process ended early nothing is
about to stop the daemon, and if the latest status was saved, a status of running, in memory or in the file, has its
thread inside `indexDirectory`; memory must be included because a report keeps what it finds.
`DeliverInv`: what a rebuild has still to walk has no hash, so that the walk does not skip it, and each of its projects is
still to do, in work or in the index.
`DownInv` says that nothing of a process outlives it.

The job slot is refined with `slot <- IF jobRunning THEN currentJobID ELSE NoJob`, `latest <- currentJobID`,
`published <- progressFile.job`, `clock <- serial`: a job enters when it is spawned, publishing its id unless the write is lost, leaves
when its goroutine clears `jobRunning` or the process ends, and is resumed under the published id. A later write of the progress
catches up (`Publish`); a process that could not read the file overwrites it without an id (`Forget`).

Checked by TLC only: liveness (out of the prover's reach).

## IndexStore

The operations that `App` serialises with `rebuildMu`, taken apart into their
writes. `file` is the file system, `chunks` the collection on disk (chromem writes each
document to a file of its own), `hashes` and `symbols` the tables in memory, `hashFile` and
`symbolFile` their files, `op` the operation (`scan` at start-up, `rebuild` of a project, `file`
= `reindexFileUnder`, `drop` = the same for a file that is gone), `step` the next write,
`caller` which call of `DeleteByPaths` or `AddChunks` is at work, `walked` what
was read, `changed` the paths concerned and `queue` those still before
the running loop. `os.WriteFile` truncates and then writes (`TruncateHashes`, `WriteHashes`); between the two a
crash leaves a file that does not parse (`Torn`), and `store.New` refuses it, so
the daemon stays down (therefore these runs do not check deadlock). The symbol
file is replaced by rename in one step.

Abstractions: a file has one chunk and one symbol per content (chunks are
independent documents with ids derived from path and text; `ChunkFile` returns
at least one chunk for any file); a hash is the content it stands for; the walk reads all files at
one moment; the embedding dimension is left out; None stands for a file that
does not exist (a file that ceases to pass the filters is not modelled).

| run | instance | states | what it shows |
| --- | --- | --- | --- |
| `Index_writes` | 2 files, 2 contents, 3 edits, 2 deaths, 1 failure, symmetric in files and contents | 761k | `OneContentPerFile`, `RebuildHeals`, `ScanDelivers`, `SymbolsMatchChunks`, `IInv`, `ImplementsSearchIndex` |
| `Index_scan_lost` | 2 files, 2 contents, 1 death | violation | after a crash between the delete and the save of the hashes the file is skipped by every scan |

Two files are needed for a delete or an insert that is cut in the middle, two contents for an
old and a new chunk, three edits for a change between an operation, its crash and the
next operation; two deaths for a crash in the repair after a crash.

`IndexStoreProofs` proves the invariant, all four properties and the refinement for any files,
contents and bounds (`TypeCorrect`, `Invariant` and a theorem each), from `NoneIsNoContent`, `TornIsNoTable` and `BoundsAreNaturals`.
`IInv` has four parts with a lemma each: `StepInv` (which operation may be at which
step, and that what is inserted was read), `ReplaceInv` (without failed deletes
an insert meets no old chunk), `ProgressInv` (what the running operation has
already stored; and that a rebuild clears every hash before it walks, so that
everything it walks is changed), `CleanInv` (the agreement of memory, files and collection in
histories without crash and failure).

`KeepsPromises` is the refinement of `SearchIndex`: `found` is the collection, `job` and `scope` the
operation and the files it is for, `hasRead` and `read` what it has at hand from the moment the loop with the replacements
begins (or, for a single file, `ReadFile` is behind it), and the flags `failed` and `died` are the counters of failures and
deaths. Every write of the hash table, the symbols and their files is a stutter; `Walk` and `ReadFile` read, `DeletePath`
withdraws, `AddChunk` publishes, `SaveSymbols` finishes. `IInv` is what makes it go through: `ReplaceInv` for the
publishing into an empty place, `StepInv` for the scope, `ProgressInv` and `CleanInv` for the finish. `SearchIndex` says in one page what
the properties say one by one, and one thing more: an operation on a file never touches another.
`App` takes this for granted when it lets one file stand for a directory.

What the theorems say and do not say: a rebuild heals every file it walks, but the chunks of a file that has no hash and is
gone (the watcher had reindexed it) stay, since deletion goes by the hashes; a start-up scan
is only right in histories without crashes and failures, and `Index_scan_lost` is the
counterexample otherwise.

## Memory

Chat sessions are exported to Markdown and indexed into a store of their own, by three
threads: the initial sync and the ticker of a manager (`Sync`, `Ticker`), and the handler of
`rebuild_memory` (`Rebuilder`); each note brings the handler of its `memory_write`. `step`,
`path`, `text` and `todo` say where a thread is in `syncAll` and `IndexFile`: `next` = about to export
a file of its list, `check` = about to compare the hash, `delete` and `embed` = about to replace the
chunks, `clear` = in `Rebuild`, `wait` = the ticker in its select. Only the calls of the store hold a lock
(`Store.mu`), so `IndexFile` interleaves with itself between them; `raced` marks the paths two threads
were replacing at once.

`docs` and `hashes` are per manager: a reload stops the manager (`ReloadStops`), waits for both
goroutines, opens another on the same files, the collection first (`ReloadReads`) and the hashes after it
(`ReloadOpens`), and only then tells the server
(`ReloadServes`), while handlers that got the old one (`held`) go on using it, with its own tables, also between the two reads.
`late` records that such a handler has written; then the new manager's tables and the files are
no longer the same, and the properties say no more about the store. `damaged` marks paths a call
of the store failed on, or a crash cut a delete of: their hash may outlive their
chunks, and `IndexFile` then skips them for good. `stray` marks those of which a failed delete may have left a file: chromem
drops a document from memory before it removes the document's file, so the file stays, the next version is written beside it, and
a reload or a restart serves both. A later delete that finds all of them in memory ends that.

Abstractions: a path has one chunk per content, and a hash is the content it stands for. The Markdown file between
`ExportSession` and `IndexFile` is left out: a thread indexes the text it has exported just now. `m.cache` is
a request that is answered at once; that two threads may write it at the same time, which is a fatal error in
Go, is a `Crash`. The wait for the embedding semaphore (five seconds), the request (120 s) and a bad
answer are one failure (`EmbeddingFails`). The files an event of the memory's own watcher has put
into `pending` are exported before the listing and skipped in it: the listing in another order.
A file_hashes.json cut off by a crash keeps the daemon down, so the run does not check deadlock.

| run | instance | states | what it shows |
| --- | --- | --- | --- |
| `Memory_lifetimes` | 1 session, 1 note, 2 contents, 1 edit, 1 reload, 1 mishap, `FairSpec` | 506k | `HashHasChunk`, `OneContentPerPath`, `NoteSurvives`, `MemoryMatchesFiles`, `SessionsCatchUp`, `ReloadEnds` |

One session suffices for the races, which are between threads at one path, and one note for what a
rebuild clears. One edit makes an old and a new version meet; one reload makes two managers. `MaxMishaps` bounds failures,
reloads and deaths together, so the run has one of them at a time. The proofs of the safety properties
are for every value of the bounds, and so for all of them together.

Fairness: the goroutines of the manager run - it is enough that one of the two does, since every wait of a thread has a timeout; the
ticker ticks; a reload that has stopped a manager goes on. Nothing is assumed of the handlers of the tools, which may stop
anywhere, or of a reload that begins. `SessionsCatchUp` says that a search finds the present content again and again, unless the
manager is not running, the path is damaged or a replaced manager has written: a tool that indexes an old export may take it away for a while.

`MemoryProofs` proves the four safety properties and the types. `IInv` has five parts: `TypeOK`;
`ThreadsInPlace` (a note's handler is at its note, every other thread at a session, and only a rebuild has
notes on its list - without it a sync might delete a note); `NotesKept` (a note being written has no
hash anywhere, so that no rebuild knows of it until its handler returns); `StoreInv` (tables, collection
and files of the latest manager agree on every path that is not damaged; and memory has every file of a path that
is not `stray`, damaged or not, without which a later insert could meet a file nobody knows of); `RaceInv` (at a path that is not `raced` at most one thread is past
the check, and behind its delete the path is empty unless it is `stray`). The two liveness properties are checked by TLC only.

## Configuration

`ConfigSync` has the four copies: `file` (config.yaml), `cfg` (`App.cfg.Directories`), `projects` (`App.projects`) and
`served` (the list of the MCP server). `op` is how far the holder of `rebuildMu` is with saving and serving;
`event` a change that fsnotify has queued or a debounce timer that is armed; `loaded` what
`ReloadConfig` has read and resolved and will apply when it gets the lock. `due` is what the user and the tools have
asked for so far: the specification that `FileKeepsRequests` compares config.yaml with.

`saveConfig` writes in place, so there is a moment with an empty file, in which a reload refuses the file and a
crash leaves one that keeps the daemon down (deadlock is not checked). `append` and the removal of an element work on the
array the server's slice shares (`shared`): an addition may or may not move it, and a removal shifts the
server's list under its readers. `remove_project` looks the entry to remove up by name, and may hit an auto root.

`Resolve` is `resolveProjects`, with `Discovery`: the walk below an auto root, the skipped names, the
workspace file, the markers, depth, and `UniqueNames`. A directory of a skipped name is not a project, but it *is*
entered, as in the code, and repositories in it are found. A name is a pair of a label and a number,
which stands for `label-number`; labels that end in a number themselves are left out.

A user's file is any list of entries. `validate` checks neither names nor paths, and `applyDefaults` gives entries without a name
their base name, so two directories may collide; the flag `ambiguous` is set by a file that gives two explicit entries one
name or path, and `NamesUnique` and `FileKeepsRequests` say nothing after it.

Where the model is narrower than the code: an editor replaces the file at once, and not inside the moment between `saveConfig`'s
truncation and its write; the path checks before `AddProject` takes the lock are left out, as are all
settings but the directories; the directories exist all along and only become repositories;
every auto root has the same options; the part of `ReloadConfig` under the lock is one step (the restart of the
watcher in it is `App`'s, the replacement of the memory manager `Memory`'s).

| run | instance | states | what it shows |
| --- | --- | --- | --- |
| `ConfigSync_reload` | an auto root with a workspace file, a project, and a directory of a skipped name with a future repository; one directory elsewhere with the project's base name; three files a user may write, one of them ambiguous; 2 calls of tools, 1 edit or new repository, 1 mishap, `FairSpec` | 0.8M | `NamesUnique`, `SettledAgrees`, `FileKeepsRequests`, `ServesProjects`, `EditsTakeEffect` |

Two calls give an addition and its removal, or two additions against one reload; the mishap is a save that
fails at either of its steps or a death at any moment. The safety properties are proved for all bounds.

What the properties exclude is what the code really loses: an edit that a tool overwrites before it was
reloaded (`clobbered`), an edit between `Load` and the start of `watchConfig` and a repository nobody
reports (`missed`), a tool that could not save (`failed`), a tool that hit another entry (`misnamed`), a file whose entries share names or paths (`ambiguous`). Each is a flag that is
set by the step in question, so that everything else must be right.

Fairness: the holder of the lock goes on; `watchConfig` starts; the timer of a change expires and the file is
read; a reload gets the lock although tools take it in between (`sync.RWMutex` is first come, first served, hence strong
fairness). The condition on `LoadConfig` is its weak fairness with the guard spelled out, which spares TLC
the resolution of the configuration where it only asks whether the action is enabled.

The proofs are for any tree of directories, any users' files and any bounds, in three layers.

`DiscoveryProofs`: `NamesAreUnique` and `DiscoveredOnce`, for any list and any names in use. That the search for a free
number ends is the pigeonhole principle: n numbers cannot all be taken by fewer than n names (`NewNameExists`).
The functions are folds over lists. The library's induction cannot be used for them, since it takes a predicate as a parameter; instead
`FoldExists` says that a fold over a list has a sequence of intermediate results, by induction over one fixed set with the least
element of its complement (`UpTo`, `Least`), and each property is then carried along that sequence.

`ResolveProofs`: `ResolveSound`, the same for `resolveProjects`. Its two loops are carried by `Extends`: what a step makes
of a list has all the list had, and is without doubles if the list was. The first loop relies on what the configuration gives
(`Unambiguous`: its explicit entries differ), the second on `NamesAreUnique` and on the test of the paths in use.

`ConfigSyncProofs`, with five inductive invariants, each checked by TLC on the instance of the run:

* `TypeInv` for `TypeCorrect`: `TypeOK`, and that what has been read has its defaults. The rest of the work is in the lemmas: what
  the folds return, and what is left of a list without one of its elements.
* `NamesInv` for `NamesStayUnique`, all of it unless `misnamed` or `ambiguous`: `NamesUnique` says something of the running list only, but a reload replaces it by what was *read*,
  from a file the tools write from `cfg`. So no two explicit entries of `file`, `loaded` and `cfg` may share a name or path either, and every explicit
  entry of `cfg` must be among the projects - else a name that is free among the projects might be taken in `cfg`.
* `KeepInv` for `RequestsAreKept`: a tool that is not `clobbered` sets out from `due` (`SetsOutFromDue`); until it has written, `want` is
  what `cfg` has; and a file that is empty because everything was removed (`Emptied`) is not mistaken for one that is being written.
* `ServeInv` for `ProjectsAreServed`: where the two lists share an array (`shared`), they agree position by position as far as the
  server's goes, so that a shift loses the server nothing but what it did not have; and a path that is not listed yet is
  there once.
* `SyncInv` for `SettledMeansAgreed`: whoever changes the file leaves an event or a change that was missed; what has been read is the
  file unless there is such an event; and so a quiet daemon has applied the present file. What `Resolve` computes plays no part in it.

`EditsTakeEffect`, a liveness property, is checked by TLC only.

## Watcher

`pc` and `got` are the goroutines of the event loop: each `Start` makes one, and one of an earlier start may still be at
work (`loop` = about to read both channels, `select`, `handle` = before `w.mu`, `walk` = in `addRecursive` under it, `arm` = the path
is pending, the old timer stopped, the new one not armed yet).
`timer` is `w.timer` (nil, armed, fired or stopped), `orphans` the armed timers it no longer refers to, `fired` the flushes on their way to
`w.mu`, `pending` and `inflight` the paths before and after a flush took them. `ctl` is the owner, which stops and
starts under `rebuildMu`: `RebuildIndex` the same watcher with all files reindexed in between (`Reindex`),
`restartWatcher` a new one in its place (`StartReplaces`, after which the goroutines of the old are `stray`). `queue` and
`watches` are inotify. `stale` are files that have changed since they were handed over, `missed` those whose change is in
nobody's hands, and the directories whose event was lost or which could not be watched.

The kernel drops the newer event when its queue is full (`Send`). `addRecursive` logs a directory that cannot be watched, for
instance at the limit of inotify watches, and skips it with all below it; of one that cannot be listed it skips what is
below (`AddRecursive`, in `Walk` and in `StartWatches`). Either puts the directory into `missed`.

`flush` sets `w.timer` to nil, also when an event has armed another one since its own fired; the orphan then fires
on its own. `Stop` sets `w.watcher` to nil without the mutex, and `run` reads it on its way into the select: `Panic` ends the process,
and the liveness property says so.

Abstractions: the queue is a set (order and doubles do not matter to a set of pending paths); a
removal of a tree is the removal of its files, a rename out of it is `MoveAway`; a directory that comes
from elsewhere may come with any of its contents. The callback is one step, and what it does or fails to do is in `IndexStore` and `App`. The `Stop` of a shutdown, which
does not hold `rebuildMu`, is left out: the process ends behind it.

| run | instance | states | what it shows |
| --- | --- | --- | --- |
| `Watcher_restarts` | 3 directories in each other, 1 file that changes for ever, 2 starts, 2 changes of directories, 1 orphaned timer or waiting flush, 1 mishap, `FairSpec` | 680k | `NothingForgotten`, `PendingHasTimer`, `DirectoriesAreWatched`, `ChangesAreReported` |

Two starts give a goroutine and one that outlives its watcher; two changes of directories a new one and one in it, or
the move of one that was just made or of all of them; one mishap an event that is dropped, a directory that cannot be
watched or listed, or a start that fails. `MaxTimers` bounds the timers besides `w.timer`: a timer fires again only when the flush
of the last one is through.

Fairness: goroutines run, timers that are armed fire, and the owner gets from `Stop` to `Start` (index operations end, see `App`).
Every event stops the timer and arms a new one, with no limit on how often: a stream of events less than two seconds apart, of
any files, puts the flush off for ever, and the file of the model may be such a stream. So `ChangesAreReported` is
conditional: if from some time on events leave the timer alone, each change is handed over, or is lost in a way the model names. What the
property then says is that restarts, orphaned timers, flushes that clear the field of a newer timer and
goroutines that outlive their watcher do not block it.

`WatcherProofs` proves all but the liveness for any tree and any bounds. The invariant behind it is
`ShapeInv` (a start has a goroutine left, goroutines that have not been started do nothing, the existing directories are closed under
their parents); on it each property is inductive by itself. `TreeIsRooted` states what a tree is.

## Disagreements between documents and code

Each has a run that ends in a violation; `PROJECT.json` quotes the lines.

1. `rebuild.go:55`, `:131` - a resumed full rebuild deletes the index and resumes
   into itself (`App_rebuild_resumed`).
2. `docs/mcp-tools.md:143` - `get_index_job` reports `done` before the job is (`App_done_early`).
3. `docs/mcp-tools.md:187` - `add_project` during another job does not index (`App_add_coalesced`).
4. `docs/mcp-tools.md:198` - `remove_project` leaves the chunks of files the watcher
   reindexed (`App_remove_untracked`).
5. `docs/indexing.md:9` - the start-up scan skips files whose chunks a crash took away
   (`Index_scan_lost`).

Another one has no run, since no behaviour depends on it: `docs/config.md:105` gives 2 as the default depth of the
automatic discovery, `loader.go:165` sets 3.

## Plan

Done, in this order: `App` with `JobSlot`, `IndexStore`, `Memory`, `Watcher`, `Discovery` with `ConfigSync`, and
proofs for each: every invariant and action property a run checks is proved. `IndexStore` has been shown to implement
`SearchIndex`. What is left, by what it would add:

1. `Watcher` as an implementation of the watcher inside `App`.
2. `ReloadConfig` as an action of `App`, so that reloads and jobs meet in one model.
3. Two processes at start-up: `New` opens the store and starts the memory's threads before `Run` takes the instance lock.
4. The path predicates (`isUnderPath`, the prefix test of `reindexFile`) and the precedence of filters, as
   operators on paths against reference definitions.

## Not modelled

Tree-sitter parsing, HTTP and authentication, the reading tools (search, grep,
`fs_*`), statistics, chat provider formats, logging and the command line: they
keep no state that another part relies on, or only convert data. The embedding dimension is written once and compared
by queries. The embedding semaphore excludes nothing the models rely on: its holder ends by a timeout, and those who wait fail by one.
The instance lock is taken at the beginning of `Run`; the models have one process. The
`components` of `PROJECT.json` name all of them one by one.
