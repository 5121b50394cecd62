------------------------------- MODULE Memory -------------------------------
(***************************************************************************)
(* The memory of chats and notes (internal/memory): chat sessions are      *)
(* exported to Markdown and indexed into a store of their own by the       *)
(* initial sync, by a ticker and by rebuild_memory; memory_write indexes   *)
(* notes.  IndexFile is a check, a delete, an embedding and an insert      *)
(* with no lock around them; only the calls of the store exclude each      *)
(* other.  A reload of the configuration stops the manager and opens       *)
(* another one on the same files, while tool handlers still use the old.   *)
(*                                                                         *)
(* A path stands for a session and the Markdown file it is exported to, or *)
(* for the file of a note; it has one chunk per content.  The Markdown     *)
(* itself is left out: a thread indexes the text it has exported just now. *)
(***************************************************************************)
EXTENDS Naturals

CONSTANTS
    Session,        \* chat sessions of the enabled providers
    Note,           \* notes, each with the memory_write handler that writes it
    Content,        \* what a session or a note may contain; a hash stands for it
    None,           \* no file, no hash
    Torn,           \* file_hashes.json cut off by an unfinished write
    Sync, Ticker,   \* the two goroutines of a manager
    Rebuilder,      \* the handler of rebuild_memory
    First,          \* what notes contain, and sessions before they are edited
    MaxEdits,       \* changes of session files
    MaxReloads,     \* reloads of the configuration in one life of the process
    MaxMishaps      \* failed exports, embeddings and store calls, reloads and deaths

Path == Session \cup Note
Thread == {Sync, Ticker, Rebuilder} \cup Note
Handlers == {Rebuilder} \cup Note

\* The managers of one life of the process; NoManager: memory is switched off.
Manager == 1..MaxReloads + 1
NoManager == 0

Table == [Path -> Content \cup {None}]    \* of hashes

ASSUME NamesAreDistinct ==
    /\ None \notin Content
    /\ Torn \notin Table
    /\ Session \cap Note = {}
    /\ Sync # Ticker /\ Sync # Rebuilder /\ Ticker # Rebuilder
    /\ {Sync, Ticker, Rebuilder} \cap Note = {}
    /\ First \in Content
ASSUME BoundsAreNaturals ==
    MaxEdits \in Nat /\ MaxReloads \in Nat /\ MaxMishaps \in Nat

VARIABLES
    source,         \* the providers' session files
    written,        \* the notes whose Markdown file has been written
    docs, hashes,   \* per manager: the collection in memory, and Store.hashes
    docFiles,       \* the collection's files, one for each document
    hashFile,       \* file_hashes.json
    manager,        \* what has become of the latest manager
    latest,         \* the manager opened last
    served,         \* the manager the tool handlers are given
    step, path, text, todo, held,   \* per thread: where it is in which file, what it
                    \* has read, the files it has still to do, a handler's manager
    acked,          \* notes whose memory_write returned a path
    dropped,        \* notes a rebuild cleared
    raced,          \* paths two threads were replacing at once, none alone since
    late,           \* a manager has written to the files after the next began to read them
    damaged,        \* paths a store call failed on, or a crash cut a delete of
    stray,          \* paths with a chunk file a failed delete left behind, until all are gone
    edits, mishaps  \* how much of each bound is used up

fileVars    == <<source, written>>
storeVars   == <<docs, hashes, docFiles, hashFile>>
managerVars == <<manager, latest, served>>
threadVars  == <<step, path, text, todo, held>>
historyVars == <<acked, dropped, raced, late, damaged, stray>>
boundVars   == <<edits, mishaps>>
vars == <<fileVars, storeVars, managerVars, threadVars, historyVars, boundVars>>

Blank == [p \in Path |-> None]
Nowhere == [p \in Path |-> {}]

TypeOK ==
    /\ source \in [Session -> Content]
    /\ written \subseteq Note
    /\ docs \in [Manager -> [Path -> SUBSET Content]]
    /\ hashes \in [Manager -> Table]
    /\ docFiles \in [Path -> SUBSET Content]
    /\ hashFile \in Table \cup {Torn}
    /\ manager \in {"down", "running", "stopping", "opening", "opened", "none"}
    /\ latest \in Manager
    /\ served \in Manager \cup {NoManager}
    /\ step \in [Thread -> {"idle", "wait", "clear", "next",
                            "check", "delete", "embed"}]
    /\ path \in [Thread -> Path \cup {None}]
    /\ text \in [Thread -> Content \cup {None}]
    /\ todo \in [Thread -> SUBSET Path]
    /\ held \in [Handlers -> Manager \cup {NoManager}]
    /\ acked \subseteq Note
    /\ dropped \subseteq Note /\ raced \subseteq Path
    /\ damaged \subseteq Path /\ stray \subseteq Path
    /\ late \in BOOLEAN
    /\ edits \in 0..MaxEdits /\ mishaps \in 0..MaxMishaps

Up == manager # "down"
Mishap == mishaps < MaxMishaps /\ mishaps' = mishaps + 1

Init ==
    /\ source = [s \in Session |-> First]
    /\ written = {}
    /\ docs = [m \in Manager |-> Nowhere] /\ hashes = [m \in Manager |-> Blank]
    /\ docFiles = Nowhere /\ hashFile = Blank
    /\ manager = "down" /\ latest = 1 /\ served = NoManager
    /\ step = [t \in Thread |-> "idle"]
    /\ path = [t \in Thread |-> None] /\ text = [t \in Thread |-> None]
    /\ todo = [t \in Thread |-> {}] /\ held = [h \in Handlers |-> NoManager]
    /\ acked = {} /\ dropped = {} /\ raced = {} /\ damaged = {} /\ stray = {} /\ late = FALSE
    /\ edits = 0 /\ mishaps = 0

-----------------------------------------------------------------------------
(* Threads.                                                                *)

Goto(t, s) == step' = [step EXCEPT ![t] = s]

\* The manager a thread works for: its own, or the one its call was given.
Using(t) == IF t \in Handlers THEN held[t] ELSE latest

\* A thread goes on with its next file or, when none is left in rest, has done: run
\* waits for the next tick, a handler lets go of the manager.
GoOn(t, rest) ==
    /\ step' = [step EXCEPT ![t] = IF rest # {} THEN "next"
                                   ELSE IF t = Ticker THEN "wait" ELSE "idle"]
    /\ held' = IF t \in Handlers /\ rest = {} THEN [held EXCEPT ![t] = NoManager] ELSE held

\* exportFile or WriteNote returns: syncAll goes on with the next file, also
\* after an error; memory_write answers, with a path when all went well.
LeaveAlwaysAcks(t, ok) ==     \* (Mutant: memory_write drops the error of IndexFile)
    /\ GoOn(t, todo[t])
    /\ path' = [path EXCEPT ![t] = None] /\ text' = [text EXCEPT ![t] = None]
    /\ acked' = IF t \in Note THEN acked \cup {t} ELSE acked
    /\ UNCHANGED todo

Leave(t, ok) ==
    /\ GoOn(t, todo[t])
    /\ path' = [path EXCEPT ![t] = None] /\ text' = [text EXCEPT ![t] = None]
    /\ acked' = IF t \in Note /\ ok THEN acked \cup {t} ELSE acked
    /\ UNCHANGED todo

\* syncAll: the directory listing.  run exports its pending files before it and
\* skips them in it: the same files in another order.
SyncAll(t) ==
    /\ todo' = [todo EXCEPT ![t] = Session]
    /\ GoOn(t, Session)

\* Threads that are past the check of a path, on their way to replace its chunks.
Replacing(p) ==
    {u \in Thread : path[u] = p /\ step[u] \in {"delete", "embed"}}

\* Decrypt reads the session, ExportSession writes it as Markdown, and IndexFile reads
\* and chunks that.
ExportSession(t, s) ==
    /\ path' = [path EXCEPT ![t] = s]
    /\ text' = [text EXCEPT ![t] = source[s]]
    /\ Goto(t, "check")

\* exportFile: each of the three may fail on a session.
Export(t) == \E s \in todo[t] :
    /\ step[t] = "next"
    /\ todo' = [todo EXCEPT ![t] = @ \ {s}]
    /\ \/ ExportSession(t, s) /\ UNCHANGED <<held, mishaps>>
       \/ Mishap /\ GoOn(t, todo[t] \ {s}) /\ UNCHANGED <<path, text>>
    /\ UNCHANGED <<fileVars, storeVars, managerVars, historyVars, edits>>

\* IndexFile: a text whose hash is stored is not indexed again.
SkipKnown(t) ==         \* (Mutant: a file that has a hash is not indexed again)
    /\ step[t] = "check"
    /\ \/ hashes[Using(t)][path[t]] # None /\ Leave(t, TRUE)
       \/ /\ hashes[Using(t)][path[t]] = None /\ Goto(t, "delete")
          /\ UNCHANGED <<path, text, todo, held, acked>>
    /\ UNCHANGED <<fileVars, storeVars, managerVars, dropped, raced, late, damaged, stray, boundVars>>
CheckWithoutDelete(t) ==        \* (Mutant: the stale chunks are not deleted)
    /\ step[t] = "check"
    /\ \/ hashes[Using(t)][path[t]] = text[t] /\ Leave(t, TRUE)
       \/ /\ hashes[Using(t)][path[t]] # text[t] /\ Goto(t, "embed")
          /\ UNCHANGED <<path, text, todo, held, acked>>
    /\ UNCHANGED <<fileVars, storeVars, managerVars, dropped, raced, late, damaged, stray, boundVars>>
Check(t) ==
    LET p == path[t] IN
    /\ step[t] = "check"
    /\ \/ hashes[Using(t)][p] = text[t] /\ Leave(t, TRUE) /\ UNCHANGED raced
       \/ /\ hashes[Using(t)][p] # text[t]
          /\ Goto(t, "delete")
          /\ raced' = IF Replacing(p) = {} THEN raced ELSE raced \cup {p}
          /\ UNCHANGED <<path, text, todo, held, acked>>
    /\ UNCHANGED <<fileVars, storeVars, managerVars, dropped, late, damaged, stray, boundVars>>

-----------------------------------------------------------------------------
(* The store.  A call holds Store.mu from its first write to its last; only*)
(* a failure or the death of the process leaves one half done.             *)

\* The chunks of the paths of P are gone from the collection and its files.
Without(P, table) == [p \in Path |-> IF p \in P THEN {} ELSE table[p]]
FilesKept(P, m) == docFiles     \* (Mutant: deleted in memory only)
FilesWithout(P, m) == [p \in Path |-> IF p \in P THEN docFiles[p] \ docs[m][p] ELSE docFiles[p]]

DroppingChunksOnly(P, m) ==     \* (Mutant: DeleteByPaths leaves Store.hashes alone)
    /\ docs' = [docs EXCEPT ![m] = Without(P, @)]
    /\ hashes' = hashes
    /\ docFiles' = FilesWithout(P, m)
Dropping(P, m) ==
    /\ docs' = [docs EXCEPT ![m] = Without(P, @)]
    /\ hashes' = [hashes EXCEPT ![m] = [p \in Path |-> IF p \in P THEN None ELSE @[p]]]
    /\ docFiles' = FilesWithout(P, m)

\* DeleteByPaths: file_hashes.json is written once, behind the last path.
DeleteByPaths(t, P) ==
    /\ Dropping(P, Using(t))
    /\ hashFile' = hashes'[Using(t)]
    /\ late' = (late \/ Using(t) # latest)
    /\ stray' = {p \in stray : p \in P => docFiles'[p] # {}}
    /\ UNCHANGED damaged

\* The chunks in gone of path q are out of the collection, the last of them, c, still in
\* its file; the paths of D are done.
DroppingUpTo(D, q, gone, c, m) ==
    /\ docs' = [docs EXCEPT ![m] = Without(D, [docs[m] EXCEPT ![q] = @ \ gone])]
    /\ hashes' = [hashes EXCEPT ![m] = [p \in Path |-> IF p \in D THEN None ELSE @[p]]]
    /\ docFiles' = [FilesWithout(D, m) EXCEPT ![q] = @ \ (gone \ {c})]

\* The collection drops a chunk and then removes its file: DeleteByPaths stops at the file
\* it cannot remove, or does not get file_hashes.json written.
DeleteFails(t, P) ==
    LET m == Using(t) IN
    /\ Mishap
    /\ \/ Dropping(P, m) /\ UNCHANGED stray
       \/ \E q \in P : \E D \in SUBSET (P \ {q}), gone \in SUBSET docs[m][q] :
            /\ \E c \in gone : DroppingUpTo(D, q, gone, c, m)
            /\ stray' = stray \cup {q}
    /\ damaged' = damaged \cup P
    /\ late' = (late \/ Using(t) # latest)
    /\ UNCHANGED hashFile

AddChunks(t, p, c) ==
    LET m == Using(t) IN
    /\ docs' = [docs EXCEPT ![m][p] = @ \cup {c}]
    /\ hashes' = [hashes EXCEPT ![m][p] = c]
    /\ docFiles' = [docFiles EXCEPT ![p] = @ \cup {c}]
    /\ hashFile' = hashes'[m]
    /\ late' = (late \/ m # latest)
    /\ UNCHANGED <<damaged, stray>>

\* The hash is entered before the collection is asked; the chunk may get into the
\* collection, and from there into a file, before the call fails.
AddFails(t, p, c) ==
    LET m == Using(t) IN
    /\ Mishap
    /\ hashes' = [hashes EXCEPT ![m][p] = c]
    /\ \E inMemory, onDisk \in SUBSET {c} :
          /\ onDisk \subseteq inMemory
          /\ docs' = [docs EXCEPT ![m][p] = @ \cup inMemory]
          /\ docFiles' = [docFiles EXCEPT ![p] = @ \cup onDisk]
    /\ damaged' = damaged \cup {p}
    /\ late' = (late \/ m # latest)
    /\ UNCHANGED <<hashFile, stray>>

-----------------------------------------------------------------------------
(* IndexFile goes on: the old chunks go before the new ones are embedded.  *)

Delete(t) ==
    LET p == path[t] IN
    /\ step[t] = "delete"
    /\ \/ /\ DeleteByPaths(t, {p}) /\ Goto(t, "embed")
          /\ raced' = IF Replacing(p) = {t} THEN raced \ {p} ELSE raced
          /\ UNCHANGED <<path, text, todo, held, acked, mishaps>>
       \/ DeleteFails(t, {p}) /\ Leave(t, FALSE) /\ UNCHANGED raced
    /\ UNCHANGED <<fileVars, managerVars, dropped, edits>>

\* The model was busy for five seconds, did not answer in 120, or its answer is no good.
EmbeddingFails == Mishap /\ UNCHANGED <<storeVars, late, damaged, stray>>

\* embedChunks, then AddChunks.  The vectors come from m.cache or from the model.
Embed(t) ==
    /\ step[t] = "embed"
    /\ \/ AddChunks(t, path[t], text[t]) /\ Leave(t, TRUE) /\ UNCHANGED mishaps
       \/ AddFails(t, path[t], text[t]) /\ Leave(t, FALSE)
       \/ EmbeddingFails /\ Leave(t, FALSE)
    /\ UNCHANGED <<fileVars, managerVars, dropped, raced, edits>>

-----------------------------------------------------------------------------
(* The tools, the ticker and the life of the managers.                     *)

\* memory_write: the name of the file has the second in it, so no two calls of
\* the model share one.  The file is new: its hash is not stored.
WriteNote(n) ==
    /\ served # NoManager /\ Up
    /\ n \notin written
    /\ written' = written \cup {n}
    /\ \/ /\ Goto(n, "delete")
          /\ held' = [held EXCEPT ![n] = served]
          /\ path' = [path EXCEPT ![n] = n] /\ text' = [text EXCEPT ![n] = First]
          /\ UNCHANGED mishaps
       \/ Mishap /\ UNCHANGED <<step, path, text, held>>
    /\ UNCHANGED <<source, storeVars, managerVars, todo, historyVars, edits>>

\* rebuild_memory: Rebuild lists the paths of the store ...
Rebuild ==
    /\ served # NoManager /\ Up
    /\ step[Rebuilder] = "idle"
    /\ todo' = [todo EXCEPT ![Rebuilder] = {p \in Path : hashes[served][p] # None}]
    /\ held' = [held EXCEPT ![Rebuilder] = served]
    /\ Goto(Rebuilder, "clear")
    /\ UNCHANGED <<fileVars, storeVars, managerVars, path, text, historyVars, boundVars>>

\* ... deletes them all, and runs syncAll, which knows of sessions only.
Clear ==
    LET P == todo[Rebuilder] IN
    /\ step[Rebuilder] = "clear"
    /\ dropped' = dropped \cup (P \cap Note)
    /\ \/ P = {} /\ SyncAll(Rebuilder) /\ UNCHANGED <<storeVars, late, damaged, stray, mishaps>>
       \/ P # {} /\ DeleteByPaths(Rebuilder, P) /\ SyncAll(Rebuilder) /\ UNCHANGED mishaps
       \/ /\ P # {} /\ DeleteFails(Rebuilder, P)
          /\ todo' = [todo EXCEPT ![Rebuilder] = {}] /\ GoOn(Rebuilder, {})
    /\ UNCHANGED <<fileVars, managerVars, path, text, acked, raced, edits>>

Tick ==
    /\ step[Ticker] = "wait" /\ manager = "running"
    /\ SyncAll(Ticker)
    /\ UNCHANGED <<fileVars, storeVars, managerVars, path, text, historyVars, boundVars>>

\* NewManager and Start: the collection is read from its files, then the hashes from theirs;
\* both goroutines start, the sync with its listing; the first tick is five minutes away.
ReadCollection(m) == docs' = [docs EXCEPT ![m] = docFiles]
LoadHashesAndStart(m) ==
    /\ hashFile # Torn
    /\ hashes' = [hashes EXCEPT ![m] = hashFile]
    /\ todo' = [todo EXCEPT ![Sync] = Session]
    /\ step' = [step EXCEPT ![Sync] = "next", ![Ticker] = "wait"]

\* New: memory is enabled; a store that does not load keeps the daemon down.
BootOnAnything ==       \* (Mutant: loadHashes ignores what does not parse)
    /\ manager = "down"
    /\ manager' = "running" /\ latest' = 1 /\ served' = 1
    /\ ReadCollection(1)
    /\ hashes' = [hashes EXCEPT ![1] = hashFile]
    /\ todo' = [todo EXCEPT ![Sync] = Session]
    /\ step' = [step EXCEPT ![Sync] = "next", ![Ticker] = "wait"]
    /\ UNCHANGED <<fileVars, docFiles, hashFile, path, text, held, historyVars, boundVars>>
Boot ==
    /\ manager = "down"
    /\ manager' = "running" /\ latest' = 1 /\ served' = 1
    /\ ReadCollection(1) /\ LoadHashesAndStart(1)
    /\ UNCHANGED <<fileVars, docFiles, hashFile, path, text, held, historyVars, boundVars>>

\* ReloadConfig: Stop closes the stop channel ...
ReloadStops ==
    /\ manager = "running" /\ latest < MaxReloads + 1 /\ Mishap
    /\ manager' = "stopping"
    /\ UNCHANGED <<fileVars, storeVars, latest, served, threadVars, historyVars, edits>>

\* ... which run sees between two ticks and the initial sync never looks at.
StopUnseenAtRest ==     \* (Mutant: the stop channel is looked at inside syncAll only)
    /\ step[Ticker] = "next" /\ manager = "stopping"
    /\ Goto(Ticker, "idle")
    /\ UNCHANGED <<fileVars, storeVars, managerVars, path, text, todo, held,
                   historyVars, boundVars>>
TickerStops ==
    /\ step[Ticker] = "wait" /\ manager = "stopping"
    /\ Goto(Ticker, "idle")
    /\ UNCHANGED <<fileVars, storeVars, managerVars, path, text, todo, held,
                   historyVars, boundVars>>

\* Both are done, or there was no manager: the next one reads the collection, unless the
\* new configuration enables no provider or the store does not load.
ReloadReads ==
    /\ \/ manager = "stopping" /\ step[Sync] = "idle" /\ step[Ticker] = "idle"
       \/ manager = "none"
    /\ \/ /\ latest < MaxReloads + 1
          /\ latest' = latest + 1 /\ manager' = "opening"
          /\ ReadCollection(latest + 1)
          /\ hashes' = [hashes EXCEPT ![latest + 1] = Blank]
          /\ UNCHANGED served
       \/ /\ manager' = "none" /\ served' \in {served, NoManager}
          /\ UNCHANGED <<docs, hashes, latest>>
    /\ UNCHANGED <<fileVars, docFiles, hashFile, threadVars, historyVars, boundVars>>

\* Handlers write through the old manager meanwhile.  The file of the hashes is whole:
\* no crash has cut it off since the process came up.
ReloadOpens ==
    /\ manager = "opening"
    /\ manager' = "opened"
    /\ LoadHashesAndStart(latest)
    /\ UNCHANGED <<fileVars, docs, docFiles, hashFile, latest, served, path, text, held,
                   historyVars, boundVars>>

\* ReloadMemoryManager: a manager that no call holds any more is garbage.
ReloadServes ==
    LET Kept(m) == m = latest \/ \E h \in Handlers : held[h] = m IN
    /\ manager = "opened"
    /\ manager' = "running" /\ served' = latest
    /\ docs' = [m \in Manager |-> IF Kept(m) THEN docs[m] ELSE Nowhere]
    /\ hashes' = [m \in Manager |-> IF Kept(m) THEN hashes[m] ELSE Blank]
    /\ UNCHANGED <<fileVars, docFiles, hashFile, latest, threadVars, historyVars, boundVars>>

-----------------------------------------------------------------------------
(* The process dies, killed, stopped, or on the fatal error Go raises when *)
(* two threads write m.cache at once; and a user goes on chatting.         *)

Down ==
    /\ Up /\ Mishap
    /\ manager' = "down" /\ latest' = 1 /\ served' = NoManager
    /\ docs' = [m \in Manager |-> Nowhere] /\ hashes' = [m \in Manager |-> Blank]
    /\ step' = [t \in Thread |-> "idle"]
    /\ path' = [t \in Thread |-> None] /\ text' = [t \in Thread |-> None]
    /\ todo' = [t \in Thread |-> {}] /\ held' = [h \in Handlers |-> NoManager]
    /\ UNCHANGED <<fileVars, acked, raced, late, stray, edits>>

Crash == Down /\ UNCHANGED <<docFiles, hashFile, dropped, damaged>>

\* A delete cut short: the files of some paths are gone, file_hashes.json is not
\* rewritten, or just not to its end.
CrashInDelete(t) ==
    LET P == IF step[t] = "clear" THEN todo[t] ELSE {path[t]} IN
    /\ step[t] \in {"delete", "clear"}
    /\ Down
    /\ \E D \in SUBSET P :
          /\ docFiles' = FilesWithout(D, Using(t))
          /\ hashFile' \in {hashFile, Torn} /\ (hashFile' = Torn => D = P)
    /\ dropped' = IF step[t] = "clear" THEN dropped \cup (P \cap Note) ELSE dropped
    /\ damaged' = damaged \cup P

\* An insert cut short behind the file of the chunk.
CrashInAdd(t) ==
    /\ step[t] = "embed"
    /\ Down
    /\ docFiles' = [docFiles EXCEPT ![path[t]] = @ \cup {text[t]}]
    /\ hashFile' \in {hashFile, Torn}
    /\ UNCHANGED <<dropped, damaged>>

EditSession == \E s \in Session : \E c \in Content \ {source[s]} :
    /\ edits < MaxEdits /\ edits' = edits + 1
    /\ source' = [source EXCEPT ![s] = c]
    /\ UNCHANGED <<written, storeVars, managerVars, threadVars, historyVars, mishaps>>

-----------------------------------------------------------------------------

Step(t) ==
    \/ Export(t) \/ Check(t) \/ Delete(t) \/ Embed(t)
    \/ t = Rebuilder /\ Clear
    \/ t = Ticker /\ (Tick \/ TickerStops)

Reload == ReloadReads \/ ReloadOpens \/ ReloadServes

Next ==
    \/ \E t \in Thread : Step(t) \/ CrashInDelete(t) \/ CrashInAdd(t)
    \/ \E n \in Note : WriteNote(n)
    \/ Rebuild \/ Boot \/ ReloadStops \/ Reload
    \/ Crash \/ EditSession

Spec == Init /\ [][Next]_vars

\* The goroutines of a manager run, and it is enough that one of them does: the model is
\* waited for five seconds and a request may take 120, so embedding ends, and the ticker
\* ticks.  A reload goes on.  Nothing is asked of the handlers of the tools.
Fairness ==
    /\ WF_vars(\E t \in {Sync, Ticker} : Step(t))
    /\ WF_vars(manager # "none" /\ Reload)

FairSpec == Spec /\ Fairness

-----------------------------------------------------------------------------
(* Properties.                                                             *)

\* A hash keeps IndexFile from indexing a file again, so a path has one only if
\* its chunks are there: in the manager's store, and in the files the next start
\* will read.  This holds of every path on which no store call has failed half way,
\* as long as no handler has written through a manager that was replaced.
HashHasChunk == \A p \in Path \ damaged :
    ~late =>
        /\ Up /\ hashes[latest][p] # None => hashes[latest][p] \in docs[latest][p]
        /\ hashFile # Torn /\ hashFile[p] # None => hashFile[p] \in docFiles[p]

\* IndexFile deletes what a path had before it inserts, and nothing locks the path
\* in between: unless two threads were in there at once, or a chunk file could not be
\* removed, a search never finds an old version of a file beside the new one; and the next
\* delete by one thread that gets rid of all the files of the path ends both exceptions.
OneContentPerPath == \A p \in Path \ (raced \cup stray) :
    ~late =>
        /\ \A c, d \in docs[latest][p] : c = d
        /\ \A c, d \in docFiles[p] : c = d

\* memory_write answers with a path only when the note is in the collection's files,
\* and only a rebuild takes it out again, whatever syncs, reloads, failures
\* and crashes come between; the tools find it while no old manager interferes.
NoteSurvives == \A n \in acked \ dropped :
    /\ First \in docFiles[n]
    /\ ~late /\ Up /\ served = latest => First \in docs[served][n]

\* Collection and files agree on every path no store call has failed on: what a search
\* misses now, a restart or a reload would not bring back, and nothing that was
\* deleted comes back with them.
MemoryMatchesFiles == \A p \in Path \ damaged :
    ~late /\ Up => docs[latest][p] = docFiles[p]

\* Again and again a search finds what a chat session contains just then, whatever way
\* sync, ticker, rebuild and memory_write interleave: no edit is missed for ever.
Troubled(s) == manager # "running" \/ late \/ s \in damaged
SessionsCatchUp == \A s \in Session :
    []<>((served # NoManager /\ source[s] \in docs[served][s]) \/ Troubled(s))

\* Stop waits for a sync that never looks at the stop channel; a reload comes to an
\* end all the same, since every wait inside a sync has a timeout.
ReloadEnds == manager = "stopping" ~> manager # "stopping"
=============================================================================
