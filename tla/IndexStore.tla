----------------------------- MODULE IndexStore -----------------------------
(***************************************************************************)
(* What one indexing operation does to the persistent index, write by      *)
(* write: the chunk collection (written document by document), the hash    *)
(* table with its file file_hashes.json (rewritten in place), and the      *)
(* symbol index with its file (replaced by rename).  The operations are    *)
(* those App serialises with rebuildMu - the scan at the start of the      *)
(* daemon, the rebuild of a project, the reindexing of one file - and the  *)
(* process may die between any two writes.                                 *)
(*                                                                         *)
(* A file has one chunk and one symbol per content: the chunks of a file   *)
(* are independent documents, and each of them fares like this one.        *)
(***************************************************************************)
EXTENDS Naturals, FiniteSets

CONSTANTS
    File,           \* the indexable files of a project
    Content,        \* what a file may contain; a hash stands for its content
    None,           \* no such file, or no hash
    Torn,           \* file_hashes.json cut off by an unfinished write
    MaxEdits,       \* edits, creations and deletions of files
    MaxStops,       \* deaths of the process in the middle of an operation
    MaxFailures     \* failed reads, embeddings, and writes

ASSUME NoneIsNoContent == None \notin Content
ASSUME TornIsNoTable == Torn \notin [File -> Content \cup {None}]
ASSUME BoundsAreNaturals ==
    MaxEdits \in Nat /\ MaxStops \in Nat /\ MaxFailures \in Nat

VARIABLES
    file,           \* the file system: each file's content
    chunks,         \* the collection: per path, the contents whose chunk is stored
    hashes,         \* Store.hashes
    hashFile,       \* file_hashes.json
    symbols,        \* symbol.Index.data: per path, the contents whose symbol is known
    symbolFile,     \* the symbol index's file
    op,             \* the operation at work
    step,           \* how far it has come
    caller,         \* which call of DeleteByPaths or AddChunks saves the hashes
    walked,         \* the contents the walk, or ReadFile, has read
    changed,        \* the paths whose chunks are deleted or replaced
    queue,          \* the paths the running delete or insert has still before it
    edits, stops, failures      \* how much of each bound is used up

diskVars   == <<chunks, hashFile, symbolFile>>
memoryVars == <<hashes, symbols>>
opVars     == <<op, step, caller, walked, changed, queue>>
boundVars  == <<edits, stops, failures>>
vars == <<file, diskVars, memoryVars, opVars, boundVars>>

Table == [File -> Content \cup {None}]
Blank == [f \in File |-> None]
Nowhere == [f \in File |-> {}]

TypeOK ==
    /\ file \in Table
    /\ chunks \in [File -> SUBSET Content]
    /\ hashes \in Table
    /\ hashFile \in Table \cup {Torn}
    /\ symbols \in [File -> SUBSET Content]
    /\ symbolFile \in [File -> SUBSET Content]
    /\ op \in {"none", "scan", "rebuild", "file", "drop"}
    /\ step \in {"down", "started", "idle", "delete", "truncate", "write", "walk",
                 "symbols", "embed", "add", "save"}
    /\ caller \in {"clear", "replace", "add"}
    /\ walked \in Table
    /\ changed \subseteq File
    /\ queue \subseteq File
    /\ edits \in 0..MaxEdits
    /\ stops \in 0..MaxStops
    /\ failures \in 0..MaxFailures

MayFail == failures < MaxFailures /\ failures' = failures + 1

Init ==
    /\ file \in Table
    /\ chunks = Nowhere /\ hashFile = Blank /\ symbolFile = Nowhere
    /\ hashes = Blank /\ symbols = Nowhere
    /\ op = "none" /\ step = "down" /\ caller = "clear"
    /\ walked = Blank /\ changed = {} /\ queue = {}
    /\ edits = 0 /\ stops = 0 /\ failures = 0

-----------------------------------------------------------------------------
(* The process, and the world around it.                                   *)

\* What is left of an operation that ended or died.
EndOp == op' = "none" /\ caller' = "clear" /\ walked' = Blank /\ changed' = {} /\ queue' = {}

Forget == hashes' = Blank /\ symbols' = Nowhere

\* (Mutant: a hash file that does not parse is taken as it is.)
OpenUnparsed ==
    /\ step = "down"
    /\ hashes' = hashFile /\ symbols' = symbolFile
    /\ step' = "started"
    /\ UNCHANGED <<file, diskVars, op, caller, walked, changed, queue, boundVars>>

\* loadHashes: with a torn file store.New returns an error, and the daemon does not start.
LoadHashes == hashFile # Torn /\ hashes' = hashFile

LoadSymbols == symbols' = symbolFile

\* store.New and symbol.New.
Open ==
    /\ step = "down" /\ step' = "started"
    /\ LoadHashes /\ LoadSymbols
    /\ UNCHANGED <<file, diskVars, op, caller, walked, changed, queue, boundVars>>

\* A run that was interrupted keeps the daemon from scanning (App).
SkipScan ==
    /\ step = "started" /\ step' = "idle"
    /\ UNCHANGED <<file, diskVars, memoryVars, op, caller, walked, changed, queue,
                   boundVars>>

Exit ==
    /\ step = "idle" /\ step' = "down"
    /\ EndOp /\ Forget
    /\ UNCHANGED <<file, diskVars, boundVars>>

\* The process is killed, or shut down with a job at work.
Crash ==
    /\ step \notin {"down", "started", "idle"} /\ stops < MaxStops
    /\ stops' = stops + 1
    /\ step' = "down" /\ EndOp /\ Forget
    /\ UNCHANGED <<file, diskVars, edits, failures>>

Edit(f, c) ==
    /\ c # file[f] /\ edits < MaxEdits
    /\ edits' = edits + 1
    /\ file' = [file EXCEPT ![f] = c]
    /\ UNCHANGED <<diskVars, memoryVars, opVars, stops, failures>>

\* The operation gives up: in the start-up scan the daemon stops, else the error
\* is reported and the daemon goes on with what it has in memory.
Abort ==
    /\ EndOp
    /\ IF op = "scan"
       THEN step' = "down" /\ Forget
       ELSE step' = "idle" /\ UNCHANGED memoryVars

-----------------------------------------------------------------------------
(* The operations begin by deleting.                                       *)

\* RemoveByPath for every path, then DeleteByPaths.
Clear(o, P) ==
    /\ op' = o /\ caller' = "clear" /\ changed' = P /\ queue' = P
    /\ symbols' = [f \in File |-> IF f \in P THEN {} ELSE symbols[f]]
    /\ step' = IF P = {} THEN "walk" ELSE "delete"
    /\ UNCHANGED <<file, diskVars, hashes, walked, boundVars>>

\* Store.Paths.
Paths == {f \in File : hashes[f] # None}

\* initialIndex: cleanupDeletedFiles.
ScanStarts ==
    /\ step = "started"
    /\ Clear("scan", {f \in Paths : file[f] = None})

\* (Mutant: the rebuild relies on the comparison of hashes.)
RebuildStartsIncrementally ==
    /\ step = "idle"
    /\ Clear("rebuild", {f \in Paths : file[f] = None})

\* RebuildProject: deleteChunksByPrefix.
RebuildStarts ==
    /\ step = "idle"
    /\ Clear("rebuild", Paths)

\* reindexFileUnder, for the watcher or reindex_files; "drop" when Stat finds no file.
ReindexFile(f) ==
    /\ step = "idle"
    /\ Clear(IF file[f] = None THEN "drop" ELSE "file", {f})

-----------------------------------------------------------------------------
(* DeleteByPaths, AddChunks and saveHashes.                                *)

\* (Mutant: the hash entry stays.)
DeletePathKeepsHash(f) ==
    /\ step = "delete" /\ f \in queue
    /\ chunks' = [chunks EXCEPT ![f] = {}]
    /\ queue' = queue \ {f}
    /\ step' = IF queue' = {} THEN "truncate" ELSE "delete"
    /\ UNCHANGED <<file, hashFile, symbolFile, memoryVars, op, caller, walked, changed,
                   boundVars>>

DeletePath(f) ==
    /\ step = "delete" /\ f \in queue
    /\ chunks' = [chunks EXCEPT ![f] = {}]
    /\ hashes' = [hashes EXCEPT ![f] = None]
    /\ queue' = queue \ {f}
    /\ step' = IF queue' = {} THEN "truncate" ELSE "delete"
    /\ UNCHANGED <<file, hashFile, symbolFile, symbols, op, caller, walked, changed,
                   boundVars>>

\* What follows the call of DeleteByPaths or AddChunks that saves the hashes.
Onward == CASE caller = "add"     -> "save"
            [] caller = "replace" -> "symbols"
            [] caller = "clear"   -> IF op = "drop" THEN "save" ELSE "walk"

Return == step' = Onward /\ queue' = {} /\ UNCHANGED <<op, caller, walked, changed>>

\* os.WriteFile truncates the file before it writes.
TruncateHashes ==
    /\ step = "truncate" /\ step' = "write"
    /\ hashFile' = Torn
    /\ UNCHANGED <<file, chunks, symbolFile, memoryVars, op, caller, walked, changed,
                   queue, boundVars>>

WriteHashes ==
    /\ step = "write"
    /\ hashFile' = hashes
    /\ Return
    /\ UNCHANGED <<file, chunks, symbolFile, memoryVars, boundVars>>

\* DeleteByPaths returns early when the collection refuses, or fails to save.
\* Only deleteChunksByPrefix passes the error on; others log or ignore it.
DeleteFails ==
    /\ step \in {"delete", "truncate", "write"} /\ caller # "add"
    /\ MayFail
    /\ IF caller = "clear" /\ op = "rebuild"
       THEN Abort
       ELSE Return /\ UNCHANGED memoryVars
    /\ UNCHANGED <<file, diskVars, edits, stops>>

-----------------------------------------------------------------------------
(* Reading, chunking, embedding, inserting.                                *)

\* (Mutant: the old chunks of a changed file are not deleted.)
WalkKeepsOldChunks ==
    /\ step = "walk" /\ op \in {"scan", "rebuild"}
    /\ walked' = file
    /\ changed' = {f \in File : file[f] # None /\ hashes[f] # file[f]}
    /\ queue' = {}
    /\ caller' = "replace"
    /\ step' = IF changed' = {} THEN "save" ELSE "symbols"
    /\ UNCHANGED <<file, diskVars, memoryVars, op, boundVars>>

\* Index and chunkFilesParallel: a file is unchanged if its hash is in the table.
Walk ==
    /\ step = "walk" /\ op \in {"scan", "rebuild"}
    /\ walked' = file
    /\ changed' = {f \in File : file[f] # None /\ hashes[f] # file[f]}
    /\ queue' = changed'
    /\ caller' = "replace"
    /\ step' = IF changed' = {} THEN "save" ELSE "delete"
    /\ UNCHANGED <<file, diskVars, memoryVars, op, boundVars>>

\* reindexFileUnder's ReadFile.
ReadFile(f) ==
    /\ step = "walk" /\ op = "file" /\ changed = {f} /\ file[f] # None
    /\ walked' = [Blank EXCEPT ![f] = file[f]]
    /\ step' = "symbols"
    /\ UNCHANGED <<file, diskVars, memoryVars, op, caller, changed, queue, boundVars>>

\* RemoveByPath and AddChunks of the symbol index.
RecordSymbols ==
    /\ step = "symbols" /\ step' = "embed"
    /\ symbols' = [f \in File |-> IF f \in changed THEN {walked[f]} ELSE symbols[f]]
    /\ UNCHANGED <<file, diskVars, hashes, op, caller, walked, changed, queue, boundVars>>

\* embedChunks succeeds, and AddChunks enters the hashes before the chunks.
\* FileInfo carries no hash when a single file is reindexed.
EnterHashes ==
    /\ step = "embed" /\ step' = "add"
    /\ hashes' = IF op = "file" THEN hashes
                 ELSE [f \in File |-> IF f \in changed THEN walked[f] ELSE hashes[f]]
    /\ queue' = changed /\ caller' = "add"
    /\ UNCHANGED <<file, diskVars, symbols, op, walked, changed, boundVars>>

AddChunk(f) ==
    /\ step = "add" /\ f \in queue
    /\ chunks' = [chunks EXCEPT ![f] = @ \cup {walked[f]}]
    /\ queue' = queue \ {f}
    /\ step' = IF queue' = {} THEN "truncate" ELSE "add"
    /\ UNCHANGED <<file, hashFile, symbolFile, memoryVars, op, caller, walked, changed,
                   boundVars>>

\* (Mutant: the error is logged, and the operation ends like one that has indexed.)
IndexingErrorIgnored ==
    /\ \/ step \in {"walk", "embed", "add"}
       \/ step \in {"truncate", "write"} /\ caller = "add"
    /\ MayFail
    /\ step' = "save" /\ queue' = {}
    /\ UNCHANGED <<file, diskVars, memoryVars, op, caller, walked, changed, edits, stops>>

\* The walk, the embedding, the insert or its save of the dimension or the hashes fails.
IndexingFails ==
    /\ \/ step \in {"walk", "embed", "add"}
       \/ step \in {"truncate", "write"} /\ caller = "add"
    /\ MayFail
    /\ Abort
    /\ UNCHANGED <<file, diskVars, edits, stops>>

\* (Mutant: the callback of the watcher does not save.)
SaveSymbolsOfRebuilds ==
    /\ step = "save" /\ step' = "idle"
    /\ symbolFile' = IF op \in {"file", "drop"} THEN symbolFile ELSE symbols
    /\ EndOp
    /\ UNCHANGED <<file, chunks, hashFile, memoryVars, boundVars>>

\* symbolIndex.Save, to a temporary file that replaces the old one.
SaveSymbols ==
    /\ step = "save" /\ step' = "idle"
    /\ symbolFile' = symbols
    /\ EndOp
    /\ UNCHANGED <<file, chunks, hashFile, memoryVars, boundVars>>

SaveSymbolsFails ==
    /\ step = "save" /\ step' = "idle"
    /\ MayFail
    /\ EndOp
    /\ UNCHANGED <<file, diskVars, memoryVars, edits, stops>>

-----------------------------------------------------------------------------

Next ==
    \/ Open \/ SkipScan \/ Exit \/ Crash
    \/ \E f \in File, c \in Content \cup {None} : Edit(f, c)
    \/ ScanStarts \/ RebuildStarts \/ \E f \in File : ReindexFile(f)
    \/ \E f \in File : DeletePath(f) \/ AddChunk(f) \/ ReadFile(f)
    \/ TruncateHashes \/ WriteHashes \/ DeleteFails
    \/ Walk \/ RecordSymbols \/ EnterHashes \/ IndexingFails
    \/ SaveSymbols \/ SaveSymbolsFails

Spec == Init /\ [][Next]_vars

-----------------------------------------------------------------------------
(* Properties.                                                             *)

\* As long as nothing failed - a failed delete is only logged - a search never returns
\* two contents of one file, whatever operations a crash cut short: every insert
\* follows a delete of the same path (chunkFilesParallel, reindexFileUnder).
OneContentPerFile ==
    failures = 0 => \A f \in File : \A c, d \in chunks[f] : c = d

\* At the end of a rebuild every file it walked is in the collection and in the symbol
\* index with the content it had, whatever earlier failures and crashes left
\* behind: a rebuild heals what a scan does not (RebuildProject).
RebuildHeals ==
    op = "rebuild" /\ step = "save" =>
        \A f \in File : walked[f] # None => walked[f] \in chunks[f] \cap symbols[f]

\* Without crashes and failures the scan at the start of the daemon does the same,
\* after any edits, reindexed files, rebuilds and clean restarts: a hash in the
\* table stands for a chunk in the collection (initialIndex, chunkFilesParallel).
ScanDelivers ==
    op = "scan" /\ step = "save" /\ stops = 0 /\ failures = 0 =>
        \A f \in File : walked[f] # None => walked[f] \in chunks[f] \cap symbols[f]

\* Without crashes and failures the symbol index, in memory and in its file, is that of
\* the chunks whenever no operation is at work.
SymbolsMatchChunks ==
    step = "idle" /\ stops = 0 /\ failures = 0 =>
        symbols = chunks /\ symbolFile = chunks

\* Whatever its writes and whatever interrupts them, an operation keeps the promises of
\* SearchIndex, on which App relies: it touches its own files only, replaces nothing but
\* what it has deleted, and has made everything it read searchable when it ends.
HasRead == caller # "clear" \/ step \in {"symbols", "embed"}
Promise == INSTANCE SearchIndex WITH
    disk <- file, found <- chunks, job <- op,
    scope <- IF op \in {"scan", "rebuild"} THEN File ELSE changed,
    hasRead <- HasRead, read <- IF HasRead THEN walked ELSE Blank,
    failed <- failures > 0, died <- stops > 0
ImplementsSearchIndex == Promise!Spec

-----------------------------------------------------------------------------
(* The inductive invariant behind the properties.                          *)

Deleting == step \in {"delete", "truncate", "write"} /\ caller # "add"
Inserting == step = "add" \/ (step \in {"truncate", "write", "save"} /\ caller = "add")

\* Which operation may be at which step, and what it then has at hand.
StepInv ==
    /\ op = "none" <=> step \in {"down", "started", "idle"}
    /\ op = "none" => caller = "clear" /\ changed = {} /\ queue = {}
    /\ op = "drop" => caller = "clear" /\ step \in {"delete", "truncate", "write", "save"}
    /\ caller = "replace" => op \in {"scan", "rebuild"}
    /\ step = "delete" => caller # "add"
    /\ step = "walk" => caller = "clear"
    /\ step \in {"symbols", "embed"} =>
         caller = "replace" \/ (caller = "clear" /\ op = "file")
    /\ caller = "add" <=> Inserting
    /\ step = "save" =>
         caller = "add" \/ (caller = "replace" /\ changed = {}) \/ op = "drop"
    /\ step \notin {"delete", "add"} => queue = {}
    /\ queue \subseteq changed
    /\ step \in {"symbols", "embed"} \/ caller # "clear" =>
         \A f \in changed : walked[f] # None

\* Unless a delete failed, a file's old chunks are gone before the new ones come.
ReplaceInv ==
    failures = 0 =>
        /\ Deleting \/ step \in {"walk", "symbols", "embed"} \/ op = "drop" =>
             \A f \in changed \ queue : chunks[f] = {}
        /\ Inserting => \A f \in changed :
             chunks[f] = IF f \in queue THEN {} ELSE {walked[f]}

\* What the running operation has put into the symbol index and the collection.
ProgressInv ==
    /\ step = "embed" \/ Inserting => \A f \in changed : symbols[f] = {walked[f]}
    /\ Inserting => \A f \in changed \ queue : walked[f] \in chunks[f]
    /\ op = "rebuild" /\ caller = "clear" => \A f \in File : hashes[f] # None => f \in queue
    /\ op = "rebuild" /\ caller # "clear" => \A f \in File : walked[f] # None => f \in changed

\* Without crashes and failures: memory, files and collection agree as far as the
\* running operation has not come between them.
CleanInv ==
    stops = 0 /\ failures = 0 =>
        /\ \A f \in File : hashes[f] = None \/ hashes[f] \in chunks[f]
                            \/ (step = "add" /\ f \in queue /\ hashes[f] = walked[f])
        /\ step \in {"started", "idle", "walk", "symbols", "embed", "save"} =>
             hashFile = hashes
        /\ step = "down" =>
             hashFile # Torn /\ \A f \in File : hashFile[f] = None \/ hashFile[f] \in chunks[f]
        /\ step \in {"down", "started", "idle"} => symbolFile = chunks
        /\ step # "down" => \A f \in File \ changed : symbols[f] = chunks[f]
        /\ (Deleting /\ caller = "clear") \/ step = "walk" \/ op = "drop" =>
             \A f \in changed : symbols[f] = {}
        /\ op = "scan" /\ caller # "clear" =>
             \A f \in File \ changed : walked[f] \in {None, hashes[f]}

\* All that, with the property that is part of it.
IInv == StepInv /\ ReplaceInv /\ OneContentPerFile /\ ProgressInv /\ CleanInv
=============================================================================
