---------------------------- MODULE MemoryProofs ----------------------------
(***************************************************************************)
(* Proofs about Memory, for any sets of sessions, notes and contents and   *)
(* any bounds.  The inductive invariant has, beside the types, one part    *)
(* for where the threads are, one for the notes, one for what the store    *)
(* and its files have in common, and one for the threads that are at the   *)
(* same path; each has a lemma with one step per action.                   *)
(***************************************************************************)
EXTENDS Memory, TLAPS

\* A thread past Export is at a path of its own kind: a note's handler at its note,
\* any other thread at a session; only a rebuild has notes on its list, to clear.
InPlace(t) ==
    /\ step[t] \in {"check", "delete", "embed"} =>
          path[t] \in (IF t \in Note THEN {t} ELSE Session) /\ text[t] \in Content
    /\ step[t] # "clear" => todo[t] \subseteq Session
    /\ step[t] = "clear" => t = Rebuilder
    /\ t \in Handlers /\ step[t] # "idle" => held[t] \in Manager
    /\ t \in Note => step[t] \in {"idle", "delete", "embed"} /\ todo[t] = {}
    /\ t \in {Sync, Ticker} /\ manager \in {"none", "opening"} => step[t] = "idle"

\* Between two lives no thread runs and no manager is open.
DownIsEmpty == manager = "down" =>
    /\ latest = 1 /\ docs = [m \in Manager |-> Nowhere]
    /\ \A t \in Thread : step[t] = "idle"

ThreadsInPlace == DownIsEmpty /\ \A t \in Thread : InPlace(t)

\* A note that is not written, or being written, has left no trace to be found by a
\* rebuild; once acknowledged and not dropped it is in the files.
Fresh(n) == n \notin written \/ step[n] # "idle"
NoteKept(n) ==
    /\ n \notin written => step[n] = "idle"
    /\ step[n] # "idle" => text[n] = First
    /\ Fresh(n) =>
          /\ n \notin acked /\ n \notin damaged
          /\ \A m \in Manager : hashes[m][n] = None
          /\ hashFile # Torn => hashFile[n] = None
          /\ \A t \in Thread : n \notin todo[t]
    /\ n \in acked /\ n \in damaged => n \in dropped
    /\ n \in acked \ dropped => First \in docFiles[n]
NotesKept == \A n \in Note : NoteKept(n)

\* The latest manager knows every file of the collection, also of a damaged path, but for
\* those a failed delete left behind.
FilesInMemory == \A p \in Path \ stray :
    ~late /\ Up => docFiles[p] \subseteq docs[latest][p]

StoreInv == HashHasChunk /\ MemoryMatchesFiles /\ FilesInMemory /\ stray \subseteq damaged

\* One thread at most is past the check of a path that is not marked, and behind its
\* delete the path has no chunks.
Lonely == \A p \in Path \ raced : \A t, u \in Replacing(p) :
    /\ t = u
    /\ ~late /\ p \notin stray /\ step[t] = "embed" =>
          docFiles[p] = {} /\ docs[latest][p] = {}

RaceInv == Lonely /\ OneContentPerPath

IInv == TypeOK /\ ThreadsInPlace /\ NotesKept /\ StoreInv /\ RaceInv

-----------------------------------------------------------------------------
(* The manager a thread writes through exists.                             *)

LEMMA UsingManager ==
    ASSUME TypeOK, ThreadsInPlace, NEW t \in Thread, step[t] # "idle"
    PROVE  Using(t) \in Manager
BY DEF Using, TypeOK, ThreadsInPlace, InPlace

\* What the calls of the store write is of the right type.
LEMMA StoreTypes ==
    ASSUME TypeOK, NEW m \in Manager, NEW P \in SUBSET Path
    PROVE  /\ FilesWithout(P, m) \in [Path -> SUBSET Content]
           /\ Dropping(P, m) => /\ docs' \in [Manager -> [Path -> SUBSET Content]]
                                /\ hashes' \in [Manager -> Table]
                                /\ docFiles' \in [Path -> SUBSET Content]
<1>1. FilesWithout(P, m) \in [Path -> SUBSET Content]
    BY DEF TypeOK, FilesWithout
<1>2. /\ Without(P, docs[m]) \in [Path -> SUBSET Content]
      /\ [p \in Path |-> IF p \in P THEN None ELSE hashes[m][p]] \in Table
    BY DEF TypeOK, Without, Table
<1> QED
    BY <1>1, <1>2 DEF TypeOK, Dropping

\* A delete that fails takes chunks of P away only; a path it has left no file of is either
\* done or as it was.
LEMMA FailedDelete ==
    ASSUME TypeOK, NEW t \in Thread, NEW m \in Manager, m = Using(t),
           NEW P \in SUBSET Path, DeleteFails(t, P)
    PROVE  /\ docs' \in [Manager -> [Path -> SUBSET Content]]
           /\ hashes' \in [Manager -> Table]
           /\ docFiles' \in [Path -> SUBSET Content]
           /\ stray \subseteq stray' /\ stray' \subseteq stray \cup P
           /\ \A p \in Path :
                 /\ docs'[m][p] \subseteq docs[m][p] /\ docFiles'[p] \subseteq docFiles[p]
                 /\ \A k \in Manager : hashes'[k][p] \in {hashes[k][p], None}
                 /\ p \notin P =>
                       /\ docs'[m][p] = docs[m][p] /\ docFiles'[p] = docFiles[p]
                       /\ \A k \in Manager : hashes'[k][p] = hashes[k][p]
                 /\ p \notin stray' =>
                       \/ docs'[m][p] = {} /\ docFiles'[p] = docFiles[p] \ docs[m][p]
                       \/ docs'[m][p] = docs[m][p] /\ docFiles'[p] = docFiles[p]
<1> DEFINE Goal == /\ docs' \in [Manager -> [Path -> SUBSET Content]]
                   /\ hashes' \in [Manager -> Table]
                   /\ docFiles' \in [Path -> SUBSET Content]
<1>t. /\ docs \in [Manager -> [Path -> SUBSET Content]]
      /\ hashes \in [Manager -> [Path -> Content \cup {None}]]
      /\ docFiles \in [Path -> SUBSET Content]
    BY DEF TypeOK, Table
<1>1. CASE Dropping(P, m) /\ UNCHANGED stray
    <2>1. Goal
        BY <1>1, StoreTypes
    <2>2. /\ docs' = [docs EXCEPT ![m] = [p \in Path |-> IF p \in P THEN {} ELSE docs[m][p]]]
          /\ hashes' = [hashes EXCEPT ![m] = [p \in Path |-> IF p \in P THEN None ELSE hashes[m][p]]]
          /\ docFiles' = [p \in Path |-> IF p \in P THEN docFiles[p] \ docs[m][p] ELSE docFiles[p]]
        BY <1>1 DEF Dropping, Without, FilesWithout
    <2> QED BY <1>1, <1>t, <2>1, <2>2
<1>2. CASE \E q \in P : \E D \in SUBSET (P \ {q}), gone \in SUBSET docs[m][q] :
             /\ \E c \in gone : DroppingUpTo(D, q, gone, c, m)
             /\ stray' = stray \cup {q}
    <2>a. PICK q \in P : \E D \in SUBSET (P \ {q}), gone \in SUBSET docs[m][q] :
              /\ \E c \in gone : DroppingUpTo(D, q, gone, c, m)
              /\ stray' = stray \cup {q}
        BY <1>2
    <2>b. PICK D \in SUBSET (P \ {q}), gone \in SUBSET docs[m][q] :
              /\ \E c \in gone : DroppingUpTo(D, q, gone, c, m)
              /\ stray' = stray \cup {q}
        BY <2>a
    <2>1. PICK c \in gone : DroppingUpTo(D, q, gone, c, m) /\ stray' = stray \cup {q}
        BY <2>b
    <2> DEFINE Left == [p \in Path |-> IF p \in D THEN {} ELSE
                                        IF p = q THEN docs[m][q] \ gone ELSE docs[m][p]]
               Files == [p \in Path |-> IF p \in D THEN docFiles[p] \ docs[m][p] ELSE
                             IF p = q THEN docFiles[q] \ (gone \ {c}) ELSE docFiles[p]]
               Known == [p \in Path |-> IF p \in D THEN None ELSE hashes[m][p]]
    <2>2. docs' = [docs EXCEPT ![m] = Left]
        <3>1. Without(D, [docs[m] EXCEPT ![q] = @ \ gone]) = Left
            BY <1>t, <2>1 DEF Without
        <3> QED BY <2>1, <3>1 DEF DroppingUpTo
    <2>3. hashes' = [hashes EXCEPT ![m] = Known]
        BY <2>1 DEF DroppingUpTo
    <2>4. docFiles' = Files
        <3>1. [FilesWithout(D, m) EXCEPT ![q] = @ \ (gone \ {c})] = Files
            BY <2>1 DEF FilesWithout
        <3> QED BY <2>1, <3>1 DEF DroppingUpTo
    <2>5. Left \in [Path -> SUBSET Content] /\ Files \in [Path -> SUBSET Content]
          /\ Known \in [Path -> Content \cup {None}]
        BY <1>t, <2>1
    <2>6. Goal
        BY <1>t, <2>2, <2>3, <2>4, <2>5 DEF Table
    <2>7. /\ docs'[m] = Left /\ hashes'[m] = Known
          /\ \A k \in Manager : k # m => hashes'[k] = hashes[k]
        BY <1>t, <2>2, <2>3
    <2> HIDE DEF Goal
    <2>8. ASSUME NEW p \in Path
          PROVE  /\ docs'[m][p] = Left[p] /\ hashes'[m][p] = Known[p] /\ docFiles'[p] = Files[p]
                 /\ \A k \in Manager : k # m => hashes'[k][p] = hashes[k][p]
        BY <2>4, <2>7
    <2> QED BY <1>t, <2>1, <2>6, <2>8 DEF Goal
<1> QED
    BY <1>1, <1>2 DEF DeleteFails

LEMMA OpenTypes ==
    ASSUME TypeOK, NEW m \in Manager
    PROVE  /\ ReadCollection(m) => docs' \in [Manager -> [Path -> SUBSET Content]]
           /\ LoadHashesAndStart(m) =>
                 /\ hashes' \in [Manager -> Table]
                 /\ step' \in [Thread -> {"idle", "wait", "clear", "next",
                                          "check", "delete", "embed"}]
                 /\ todo' \in [Thread -> SUBSET Path]
<1>1. hashFile # Torn => hashFile \in Table
    BY DEF TypeOK
<1>2. Session \in SUBSET Path
    BY DEF Path
<1> QED
    <2>1. ReadCollection(m) => docs' \in [Manager -> [Path -> SUBSET Content]]
        BY DEF TypeOK, ReadCollection
    <2>2. LoadHashesAndStart(m) => hashes' \in [Manager -> Table]
        BY <1>1 DEF TypeOK, LoadHashesAndStart
    <2>3. LoadHashesAndStart(m) =>
              step' \in [Thread -> {"idle", "wait", "clear", "next", "check", "delete", "embed"}]
        BY DEF TypeOK, LoadHashesAndStart
    <2>4. LoadHashesAndStart(m) => todo' \in [Thread -> SUBSET Path]
        BY <1>2 DEF TypeOK, LoadHashesAndStart
    <2> QED BY <2>1, <2>2, <2>3, <2>4

-----------------------------------------------------------------------------
(* Types.                                                                  *)

LEMMA TypeInit == Init => TypeOK
<1> SUFFICES ASSUME Init PROVE TypeOK
    OBVIOUS
<1>1. /\ Nowhere \in [Path -> SUBSET Content] /\ Blank \in Table
      /\ 1 \in Manager /\ 0 \in 0..MaxEdits /\ 0 \in 0..MaxMishaps
    BY BoundsAreNaturals DEF Nowhere, Blank, Table, Manager
<1> QED
    BY <1>1, NamesAreDistinct DEF Init, TypeOK

LEMMA TypeStep == TypeOK /\ ThreadsInPlace /\ [Next]_vars => TypeOK'
<1> SUFFICES ASSUME TypeOK, ThreadsInPlace, [Next]_vars PROVE TypeOK'
    OBVIOUS
<1> USE NamesAreDistinct, BoundsAreNaturals
        DEF fileVars, storeVars, managerVars, threadVars, historyVars, boundVars
<1>1. ASSUME NEW t \in Thread, Export(t) PROVE TypeOK'
    <2>1. PICK s \in todo[t] :
              /\ step[t] = "next"
              /\ todo' = [todo EXCEPT ![t] = @ \ {s}]
              /\ \/ /\ path' = [path EXCEPT ![t] = s]
                    /\ text' = [text EXCEPT ![t] = source[s]]
                    /\ Goto(t, "check")
                    /\ UNCHANGED <<held, mishaps>>
                 \/ Mishap /\ GoOn(t, todo[t] \ {s}) /\ UNCHANGED <<path, text>>
        BY <1>1 DEF Export, ExportSession
    <2>2. s \in Session /\ s \in Path /\ source[s] \in Content
        BY <1>1, <2>1 DEF Export, ExportSession, ThreadsInPlace, InPlace, TypeOK, Path
    <2>3. todo' \in [Thread -> SUBSET Path]
        BY <2>1 DEF TypeOK
    <2>4. UNCHANGED <<fileVars, storeVars, managerVars, historyVars, edits>>
        BY <1>1 DEF Export, ExportSession
    <2> QED
        BY <2>1, <2>2, <2>3, <2>4, SMTT(30) DEF TypeOK, Goto, GoOn, Mishap
<1>2. ASSUME NEW t \in Thread, Check(t) PROVE TypeOK'
    <2>1. path[t] \in Path
        BY <1>2 DEF Check, ThreadsInPlace, InPlace, Path
    <2> QED
        BY <1>2, <2>1 DEF TypeOK, Check, Goto, Leave, GoOn
<1>3. ASSUME NEW t \in Thread, Delete(t) PROVE TypeOK'
    <2>1. path[t] \in Path /\ Using(t) \in Manager
        BY <1>3, UsingManager DEF Delete, ThreadsInPlace, InPlace, Path
    <2>2. CASE DeleteByPaths(t, {path[t]}) /\ Goto(t, "embed")
               /\ raced' = (IF Replacing(path[t]) = {t} THEN raced \ {path[t]} ELSE raced)
               /\ UNCHANGED <<path, text, todo, held, acked, mishaps>>
        BY <1>3, <2>1, <2>2, StoreTypes DEF TypeOK, Delete, DeleteByPaths, Goto
    <2>3. CASE DeleteFails(t, {path[t]}) /\ Leave(t, FALSE) /\ UNCHANGED raced
        <3>1. /\ docs' \in [Manager -> [Path -> SUBSET Content]] /\ hashes' \in [Manager -> Table]
              /\ docFiles' \in [Path -> SUBSET Content] /\ stray' \subseteq stray \cup {path[t]}
            BY <2>1, <2>3, FailedDelete
        <3> QED
            BY <1>3, <2>1, <2>3, <3>1
               DEF TypeOK, Delete, DeleteFails, Leave, GoOn, Mishap
    <2> QED BY <1>3, <2>2, <2>3 DEF Delete
<1>4. ASSUME NEW t \in Thread, Embed(t) PROVE TypeOK'
    <2>1. path[t] \in Path /\ text[t] \in Content /\ Using(t) \in Manager
        BY <1>4, UsingManager DEF Embed, EmbeddingFails, ThreadsInPlace, InPlace, Path
    <2>2. CASE AddChunks(t, path[t], text[t]) /\ Leave(t, TRUE) /\ UNCHANGED mishaps
        BY <1>4, <2>1, <2>2 DEF TypeOK, Embed, EmbeddingFails, AddChunks, Leave, GoOn, Table
    <2>3. CASE AddFails(t, path[t], text[t]) /\ Leave(t, FALSE)
        BY <1>4, <2>1, <2>3 DEF TypeOK, Embed, EmbeddingFails, AddFails, Leave, GoOn, Table, Mishap
    <2>4. CASE Mishap /\ Leave(t, FALSE) /\ UNCHANGED <<storeVars, late, damaged, stray>>
        BY <1>4, <2>4 DEF TypeOK, Embed, EmbeddingFails, Leave, GoOn, Mishap
    <2> QED BY <1>4, <2>2, <2>3, <2>4 DEF Embed, EmbeddingFails
<1>5. ASSUME Clear PROVE TypeOK'
    <2>1. Rebuilder \in Thread /\ todo[Rebuilder] \in SUBSET Path
        BY DEF Thread, TypeOK
    <2>2. Using(Rebuilder) \in Manager
        BY <1>5, <2>1, UsingManager DEF Clear
    <2>3. CASE SyncAll(Rebuilder) /\ UNCHANGED <<storeVars, late, damaged, stray, mishaps>>
        BY <1>5, <2>1, <2>3 DEF TypeOK, Clear, SyncAll, GoOn, Path
    <2>4. CASE DeleteByPaths(Rebuilder, todo[Rebuilder]) /\ SyncAll(Rebuilder) /\ UNCHANGED mishaps
        BY <1>5, <2>1, <2>2, <2>4, StoreTypes DEF TypeOK, Clear, DeleteByPaths, SyncAll, GoOn, Path
    <2>5. CASE /\ DeleteFails(Rebuilder, todo[Rebuilder])
               /\ todo' = [todo EXCEPT ![Rebuilder] = {}] /\ GoOn(Rebuilder, {})
        <3>1. /\ docs' \in [Manager -> [Path -> SUBSET Content]] /\ hashes' \in [Manager -> Table]
              /\ docFiles' \in [Path -> SUBSET Content] /\ stray' \subseteq stray \cup todo[Rebuilder]
            BY <2>1, <2>2, <2>5, FailedDelete
        <3> QED
            BY <1>5, <2>1, <2>2, <2>5, <3>1
               DEF TypeOK, Clear, DeleteFails, GoOn, Mishap
    <2> QED BY <1>5, <2>3, <2>4, <2>5 DEF Clear
<1>6. ASSUME Tick PROVE TypeOK'
    BY <1>6 DEF TypeOK, Tick, SyncAll, GoOn, Path
<1>7. ASSUME TickerStops PROVE TypeOK'
    BY <1>7 DEF TypeOK, TickerStops, Goto
<1>8. ASSUME NEW t \in Thread, CrashInDelete(t) PROVE TypeOK'
    <2> DEFINE P == IF step[t] = "clear" THEN todo[t] ELSE {path[t]}
    <2>1. P \in SUBSET Path /\ Using(t) \in Manager
        <3>1. Using(t) \in Manager
            BY <1>8, UsingManager DEF CrashInDelete
        <3>2. CASE step[t] = "clear"
            BY <3>1, <3>2 DEF TypeOK
        <3>3. CASE step[t] = "delete"
            BY <3>1, <3>3 DEF ThreadsInPlace, InPlace, Path
        <3> QED BY <1>8, <3>2, <3>3 DEF CrashInDelete
    <2>2. PICK D \in SUBSET P : docFiles' = FilesWithout(D, Using(t))
        BY <1>8 DEF CrashInDelete
    <2>3. docFiles' \in [Path -> SUBSET Content]
        BY <2>1, <2>2, StoreTypes
    <2> QED
        BY <1>8, <2>1, <2>3
           DEF TypeOK, CrashInDelete, Down, Mishap, Nowhere, Blank, Table, Manager, NoManager
<1>9. ASSUME NEW t \in Thread, CrashInAdd(t) PROVE TypeOK'
    <2>1. path[t] \in Path /\ text[t] \in Content
        BY <1>9 DEF CrashInAdd, ThreadsInPlace, InPlace, Path
    <2> QED
        BY <1>9, <2>1 DEF TypeOK, CrashInAdd, Down, Mishap, Nowhere, Blank, Table, Manager, NoManager
<1>10. ASSUME NEW n \in Note, WriteNote(n) PROVE TypeOK'
    BY <1>10 DEF TypeOK, WriteNote, Goto, Mishap, Path, Thread, Handlers
<1>11. ASSUME Rebuild PROVE TypeOK'
    BY <1>11 DEF TypeOK, Rebuild, Goto, Path, Thread, Handlers
<1>12. ASSUME Boot PROVE TypeOK'
    <2>1. 1 \in Manager
        BY DEF Manager
    <2> QED
        BY <1>12, <2>1, OpenTypes DEF TypeOK, Boot
<1>13. ASSUME ReloadStops PROVE TypeOK'
    BY <1>13 DEF TypeOK, ReloadStops, Mishap
<1>14. ASSUME ReloadReads PROVE TypeOK'
    <2>1. CASE latest < MaxReloads + 1 /\ latest' = latest + 1 /\ manager' = "opening"
               /\ ReadCollection(latest + 1) /\ hashes' = [hashes EXCEPT ![latest + 1] = Blank]
               /\ UNCHANGED served
        <3>1. latest + 1 \in Manager
            BY <2>1 DEF TypeOK, Manager
        <3> QED
            BY <1>14, <2>1, <3>1, OpenTypes DEF TypeOK, ReloadReads, Blank, Table
    <2>2. CASE manager' = "none" /\ served' \in {served, NoManager} /\ UNCHANGED <<docs, hashes, latest>>
        BY <1>14, <2>2 DEF TypeOK, ReloadReads
    <2> QED BY <1>14, <2>1, <2>2 DEF ReloadReads
<1>19. ASSUME ReloadOpens PROVE TypeOK'
    BY <1>19, OpenTypes DEF TypeOK, ReloadOpens
<1>15. ASSUME ReloadServes PROVE TypeOK'
    BY <1>15 DEF TypeOK, ReloadServes, Nowhere, Blank, Table
<1>16. ASSUME Crash PROVE TypeOK'
    BY <1>16 DEF TypeOK, Crash, Down, Mishap, Nowhere, Blank, Table, Manager, NoManager
<1>17. ASSUME EditSession PROVE TypeOK'
    BY <1>17 DEF TypeOK, EditSession
<1>18. ASSUME UNCHANGED vars PROVE TypeOK'
    BY <1>18 DEF TypeOK, vars
<1> QED
    BY <1>1, <1>2, <1>3, <1>4, <1>5, <1>6, <1>7, <1>8, <1>9, <1>10, <1>11, <1>12, <1>13,
       <1>14, <1>15, <1>16, <1>17, <1>18, <1>19 DEF Next, Step, Reload

-----------------------------------------------------------------------------
(* Threads.                                                                *)

\* A thread that takes up its next file, or has none left, is in place.
LEMMA GoOnInPlace ==
    ASSUME TypeOK, ThreadsInPlace, NEW t \in Thread, NEW rest \in SUBSET Session,
           GoOn(t, rest), todo' = [todo EXCEPT ![t] = rest],
           step[t] # "idle", t \in Note => rest = {}, UNCHANGED manager
    PROVE  \A u \in Thread : /\ u = t => InPlace(u)'
                             /\ u # t => /\ step'[u] = step[u] /\ todo'[u] = todo[u]
                                         /\ u \in Handlers => held'[u] = held[u]
<1>1. /\ todo'[t] = rest
      /\ step'[t] \in {"next", "wait", "idle"}
      /\ t \in Note => step'[t] = "idle"
      /\ step'[t] # "idle" /\ t \in Handlers => held'[t] = held[t]
    BY NamesAreDistinct DEF GoOn, TypeOK, Handlers
<1>2. InPlace(t)'
    BY <1>1 DEF ThreadsInPlace, InPlace, Thread
<1> QED
    BY <1>2 DEF GoOn, TypeOK, Handlers

LEMMA PlaceInit == Init => ThreadsInPlace
BY DEF Init, ThreadsInPlace, DownIsEmpty, InPlace

LEMMA PlaceStep == TypeOK /\ TypeOK' /\ ThreadsInPlace /\ [Next]_vars => ThreadsInPlace'
<1> SUFFICES ASSUME TypeOK, TypeOK', ThreadsInPlace, [Next]_vars PROVE ThreadsInPlace'
    OBVIOUS
<1> USE DEF fileVars, storeVars, managerVars, threadVars, historyVars, boundVars
<1>a. ASSUME NEW t \in Thread, step[t] # "idle", UNCHANGED managerVars PROVE DownIsEmpty'
    BY <1>a DEF ThreadsInPlace, DownIsEmpty
<1>1. ASSUME NEW t \in Thread, Export(t) PROVE ThreadsInPlace'
    <2>1. PICK s \in todo[t] :
              /\ step[t] = "next"
              /\ todo' = [todo EXCEPT ![t] = @ \ {s}]
              /\ \/ /\ path' = [path EXCEPT ![t] = s]
                    /\ text' = [text EXCEPT ![t] = source[s]]
                    /\ Goto(t, "check")
                    /\ UNCHANGED <<held, mishaps>>
                 \/ Mishap /\ GoOn(t, todo[t] \ {s}) /\ UNCHANGED <<path, text>>
        BY <1>1 DEF Export, ExportSession
    <2>2. /\ s \in Session /\ source[s] \in Content /\ todo[t] \in SUBSET Session
          /\ t \notin Note /\ UNCHANGED manager
        BY <1>1, <2>1 DEF Export, ExportSession, ThreadsInPlace, InPlace, TypeOK
    <2>3. DownIsEmpty'
        BY <1>a, <1>1, <2>1 DEF Export, ExportSession
    <2>4. CASE /\ path' = [path EXCEPT ![t] = s] /\ text' = [text EXCEPT ![t] = source[s]]
               /\ Goto(t, "check") /\ UNCHANGED held
        BY <2>1, <2>2, <2>3, <2>4 DEF TypeOK, ThreadsInPlace, InPlace, Goto
    <2>5. CASE GoOn(t, todo[t] \ {s}) /\ UNCHANGED <<path, text>>
        <3>1. todo' = [todo EXCEPT ![t] = todo[t] \ {s}]
            BY <2>1
        <3> QED
            BY <2>1, <2>2, <2>3, <2>5, <3>1, GoOnInPlace DEF ThreadsInPlace, InPlace
    <2> QED BY <2>1, <2>4, <2>5
<1>b. ASSUME NEW t \in Thread, NEW ok \in BOOLEAN, Leave(t, ok), UNCHANGED managerVars,
             step[t] \in {"check", "delete", "embed"}
      PROVE  ThreadsInPlace'
    <2>1. /\ todo' = [todo EXCEPT ![t] = todo[t]] /\ GoOn(t, todo[t])
          /\ \A u \in Thread \ {t} : path'[u] = path[u] /\ text'[u] = text[u]
        BY <1>b DEF Leave, TypeOK
    <2>2. todo[t] \in SUBSET Session /\ (t \in Note => todo[t] = {})
        BY <1>b DEF ThreadsInPlace, InPlace
    <2>3. DownIsEmpty'
        BY <1>a, <1>b
    <2> QED
        BY <1>b, <2>1, <2>2, <2>3, GoOnInPlace DEF ThreadsInPlace, InPlace
<1>c. ASSUME NEW t \in Thread, NEW s \in {"delete", "embed"}, Goto(t, s),
             UNCHANGED <<managerVars, path, text, todo, held>>,
             step[t] \in {"check", "delete"}
      PROVE  ThreadsInPlace'
    <2>1. DownIsEmpty'
        BY <1>a, <1>c
    <2> QED
        BY <1>c, <2>1 DEF TypeOK, ThreadsInPlace, InPlace, Goto
<1>2. ASSUME NEW t \in Thread, Check(t) PROVE ThreadsInPlace'
    BY <1>2, <1>b, <1>c DEF Check
<1>3. ASSUME NEW t \in Thread, Delete(t) PROVE ThreadsInPlace'
    BY <1>3, <1>b, <1>c DEF Delete
<1>4. ASSUME NEW t \in Thread, Embed(t) PROVE ThreadsInPlace'
    BY <1>4, <1>b DEF Embed, EmbeddingFails
<1>5. ASSUME Clear PROVE ThreadsInPlace'
    <2>1. /\ Rebuilder \in Thread /\ Rebuilder \notin Note /\ step[Rebuilder] = "clear"
          /\ UNCHANGED <<managerVars, path, text>>
        BY <1>5, NamesAreDistinct DEF Clear, Thread
    <2>2. DownIsEmpty'
        BY <1>a, <2>1
    <2>3. PICK rest \in SUBSET Session :
              GoOn(Rebuilder, rest) /\ todo' = [todo EXCEPT ![Rebuilder] = rest]
        BY <1>5 DEF Clear, SyncAll
    <2> QED
        BY <2>1, <2>2, <2>3, GoOnInPlace DEF ThreadsInPlace, InPlace
<1>6. ASSUME Tick PROVE ThreadsInPlace'
    <2>1. Ticker \in Thread /\ Ticker \notin Note /\ step[Ticker] = "wait"
        BY <1>6, NamesAreDistinct DEF Tick, Thread
    <2>2. DownIsEmpty'
        BY <1>a, <1>6, <2>1 DEF Tick
    <2> QED
        BY <1>6, <2>1, <2>2, GoOnInPlace DEF ThreadsInPlace, InPlace, Tick, SyncAll
<1>7. ASSUME TickerStops PROVE ThreadsInPlace'
    <2>1. Ticker \in Thread /\ Ticker \notin Note /\ step[Ticker] = "wait"
        BY <1>7, NamesAreDistinct DEF TickerStops, Thread
    <2>2. DownIsEmpty'
        BY <1>a, <1>7, <2>1 DEF TickerStops
    <2> QED
        BY <1>7, <2>1, <2>2 DEF TypeOK, ThreadsInPlace, InPlace, TickerStops, Goto
<1>8. ASSUME Down PROVE ThreadsInPlace'
    BY <1>8 DEF Down, ThreadsInPlace, DownIsEmpty, InPlace
<1>9. ASSUME NEW n \in Note, WriteNote(n) PROVE ThreadsInPlace'
    <2>1. n \in Thread /\ n \in Handlers /\ manager # "down" /\ UNCHANGED managerVars
        BY <1>9 DEF WriteNote, Up, Thread, Handlers
    <2>2. served \in Manager
        BY <1>9 DEF WriteNote, TypeOK
    <2>3. CASE /\ Goto(n, "delete") /\ held' = [held EXCEPT ![n] = served]
               /\ path' = [path EXCEPT ![n] = n] /\ text' = [text EXCEPT ![n] = First]
               /\ UNCHANGED todo
        BY <2>1, <2>2, <2>3, NamesAreDistinct
           DEF TypeOK, ThreadsInPlace, DownIsEmpty, InPlace, Goto
    <2>4. CASE UNCHANGED <<step, path, text, todo, held>>
        BY <2>1, <2>4 DEF ThreadsInPlace, DownIsEmpty, InPlace
    <2> QED BY <1>9, <2>3, <2>4 DEF WriteNote
<1>10. ASSUME Rebuild PROVE ThreadsInPlace'
    <2>1. /\ Rebuilder \in Thread /\ Rebuilder \in Handlers /\ Rebuilder \notin Note
          /\ Rebuilder \notin {Sync, Ticker}
          /\ manager # "down" /\ UNCHANGED managerVars
        BY <1>10, NamesAreDistinct DEF Rebuild, Up, Thread, Handlers
    <2>2. served \in Manager
        BY <1>10 DEF Rebuild, TypeOK
    <2> QED
        BY <1>10, <2>1, <2>2
           DEF TypeOK, ThreadsInPlace, DownIsEmpty, InPlace, Rebuild, Goto
<1>d. ASSUME NEW m \in Manager, LoadHashesAndStart(m), UNCHANGED <<path, text, held>>,
             manager' \notin {"down", "none", "opening"},
             step[Sync] = "idle", step[Ticker] = "idle"
      PROVE  ThreadsInPlace'
    <2>1. /\ Sync \notin Note /\ Ticker \notin Note /\ Sync \notin Handlers
          /\ Ticker \notin Handlers /\ Sync # Rebuilder
        BY NamesAreDistinct DEF Handlers
    <2> QED
        BY <1>d, <2>1 DEF TypeOK, ThreadsInPlace, DownIsEmpty, InPlace, LoadHashesAndStart
<1>11. ASSUME Boot PROVE ThreadsInPlace'
    BY <1>11, <1>d, BoundsAreNaturals DEF Boot, ThreadsInPlace, DownIsEmpty, Thread, Manager
<1>12. ASSUME ReloadStops PROVE ThreadsInPlace'
    BY <1>12 DEF ReloadStops, ThreadsInPlace, DownIsEmpty, InPlace
<1>13. ASSUME ReloadReads PROVE ThreadsInPlace'
    <2>1. manager \in {"stopping", "none"} /\ step[Sync] = "idle" /\ step[Ticker] = "idle"
        BY <1>13 DEF ReloadReads, ThreadsInPlace, InPlace, Thread
    <2>2. manager' \in {"none", "opening"} /\ UNCHANGED threadVars
        BY <1>13 DEF ReloadReads
    <2> QED BY <2>1, <2>2 DEF ThreadsInPlace, DownIsEmpty, InPlace
<1>17. ASSUME ReloadOpens PROVE ThreadsInPlace'
    <2>1. manager = "opening" /\ step[Sync] = "idle" /\ step[Ticker] = "idle" /\ latest \in Manager
        BY <1>17 DEF ReloadOpens, ThreadsInPlace, InPlace, Thread, TypeOK
    <2> QED
        BY <1>17, <1>d, <2>1 DEF ReloadOpens
<1>14. ASSUME ReloadServes PROVE ThreadsInPlace'
    BY <1>14 DEF ReloadServes, ThreadsInPlace, DownIsEmpty, InPlace
<1>15. ASSUME EditSession PROVE ThreadsInPlace'
    BY <1>15 DEF EditSession, ThreadsInPlace, DownIsEmpty, InPlace
<1>16. ASSUME UNCHANGED vars PROVE ThreadsInPlace'
    BY <1>16 DEF vars, ThreadsInPlace, DownIsEmpty, InPlace
<1> QED
    BY <1>1, <1>2, <1>3, <1>4, <1>5, <1>6, <1>7, <1>8, <1>9, <1>10, <1>11, <1>12, <1>13,
       <1>14, <1>15, <1>16, <1>17 DEF Next, Step, Reload, Crash, CrashInDelete, CrashInAdd

-----------------------------------------------------------------------------
(* Notes.                                                                  *)

LEMMA NotesInit == Init => NotesKept
BY DEF Init, NotesKept, NoteKept, Fresh, Blank, Nowhere, Path, Thread

\* Only its own handler and a rebuild work on the chunks of a note.
LEMMA OthersAtSessions ==
    ASSUME TypeOK, ThreadsInPlace, NEW n \in Note, NEW t \in Thread, t # n,
           step[t] \in {"check", "delete", "embed"}
    PROVE  path[t] # n
BY NamesAreDistinct DEF ThreadsInPlace, InPlace

LEMMA NotesStep ==
    TypeOK /\ ThreadsInPlace /\ NotesKept /\ [Next]_vars => NotesKept'
<1> SUFFICES ASSUME TypeOK, ThreadsInPlace, NotesKept, [Next]_vars, NEW n \in Note
             PROVE  NoteKept(n)'
    BY DEF NotesKept
<1>n. n \in Path /\ n \in Thread /\ n \in Handlers /\ n \notin Session /\ NoteKept(n)
    BY NamesAreDistinct DEF Path, Thread, Handlers, NotesKept
<1> USE <1>n DEF fileVars, storeVars, managerVars, threadVars, historyVars, boundVars
<1>a. ASSUME NEW t \in Thread, t # n, NEW rest \in SUBSET Session, GoOn(t, rest)
      PROVE  step'[n] = step[n]
    BY <1>a DEF GoOn, TypeOK
<1>1. ASSUME NEW t \in Thread, Export(t) PROVE NoteKept(n)'
    <2>1. t # n
        BY <1>1 DEF Export, ExportSession, ThreadsInPlace, InPlace
    <2>2. /\ step'[n] = step[n] /\ text'[n] = text[n]
          /\ \A u \in Thread : todo'[u] \subseteq todo[u]
        BY <1>1, <2>1 DEF Export, ExportSession, GoOn, Goto, TypeOK
    <2> QED
        BY <1>1, <2>2 DEF Export, ExportSession, NoteKept, Fresh
<1>2. ASSUME NEW t \in Thread, Check(t) PROVE NoteKept(n)'
    <2>1. t # n
        BY <1>2 DEF Check, ThreadsInPlace, InPlace
    <2>2. t \notin Note
        BY <1>2 DEF Check, ThreadsInPlace, InPlace
    <2>3. step'[n] = step[n] /\ text'[n] = text[n] /\ UNCHANGED <<todo, acked>>
        BY <1>2, <2>1, <2>2 DEF Check, Leave, GoOn, Goto, TypeOK
    <2> QED
        BY <1>2, <2>3 DEF Check, NoteKept, Fresh
\* A thread that leaves its file without success.
<1>b. ASSUME NEW t \in Thread, Leave(t, FALSE), step[t] \in {"check", "delete", "embed"},
             UNCHANGED written
      PROVE  /\ UNCHANGED <<todo, acked>>
             /\ t = n => ~Fresh(n)' /\ step'[n] = "idle"
             /\ t # n => step'[n] = step[n] /\ text'[n] = text[n]
    <2>1. t \in Note => todo[t] = {} /\ t # Ticker
        BY NamesAreDistinct DEF ThreadsInPlace, InPlace
    <2> QED
        BY <1>b, <2>1 DEF Leave, GoOn, TypeOK, NoteKept, Fresh
\* Chunks of paths other than n are deleted.
<1>c. ASSUME NEW m \in Manager, NEW P \in SUBSET Path, Dropping(P, m), n \notin P
      PROVE  /\ \A k \in Manager : hashes'[k][n] = hashes[k][n]
             /\ docFiles'[n] = docFiles[n]
    BY <1>c DEF Dropping, FilesWithout, TypeOK, Table
<1>d. ASSUME NEW m \in Manager, NEW P \in SUBSET Path, Dropping(P, m)
      PROVE  \A k \in Manager : hashes[k][n] = None => hashes'[k][n] = None
    BY <1>d DEF Dropping, TypeOK, Table
<1>3. ASSUME NEW t \in Thread, Delete(t) PROVE NoteKept(n)'
    <2>1. /\ Using(t) \in Manager /\ path[t] \in Path /\ step[t] = "delete"
          /\ UNCHANGED <<written, dropped>>
        BY <1>3, UsingManager DEF Delete, ThreadsInPlace, InPlace, Path
    <2>2. t # n => n # path[t]
        BY <2>1, OthersAtSessions
    <2>3. t = n => Fresh(n)
        BY <2>1 DEF Fresh
    <2>4. CASE DeleteByPaths(t, {path[t]}) /\ Goto(t, "embed") /\ UNCHANGED <<text, todo, acked>>
        <3>1. /\ step'[n] # "idle" <=> step[n] # "idle" /\ UNCHANGED damaged
              /\ hashFile' = hashes'[Using(t)]
            BY <2>1, <2>4 DEF DeleteByPaths, Goto, TypeOK
        <3> QED
            BY <1>c, <1>d, <2>1, <2>2, <2>3, <2>4, <3>1 DEF DeleteByPaths, NoteKept, Fresh
    <2>5. CASE DeleteFails(t, {path[t]}) /\ Leave(t, FALSE)
        <3>2. UNCHANGED hashFile /\ damaged' = damaged \cup {path[t]}
            BY <2>5 DEF DeleteFails
        <3>3. CASE t = n
            BY <1>b, <2>1, <2>3, <2>5, <3>2, <3>3 DEF NoteKept
        <3>4. CASE t # n
            <4>1. /\ \A k \in Manager : hashes'[k][n] = hashes[k][n]
                  /\ docFiles'[n] = docFiles[n]
                BY <2>1, <2>2, <2>5, <3>4, FailedDelete
            <4> QED BY <1>b, <2>1, <2>2, <2>5, <3>2, <3>4, <4>1 DEF NoteKept, Fresh
        <3> QED BY <3>3, <3>4
    <2> QED BY <1>3, <2>4, <2>5 DEF Delete
<1>4. ASSUME NEW t \in Thread, Embed(t) PROVE NoteKept(n)'
    <2>1. /\ Using(t) \in Manager /\ path[t] \in Path /\ text[t] \in Content
          /\ step[t] = "embed" /\ UNCHANGED <<written, dropped>>
        BY <1>4, UsingManager DEF Embed, EmbeddingFails, ThreadsInPlace, InPlace, Path
    <2>2. t # n => n # path[t]
        BY <2>1, OthersAtSessions
    <2>3. t = n => path[t] = n /\ text[t] = First /\ n \in written /\ n \notin damaged
        BY <2>1 DEF ThreadsInPlace, InPlace, NoteKept, Fresh
    <2>4. CASE AddChunks(t, path[t], text[t]) /\ Leave(t, TRUE)
        <3>1. /\ hashFile' = hashes'[Using(t)] /\ UNCHANGED <<damaged, todo>>
            BY <2>4 DEF AddChunks, Leave
        <3>2. CASE t = n
            <4>1. step'[n] = "idle" /\ acked' = acked \cup {n}
                BY <2>1, <2>4, <3>2, NamesAreDistinct
                   DEF Leave, GoOn, TypeOK, ThreadsInPlace, InPlace
            <4>2. First \in docFiles'[n]
                BY <2>1, <2>3, <2>4, <3>2 DEF AddChunks, TypeOK
            <4> QED
                BY <2>1, <2>3, <3>1, <3>2, <4>1, <4>2 DEF NoteKept, Fresh
        <3>3. CASE t # n
            <4>1. step'[n] = step[n] /\ text'[n] = text[n] /\ (n \in acked' <=> n \in acked)
                BY <2>1, <2>4, <3>3 DEF Leave, GoOn, TypeOK
            <4>2. /\ docFiles'[n] = docFiles[n]
                  /\ \A m \in Manager : hashes'[m][n] = hashes[m][n]
                BY <2>1, <2>2, <2>4, <3>3 DEF AddChunks, TypeOK, Table
            <4> QED
                BY <2>1, <3>1, <4>1, <4>2 DEF NoteKept, Fresh
        <3> QED BY <3>2, <3>3
    <2>5. CASE AddFails(t, path[t], text[t]) /\ Leave(t, FALSE)
        <3>1. UNCHANGED hashFile /\ damaged' = damaged \cup {path[t]}
            BY <2>5 DEF AddFails
        <3>2. CASE t = n
            BY <1>b, <2>1, <2>3, <2>5, <3>1, <3>2 DEF NoteKept, Fresh
        <3>3. CASE t # n
            <4>1. /\ docFiles'[n] = docFiles[n]
                  /\ \A m \in Manager : hashes'[m][n] = hashes[m][n]
                BY <2>1, <2>2, <2>5, <3>3 DEF AddFails, TypeOK, Table
            <4> QED
                BY <1>b, <2>1, <2>2, <2>5, <3>1, <3>3, <4>1 DEF NoteKept, Fresh
        <3> QED BY <3>2, <3>3
    <2>6. CASE Leave(t, FALSE) /\ UNCHANGED <<storeVars, late, damaged, stray>>
        <3>1. CASE t = n
            BY <1>b, <2>1, <2>3, <2>6, <3>1 DEF NoteKept, Fresh
        <3>2. CASE t # n
            BY <1>b, <2>1, <2>6, <3>2 DEF NoteKept, Fresh
        <3> QED BY <3>1, <3>2
    <2> QED BY <1>4, <2>4, <2>5, <2>6 DEF Embed, EmbeddingFails
<1>5. ASSUME Clear PROVE NoteKept(n)'
    <2> DEFINE P == todo[Rebuilder]
    <2>1. /\ Rebuilder \in Thread /\ Rebuilder # n /\ step[Rebuilder] = "clear"
          /\ P \in SUBSET Path /\ Using(Rebuilder) \in Manager
          /\ dropped' = dropped \cup (P \cap Note) /\ UNCHANGED <<written, text, acked>>
        <3>1. Rebuilder \in Thread /\ Rebuilder # n /\ step[Rebuilder] = "clear"
            BY <1>5, NamesAreDistinct DEF Clear, Thread
        <3> QED
            BY <1>5, <3>1, UsingManager DEF Clear, TypeOK
    <2>2. step'[n] = step[n] /\ \A u \in Thread : n \in todo'[u] => n \in todo[u]
        BY <1>5, <2>1 DEF Clear, SyncAll, GoOn, TypeOK
    <2>3. Fresh(n) => n \notin P
        BY <2>1 DEF NoteKept
    <2>4. CASE UNCHANGED <<storeVars, late, damaged, stray>>
        BY <2>1, <2>2, <2>4 DEF NoteKept, Fresh
    <2>5. CASE DeleteByPaths(Rebuilder, P)
        <3>1. UNCHANGED damaged /\ hashFile' = hashes'[Using(Rebuilder)]
            BY <2>5 DEF DeleteByPaths
        <3> QED
            BY <1>c, <1>d, <2>1, <2>2, <2>3, <2>5, <3>1 DEF DeleteByPaths, NoteKept, Fresh
    <2>6. CASE DeleteFails(Rebuilder, P)
        <3>1. /\ \A k \in Manager : hashes'[k][n] \in {hashes[k][n], None}
              /\ n \notin P => docFiles'[n] = docFiles[n]
            BY <2>1, <2>6, FailedDelete
        <3>2. UNCHANGED hashFile /\ damaged' = damaged \cup P
            BY <2>6 DEF DeleteFails
        <3> QED
            BY <2>1, <2>2, <2>3, <3>1, <3>2 DEF NoteKept, Fresh
    <2> QED BY <1>5, <2>4, <2>5, <2>6 DEF Clear
<1>6. ASSUME Tick PROVE NoteKept(n)'
    <2>1. Ticker \in Thread /\ Ticker # n
        BY NamesAreDistinct DEF Thread
    <2>2. step'[n] = step[n] /\ \A u \in Thread : n \in todo'[u] => n \in todo[u]
        BY <1>6, <2>1 DEF Tick, SyncAll, GoOn, TypeOK
    <2> QED
        BY <1>6, <2>2 DEF Tick, NoteKept, Fresh
<1>7. ASSUME TickerStops PROVE NoteKept(n)'
    <2>1. Ticker # n
        BY NamesAreDistinct
    <2> QED
        BY <1>7, <2>1 DEF TickerStops, Goto, TypeOK, NoteKept, Fresh
<1>e. ASSUME Down, hashFile' \in {hashFile, Torn},
             n \in damaged' /\ n \in acked => n \in dropped', n \in dropped => n \in dropped',
             n \in damaged' => n \in damaged \/ n \in written,
             n \in acked \ dropped' => First \in docFiles'[n]
      PROVE  NoteKept(n)'
    BY <1>e DEF Down, Blank, NoteKept, Fresh
<1>8. ASSUME NEW t \in Thread, CrashInDelete(t) PROVE NoteKept(n)'
    <2> DEFINE P == IF step[t] = "clear" THEN todo[t] ELSE {path[t]}
    <2>1. step[t] \in {"delete", "clear"} /\ Down /\ hashFile' \in {hashFile, Torn}
          /\ dropped' = (IF step[t] = "clear" THEN dropped \cup (P \cap Note) ELSE dropped)
          /\ damaged' = damaged \cup P
        BY <1>8 DEF CrashInDelete
    <2>2. PICK D \in SUBSET P : docFiles' = FilesWithout(D, Using(t))
        BY <1>8 DEF CrashInDelete
    <2>3. n \notin D => docFiles'[n] = docFiles[n]
        BY <2>2 DEF FilesWithout
    <2>4. CASE step[t] = "clear"
        BY <1>e, <2>1, <2>2, <2>3, <2>4 DEF NoteKept, Fresh
    <2>5. CASE step[t] = "delete" /\ t # n
        <3>1. n \notin P
            BY <2>5, OthersAtSessions
        <3> QED BY <1>e, <2>1, <2>2, <2>3, <2>5, <3>1 DEF NoteKept
    <2>6. CASE step[t] = "delete" /\ t = n
        BY <1>e, <2>1, <2>6 DEF NoteKept, Fresh
    <2> QED BY <2>1, <2>4, <2>5, <2>6
<1>9. ASSUME NEW t \in Thread, CrashInAdd(t) PROVE NoteKept(n)'
    <2>1. path[t] \in Path
        BY <1>9 DEF CrashInAdd, ThreadsInPlace, InPlace, Path
    <2>2. docFiles[n] \subseteq docFiles'[n]
        BY <1>9, <2>1 DEF CrashInAdd, TypeOK
    <2> QED
        BY <1>9, <1>e, <2>2 DEF CrashInAdd, NoteKept
<1>10. ASSUME NEW k \in Note, WriteNote(k) PROVE NoteKept(n)'
    <2>1. k # n => step'[n] = step[n] /\ text'[n] = text[n]
        BY <1>10 DEF WriteNote, Goto, TypeOK
    <2>2. k = n => (step'[n] = "delete" /\ text'[n] = First) \/ step'[n] = "idle"
        BY <1>10 DEF WriteNote, Goto, TypeOK, NoteKept
    <2> QED
        BY <1>10, <2>1, <2>2 DEF WriteNote, NoteKept, Fresh
<1>11. ASSUME Rebuild PROVE NoteKept(n)'
    <2>1. Rebuilder \in Thread /\ Rebuilder # n /\ served \in Manager
        BY <1>11, NamesAreDistinct DEF Rebuild, Thread, TypeOK
    <2>2. /\ step'[n] = step[n]
          /\ \A u \in Thread : n \in todo'[u] => n \in todo[u] \/ hashes[served][n] # None
        BY <1>11, <2>1 DEF Rebuild, Goto, TypeOK
    <2> QED
        BY <1>11, <2>1, <2>2 DEF Rebuild, NoteKept, Fresh
<1>f. ASSUME NEW m \in Manager, LoadHashesAndStart(m),
             UNCHANGED <<fileVars, docFiles, hashFile, text, acked, dropped, damaged>>
      PROVE  NoteKept(n)'
    <2>1. Sync # n /\ Ticker # n
        BY NamesAreDistinct
    <2>2. step'[n] = step[n] /\ \A u \in Thread : n \in todo'[u] => n \in todo[u]
        BY <1>f, <2>1 DEF LoadHashesAndStart, TypeOK
    <2>3. \A k \in Manager : hashes'[k][n] = hashes[k][n] \/ hashes'[k][n] = hashFile[n]
        BY <1>f DEF LoadHashesAndStart, TypeOK
    <2> QED
        BY <1>f, <2>2, <2>3 DEF LoadHashesAndStart, NoteKept, Fresh
<1>12. ASSUME Boot PROVE NoteKept(n)'
    BY <1>12, <1>f, BoundsAreNaturals DEF Boot, Manager
<1>13. ASSUME ReloadStops PROVE NoteKept(n)'
    BY <1>13 DEF ReloadStops, NoteKept, Fresh
<1>14. ASSUME ReloadReads PROVE NoteKept(n)'
    <2>1. \A k \in Manager : hashes'[k][n] \in {hashes[k][n], None}
        BY <1>14 DEF ReloadReads, Blank, TypeOK
    <2> QED BY <1>14, <2>1 DEF ReloadReads, NoteKept, Fresh
<1>19. ASSUME ReloadOpens PROVE NoteKept(n)'
    BY <1>19, <1>f DEF ReloadOpens, TypeOK
<1>15. ASSUME ReloadServes PROVE NoteKept(n)'
    <2>1. \A m \in Manager : hashes'[m][n] = hashes[m][n] \/ hashes'[m][n] = None
        BY <1>15 DEF ReloadServes, Blank
    <2> QED
        BY <1>15, <2>1 DEF ReloadServes, NoteKept, Fresh
<1>16. ASSUME EditSession PROVE NoteKept(n)'
    BY <1>16 DEF EditSession, NoteKept, Fresh
<1>17. ASSUME Crash PROVE NoteKept(n)'
    BY <1>17, <1>e DEF Crash, NoteKept
<1>18. ASSUME UNCHANGED vars PROVE NoteKept(n)'
    BY <1>18 DEF vars, NoteKept, Fresh
<1> QED
    BY <1>1, <1>2, <1>3, <1>4, <1>5, <1>6, <1>7, <1>8, <1>9, <1>10, <1>11, <1>12, <1>13,
       <1>14, <1>15, <1>16, <1>17, <1>18, <1>19 DEF Next, Step, Reload

-----------------------------------------------------------------------------
(* The store and its files.                                                *)

LEMMA StoreInit == Init => StoreInv
BY DEF Init, StoreInv, HashHasChunk, MemoryMatchesFiles, FilesInMemory, Up, Blank, Nowhere

\* Only a failed call leaves a chunk file behind.
LEMMA StrayStep == stray \subseteq damaged /\ [Next]_vars => stray' \subseteq damaged'
<1> SUFFICES ASSUME stray \subseteq damaged, [Next]_vars PROVE stray' \subseteq damaged'
    OBVIOUS
<1> USE DEF historyVars, DeleteFails, DeleteByPaths, AddChunks, AddFails, Down
<1>1. ASSUME NEW t \in Thread, Delete(t) \/ Embed(t) PROVE stray' \subseteq damaged'
    BY <1>1 DEF Delete, Embed, EmbeddingFails
<1>2. ASSUME Clear PROVE stray' \subseteq damaged'
    BY <1>2 DEF Clear
<1>3. ASSUME NEW t \in Thread, \/ Export(t) \/ Check(t) \/ Tick \/ TickerStops
                               \/ CrashInDelete(t) \/ CrashInAdd(t)
      PROVE  stray' \subseteq damaged'
    BY <1>3 DEF Export, Check, Tick, TickerStops, CrashInDelete, CrashInAdd
<1>4. ASSUME \/ Rebuild \/ Boot \/ ReloadStops \/ ReloadReads \/ ReloadOpens \/ ReloadServes
             \/ Crash \/ EditSession \/ UNCHANGED vars \/ \E n \in Note : WriteNote(n)
      PROVE  stray' \subseteq damaged'
    BY <1>4 DEF Rebuild, Boot, ReloadStops, ReloadReads, ReloadOpens, ReloadServes, Crash,
                EditSession, vars, WriteNote
<1> QED
    BY <1>1, <1>2, <1>3, <1>4 DEF Next, Step, Reload

LEMMA StoreStep == TypeOK /\ ThreadsInPlace /\ StoreInv /\ [Next]_vars => StoreInv'
<1> DEFINE HashOf(p) ==
        /\ Up /\ hashes[latest][p] # None => hashes[latest][p] \in docs[latest][p]
        /\ hashFile # Torn /\ hashFile[p] # None => hashFile[p] \in docFiles[p]
    Matches(p) == Up => docs[latest][p] = docFiles[p]
    InMemory(p) == Up => docFiles[p] \subseteq docs[latest][p]
    Sound(p) == /\ p \notin stray => InMemory(p)
                /\ p \notin damaged => HashOf(p) /\ Matches(p)
<1> SUFFICES ASSUME TypeOK, ThreadsInPlace, StoreInv, [Next]_vars, ~late', NEW p \in Path
             PROVE  Sound(p)'
    BY StrayStep DEF StoreInv, HashHasChunk, MemoryMatchesFiles, FilesInMemory
<1>l. ~late
    BY DEF Next, Step, Reload, vars, historyVars, Export, ExportSession, Check, Delete, Embed, EmbeddingFails, Clear, Tick,
           TickerStops, CrashInDelete, CrashInAdd, WriteNote, Rebuild, Boot, ReloadStops,
           ReloadReads, ReloadOpens, ReloadServes, Crash, EditSession, Down, DeleteByPaths, DeleteFails,
           AddChunks, AddFails
<1>s. \A q \in Path : Sound(q)
    BY <1>l DEF StoreInv, HashHasChunk, MemoryMatchesFiles, FilesInMemory
<1>m. latest \in Manager
    BY DEF TypeOK
<1> USE <1>s, <1>m DEF fileVars, storeVars, managerVars, threadVars, historyVars, boundVars
<1>a. ASSUME UNCHANGED <<docs, hashes, docFiles, hashFile, latest, late, stray>>, Up' => Up,
             damaged \subseteq damaged'
      PROVE  Sound(p)'
    BY <1>a DEF Up
\* A thread is at work: the process is up.
<1>u. ASSUME NEW t \in Thread, step[t] # "idle" PROVE Up
    BY <1>u DEF ThreadsInPlace, DownIsEmpty, Up
\* A delete takes the same chunks from the collection and from the files.
<1>b. ASSUME NEW P \in SUBSET Path, Dropping(P, latest), Up
      PROVE  /\ p \in P => docs'[latest][p] = {} /\ hashes'[latest][p] = None
                           /\ docFiles'[p] = docFiles[p] \ docs[latest][p]
             /\ p \notin P => /\ docs'[latest][p] = docs[latest][p]
                              /\ hashes'[latest][p] = hashes[latest][p]
                              /\ docFiles'[p] = docFiles[p]
    BY <1>b DEF Dropping, FilesWithout, Without, TypeOK
<1>c. ASSUME NEW P \in SUBSET Path, NEW t \in Thread, step[t] # "idle",
             DeleteByPaths(t, P), UNCHANGED managerVars
      PROVE  Sound(p)'
    <2>1. Using(t) = latest /\ Up /\ Up' /\ UNCHANGED <<latest, damaged>>
        BY <1>c, <1>u DEF DeleteByPaths, Up
    <2>2. Dropping(P, latest) /\ hashFile' = hashes'[latest]
          /\ (p \in stray /\ p \notin stray' => p \in P /\ docFiles'[p] = {})
        BY <1>c, <2>1 DEF DeleteByPaths
    <2> QED
        BY <1>b, <2>1, <2>2
<1>d. ASSUME NEW P \in SUBSET Path, NEW t \in Thread, step[t] # "idle",
             DeleteFails(t, P), UNCHANGED managerVars
      PROVE  Sound(p)'
    <2>1. Using(t) = latest /\ Up /\ Up' /\ UNCHANGED latest
        BY <1>d, <1>u DEF DeleteFails, Up
    <2>2. UNCHANGED hashFile /\ damaged' = damaged \cup P
        BY <1>d DEF DeleteFails
    <2>3. /\ p \notin P => /\ docs'[latest][p] = docs[latest][p] /\ docFiles'[p] = docFiles[p]
                           /\ hashes'[latest][p] = hashes[latest][p]
          /\ p \notin stray' =>
                 /\ p \notin stray
                 /\ \/ docs'[latest][p] = {} /\ docFiles'[p] = docFiles[p] \ docs[latest][p]
                    \/ docs'[latest][p] = docs[latest][p] /\ docFiles'[p] = docFiles[p]
        BY <1>d, <2>1, FailedDelete
    <2> QED
        BY <2>1, <2>2, <2>3
<1>1. ASSUME NEW t \in Thread, Delete(t) PROVE Sound(p)'
    <2>1. {path[t]} \in SUBSET Path /\ step[t] # "idle" /\ UNCHANGED managerVars
        BY <1>1 DEF Delete, ThreadsInPlace, InPlace, Path
    <2> QED BY <1>1, <1>c, <1>d, <2>1 DEF Delete
<1>2. ASSUME Clear PROVE Sound(p)'
    <2>1. Rebuilder \in Thread /\ step[Rebuilder] # "idle" /\ UNCHANGED managerVars
        BY <1>2 DEF Clear, Thread
    <2>2. todo[Rebuilder] \in SUBSET Path
        BY <2>1 DEF TypeOK
    <2>3. CASE UNCHANGED <<storeVars, late, damaged, stray>>
        BY <1>a, <2>1, <2>3 DEF Up
    <2> QED BY <1>2, <1>c, <1>d, <2>1, <2>2, <2>3 DEF Clear
<1>3. ASSUME NEW t \in Thread, Embed(t) PROVE Sound(p)'
    <2>1. step[t] = "embed" /\ path[t] \in Path /\ text[t] \in Content /\ UNCHANGED managerVars
        BY <1>3 DEF Embed, EmbeddingFails, ThreadsInPlace, InPlace, Path
    <2>2. Up
        BY <1>u, <2>1
    <2>3. CASE AddChunks(t, path[t], text[t])
        <3>1. Using(t) = latest
            BY <2>3 DEF AddChunks
        <3> QED
            BY <2>1, <2>2, <2>3, <3>1 DEF AddChunks, TypeOK, Table, Up
    <2>4. CASE AddFails(t, path[t], text[t])
        <3>1. Using(t) = latest /\ UNCHANGED hashFile /\ damaged' = damaged \cup {path[t]}
            BY <2>4 DEF AddFails
        <3>2. PICK inMemory \in SUBSET {text[t]}, onDisk \in SUBSET {text[t]} :
                  /\ onDisk \subseteq inMemory
                  /\ docs' = [docs EXCEPT ![latest][path[t]] = @ \cup inMemory]
                  /\ docFiles' = [docFiles EXCEPT ![path[t]] = @ \cup onDisk]
            BY <2>4, <3>1 DEF AddFails
        <3>3. hashes' = [hashes EXCEPT ![latest][path[t]] = text[t]]
            BY <2>4, <3>1 DEF AddFails
        <3> QED
            <4>1. UNCHANGED stray
                BY <2>4 DEF AddFails
            <4>2. /\ p # path[t] => /\ docs'[latest][p] = docs[latest][p]
                                    /\ docFiles'[p] = docFiles[p]
                                    /\ hashes'[latest][p] = hashes[latest][p]
                  /\ p = path[t] => docs'[latest][p] = docs[latest][p] \cup inMemory
                                    /\ docFiles'[p] = docFiles[p] \cup onDisk
                BY <2>1, <3>2, <3>3 DEF TypeOK, Table
            <4> QED BY <2>1, <2>2, <3>1, <3>2, <4>1, <4>2 DEF Up
    <2>5. CASE UNCHANGED <<storeVars, late, damaged, stray>>
        BY <1>a, <2>1, <2>2, <2>5
    <2> QED BY <1>3, <2>3, <2>4, <2>5 DEF Embed, EmbeddingFails
<1>4. ASSUME NEW t \in Thread, CrashInDelete(t) PROVE Sound(p)'
    <2> DEFINE P == IF step[t] = "clear" THEN todo[t] ELSE {path[t]}
    <2>1. PICK D \in SUBSET P : /\ docFiles' = FilesWithout(D, Using(t))
                                /\ hashFile' \in {hashFile, Torn}
        BY <1>4 DEF CrashInDelete
    <2>2. damaged' = damaged \cup P /\ ~Up'
        BY <1>4 DEF CrashInDelete, Down, Up
    <2>3. p \notin D => docFiles'[p] = docFiles[p]
        BY <2>1 DEF FilesWithout
    <2> QED BY <2>1, <2>2, <2>3
<1>5. ASSUME NEW t \in Thread, CrashInAdd(t) PROVE Sound(p)'
    <2>1. ~Up' /\ UNCHANGED damaged /\ hashFile' \in {hashFile, Torn}
        BY <1>5 DEF CrashInAdd, Down, Up
    <2>2. docFiles[p] \subseteq docFiles'[p]
        BY <1>5 DEF CrashInAdd, TypeOK
    <2> QED BY <2>1, <2>2
<1>6. ASSUME Boot PROVE Sound(p)'
    <2>1. 1 \in Manager
        BY BoundsAreNaturals DEF Manager
    <2>2. docs'[1] = docFiles /\ hashes'[1] = hashFile
        BY <1>6, <2>1 DEF Boot, ReadCollection, LoadHashesAndStart, TypeOK
    <2>3. /\ latest' = 1 /\ hashFile # Torn
          /\ UNCHANGED <<docFiles, hashFile, damaged>>
        BY <1>6 DEF Boot, LoadHashesAndStart
    <2> QED BY <2>2, <2>3
<1>7. ASSUME ReloadReads PROVE Sound(p)'
    <2>1. CASE /\ latest < MaxReloads + 1 /\ latest' = latest + 1
               /\ ReadCollection(latest + 1) /\ hashes' = [hashes EXCEPT ![latest + 1] = Blank]
        <3>1. latest + 1 \in Manager
            BY <1>m, <2>1, BoundsAreNaturals DEF Manager
        <3>2. docs'[latest'] = docFiles /\ hashes'[latest'] = Blank
            BY <2>1, <3>1 DEF ReadCollection, TypeOK
        <3>3. UNCHANGED <<docFiles, hashFile, damaged>> /\ manager # "down"
            BY <1>7 DEF ReloadReads
        <3> QED BY <3>2, <3>3 DEF Blank, Up
    <2>2. CASE UNCHANGED <<docs, hashes, latest>>
        BY <1>7, <1>a, <2>2 DEF ReloadReads, Up
    <2> QED BY <1>7, <2>1, <2>2 DEF ReloadReads
<1>13. ASSUME ReloadOpens PROVE Sound(p)'
    <2>1. hashes'[latest] = hashFile /\ hashFile # Torn
        BY <1>13 DEF ReloadOpens, LoadHashesAndStart, TypeOK
    <2>2. UNCHANGED <<docs, latest, docFiles, hashFile, damaged, stray>> /\ manager = "opening"
        BY <1>13 DEF ReloadOpens
    <2>3. Up
        BY <2>2 DEF Up
    <2> QED BY <2>1, <2>2, <2>3
<1>8. ASSUME ReloadServes PROVE Sound(p)'
    <2>1. docs'[latest] = docs[latest] /\ hashes'[latest] = hashes[latest]
        BY <1>8 DEF ReloadServes
    <2> QED BY <1>8, <2>1 DEF ReloadServes, Up
<1>9. ASSUME Crash PROVE Sound(p)'
    BY <1>9 DEF Crash, Down, Up
<1>10. CASE UNCHANGED <<storeVars, latest, late, damaged, stray>> /\ (Up' => Up)
    BY <1>10, <1>a
<1>11. ASSUME NEW t \in Thread, Export(t) \/ Check(t)
       PROVE  UNCHANGED <<storeVars, latest, late, damaged, stray>> /\ (Up' => Up)
    BY <1>11 DEF Export, ExportSession, Check, Up
<1>12. ASSUME \/ Tick \/ TickerStops \/ Rebuild \/ ReloadStops \/ EditSession
              \/ UNCHANGED vars \/ \E n \in Note : WriteNote(n)
       PROVE  UNCHANGED <<storeVars, latest, late, damaged, stray>> /\ (Up' => Up)
    BY <1>12 DEF Tick, TickerStops, Rebuild, ReloadStops, EditSession, vars, WriteNote, Up
<1> QED
    BY <1>1, <1>2, <1>3, <1>4, <1>5, <1>6, <1>7, <1>8, <1>9, <1>10, <1>11, <1>12, <1>13
       DEF Next, Step, Reload

-----------------------------------------------------------------------------
(* Threads at the same path.                                               *)

LEMMA RaceInit == Init => RaceInv
<1> SUFFICES ASSUME Init PROVE RaceInv
    OBVIOUS
<1>1. \A p \in Path : Replacing(p) = {}
    BY DEF Init, Replacing
<1>2. 1 \in Manager
    BY BoundsAreNaturals DEF Manager
<1> QED
    BY <1>1, <1>2 DEF Init, RaceInv, Lonely, OneContentPerPath, Nowhere

LEMMA RaceStep ==
    TypeOK /\ TypeOK' /\ ThreadsInPlace /\ FilesInMemory /\ RaceInv /\ [Next]_vars => RaceInv'
<1> DEFINE Alone(p) == p \notin raced =>
        /\ \A t, u \in Replacing(p) : t = u
        /\ ~late /\ p \notin stray =>
              /\ \A t \in Replacing(p) : step[t] = "embed" =>
                     docFiles[p] = {} /\ docs[latest][p] = {}
              /\ \A c, d \in docs[latest][p] : c = d
              /\ \A c, d \in docFiles[p] : c = d
    Here(t, p) == path[t] = p /\ step[t] \in {"delete", "embed"}
<1> SUFFICES ASSUME TypeOK, TypeOK', ThreadsInPlace, FilesInMemory, RaceInv, [Next]_vars,
                    NEW p \in Path
             PROVE  Alone(p)'
    BY DEF RaceInv, Lonely, OneContentPerPath
<1>p. Alone(p)
    BY DEF RaceInv, Lonely, OneContentPerPath
<1>m. latest \in Manager /\ latest' \in Manager
    BY DEF TypeOK
<1> USE <1>m DEF fileVars, storeVars, managerVars, threadVars, historyVars, boundVars
\* Threads leave the path, chunks go: nothing that could break the invariant.
<1>a. ASSUME \A u \in Thread : Here(u, p)' => Here(u, p) /\ step'[u] = step[u],
             p \in raced => p \in raced', late => late',
             ~late' => docFiles'[p] \subseteq docFiles[p],
             ~late' => \/ docs'[latest'][p] \subseteq docs[latest][p]
                       \/ docs'[latest'][p] \subseteq docFiles[p],
             ~late' /\ p \in stray => p \in stray' \/ (docs'[latest'][p] = {} /\ docFiles'[p] = {})
      PROVE  Alone(p)'
    <2>1. Replacing(p)' \subseteq Replacing(p)
        BY <1>a DEF Replacing
    <2> QED BY <1>a, <1>p, <2>1 DEF Replacing
<1>b. ASSUME NEW t \in Thread, NEW rest, GoOn(t, rest), UNCHANGED path \/ path' = [path EXCEPT ![t] = None]
      PROVE  \A u \in Thread : Here(u, p)' => u # t /\ Here(u, p) /\ step'[u] = step[u]
    BY <1>b DEF GoOn, TypeOK
<1>1. ASSUME NEW t \in Thread, Export(t) PROVE Alone(p)'
    <2>1. \A u \in Thread : Here(u, p)' => Here(u, p) /\ step'[u] = step[u]
        BY <1>1 DEF Export, ExportSession, Goto, GoOn, TypeOK
    <2> QED BY <1>1, <1>a, <2>1 DEF Export, ExportSession
<1>2. ASSUME NEW t \in Thread, Check(t) PROVE Alone(p)'
    <2>1. step[t] = "check" /\ UNCHANGED <<storeVars, late, latest, stray>>
        BY <1>2 DEF Check
    <2>2. CASE Leave(t, TRUE) /\ UNCHANGED raced
        BY <1>a, <1>b, <2>1, <2>2 DEF Leave
    <2>3. CASE /\ Goto(t, "delete") /\ UNCHANGED path
               /\ raced' = IF Replacing(path[t]) = {} THEN raced ELSE raced \cup {path[t]}
        <3>1. /\ \A u \in Thread \ {t} : step'[u] = step[u]
              /\ step'[t] = "delete"
            BY <2>3 DEF Goto, TypeOK
        <3>2. CASE path[t] # p
            BY <1>a, <2>1, <2>3, <3>1, <3>2
        <3>3. CASE path[t] = p /\ Replacing(p) = {}
            <4>1. Replacing(p)' = {t}
                BY <2>3, <3>1, <3>3 DEF Replacing
            <4> QED BY <1>p, <2>1, <2>3, <3>1, <3>3, <4>1
        <3>4. CASE path[t] = p /\ Replacing(p) # {}
            BY <2>3, <3>4
        <3> QED BY <3>2, <3>3, <3>4
    <2> QED BY <1>2, <2>2, <2>3 DEF Check
\* A delete takes chunks away, in memory and in the files.
<1>c. ASSUME NEW t \in Thread, NEW P \in SUBSET Path, DeleteByPaths(t, P)
      PROVE  /\ late => late'
             /\ ~late' =>
                   /\ docs'[latest][p] \subseteq docs[latest][p] /\ docFiles'[p] \subseteq docFiles[p]
                   /\ p \in P => docs'[latest][p] = {} /\ docFiles'[p] = docFiles[p] \ docs[latest][p]
                   /\ p \in stray => p \in stray' \/ (docs'[latest][p] = {} /\ docFiles'[p] = {})
                   /\ p \in stray' => p \in stray
                   /\ p \notin P => docs'[latest][p] = docs[latest][p] /\ docFiles'[p] = docFiles[p]
    <2>1. ~late' => Dropping(P, latest)
        BY <1>c DEF DeleteByPaths, TypeOK
    <2>2. Dropping(P, latest) =>
              /\ p \in P => docs'[latest][p] = {} /\ docFiles'[p] = docFiles[p] \ docs[latest][p]
              /\ p \notin P => docs'[latest][p] = docs[latest][p] /\ docFiles'[p] = docFiles[p]
        BY DEF Dropping, FilesWithout, Without, TypeOK
    <2> QED BY <1>c, <2>1, <2>2 DEF DeleteByPaths
<1>d. ASSUME NEW t \in Thread, NEW P \in SUBSET Path, DeleteFails(t, P)
      PROVE  /\ late => late'
             /\ ~late' => docs'[latest][p] \subseteq docs[latest][p] /\ docFiles'[p] \subseteq docFiles[p]
             /\ stray \subseteq stray'
    <2>1. /\ late => late'
          /\ ~late' => Using(t) = latest
        BY <1>d DEF DeleteFails, TypeOK
    <2>2. stray \subseteq stray'
        BY <1>d DEF DeleteFails
    <2> QED BY <1>d, <2>1, <2>2, FailedDelete
<1>3. ASSUME NEW t \in Thread, Delete(t) PROVE Alone(p)'
    <2>1. /\ step[t] = "delete" /\ path[t] \in Path /\ {path[t]} \in SUBSET Path /\ Up
          /\ UNCHANGED <<manager, latest>>
        BY <1>3 DEF Delete, ThreadsInPlace, InPlace, DownIsEmpty, Path, Up
    <2>2. CASE DeleteFails(t, {path[t]}) /\ Leave(t, FALSE) /\ UNCHANGED raced
        BY <1>a, <1>b, <1>d, <2>1, <2>2 DEF Leave
    <2>3. CASE /\ DeleteByPaths(t, {path[t]}) /\ Goto(t, "embed") /\ UNCHANGED path
               /\ raced' = IF Replacing(path[t]) = {t} THEN raced \ {path[t]} ELSE raced
        <3>1. /\ \A u \in Thread \ {t} : step'[u] = step[u]
              /\ step'[t] = "embed" /\ (late => late')
            BY <1>c, <2>1, <2>3 DEF Goto, TypeOK
        <3>2. CASE path[t] # p
            <4>1. \A u \in Thread : Here(u, p)' => Here(u, p) /\ step'[u] = step[u]
                BY <2>3, <3>1, <3>2
            <4>2. p \in raced => p \in raced'
                BY <2>3, <3>2
            <4>3. ~late' => /\ docs'[latest'][p] \subseteq docs[latest][p]
                            /\ docFiles'[p] \subseteq docFiles[p]
                            /\ p \in stray => p \in stray' \/ (docs'[latest'][p] = {} /\ docFiles'[p] = {})
                BY <1>c, <2>1, <2>3
            <4> QED BY <1>a, <3>1, <4>1, <4>2, <4>3
        <3>3. CASE path[t] = p /\ p \notin raced'
            <4>1. t \in Replacing(p)
                BY <2>1, <3>3 DEF Replacing
            <4>2. Replacing(p) = {t}
                BY <1>p, <2>3, <3>3, <4>1
            <4>3. Replacing(p)' = {t}
                BY <2>1, <2>3, <3>1, <3>3, <4>2 DEF Replacing
            <4>4. ~late' /\ p \notin stray' => docs'[latest][p] = {} /\ docFiles'[p] = {}
                <5>1. ~late' => /\ docs'[latest][p] = {} /\ docFiles'[p] = docFiles[p] \ docs[latest][p]
                                /\ p \in stray => p \in stray' \/ docFiles'[p] = {}
                    BY <1>c, <2>1, <2>3, <3>3
                <5> QED BY <2>1, <3>1, <5>1 DEF FilesInMemory
            <4> QED BY <2>1, <4>3, <4>4
        <3> QED BY <3>2, <3>3
    <2> QED BY <1>3, <2>2, <2>3 DEF Delete
<1>4. ASSUME NEW t \in Thread, Embed(t) PROVE Alone(p)'
    <2>1. /\ step[t] = "embed" /\ path[t] \in Path /\ text[t] \in Content
          /\ UNCHANGED <<latest, raced>> /\ \E ok \in BOOLEAN : Leave(t, ok)
        BY <1>4 DEF Embed, EmbeddingFails, ThreadsInPlace, InPlace, Path
    <2>2. \A u \in Thread : Here(u, p)' => u # t /\ Here(u, p) /\ step'[u] = step[u]
        BY <1>b, <2>1 DEF Leave
    <2>3. CASE UNCHANGED <<storeVars, late, damaged, stray>>
        BY <1>a, <2>1, <2>2, <2>3
    <2>4. CASE AddChunks(t, path[t], text[t]) \/ AddFails(t, path[t], text[t])
        <3>1. /\ late => late'
              /\ ~late' => \E new, onDisk \in SUBSET {text[t]} :
                     /\ docs' = [docs EXCEPT ![latest][path[t]] = @ \cup new]
                     /\ docFiles' = [docFiles EXCEPT ![path[t]] = @ \cup onDisk]
            BY <2>4 DEF AddChunks, AddFails, TypeOK
        <3>2. CASE path[t] # p
            <4>1. ~late' => docs'[latest][p] = docs[latest][p] /\ docFiles'[p] = docFiles[p]
                BY <2>1, <3>1, <3>2 DEF TypeOK
            <4>2. UNCHANGED stray
                BY <2>4 DEF AddChunks, AddFails
            <4> QED BY <1>a, <2>1, <2>2, <3>1, <4>1, <4>2
        <3>3. CASE path[t] = p /\ p \notin raced
            <4>1. t \in Replacing(p)
                BY <2>1, <3>3 DEF Replacing
            <4>2. Replacing(p)' = {}
                BY <1>p, <2>2, <3>3, <4>1 DEF Replacing
            <4>3. ~late' /\ p \notin stray => docs[latest][p] = {} /\ docFiles[p] = {}
                BY <1>p, <2>1, <3>1, <3>3, <4>1
            <4>5. UNCHANGED stray
                BY <2>4 DEF AddChunks, AddFails
            <4>4. ~late' /\ p \notin stray =>
                      docs'[latest][p] \subseteq {text[t]} /\ docFiles'[p] \subseteq {text[t]}
                <5>1. ASSUME ~late', p \notin stray, NEW new \in SUBSET {text[t]}, NEW onDisk \in SUBSET {text[t]},
                             docs' = [docs EXCEPT ![latest][path[t]] = @ \cup new],
                             docFiles' = [docFiles EXCEPT ![path[t]] = @ \cup onDisk]
                      PROVE  docs'[latest][p] = new /\ docFiles'[p] = onDisk
                    <6>1. docs \in [Manager -> [Path -> SUBSET Content]] /\ docFiles \in [Path -> SUBSET Content]
                        BY DEF TypeOK
                    <6> QED BY <3>3, <4>3, <5>1, <6>1
                <5> QED BY <3>1, <5>1
            <4> QED BY <2>1, <4>2, <4>4, <4>5
        <3> QED BY <2>1, <3>2, <3>3
    <2> QED BY <1>4, <2>3, <2>4 DEF Embed, EmbeddingFails
<1>5. ASSUME Clear PROVE Alone(p)'
    <2>1. /\ Rebuilder \in Thread /\ step[Rebuilder] = "clear"
          /\ UNCHANGED <<latest, raced, path>>
          /\ \E rest : GoOn(Rebuilder, rest)
        BY <1>5 DEF Clear, SyncAll, Thread
    <2>2. todo[Rebuilder] \in SUBSET Path
        BY <2>1 DEF TypeOK
    <2>3. /\ late => late'
          /\ ~late' =>
                /\ docs'[latest][p] \subseteq docs[latest][p] /\ docFiles'[p] \subseteq docFiles[p]
                /\ p \in stray => p \in stray' \/ (docs'[latest][p] = {} /\ docFiles'[p] = {})
        <3>1. CASE UNCHANGED <<storeVars, late, damaged, stray>>
            BY <3>1
        <3>2. CASE DeleteByPaths(Rebuilder, todo[Rebuilder]) \/ DeleteFails(Rebuilder, todo[Rebuilder])
            BY <1>c, <1>d, <2>1, <2>2, <3>2
        <3> QED BY <1>5, <3>1, <3>2 DEF Clear
    <2> QED BY <1>a, <1>b, <2>1, <2>3
<1>6. ASSUME Tick PROVE Alone(p)'
    <2>1. Ticker \in Thread
        BY DEF Thread
    <2> QED
        BY <1>6, <1>a, <1>b, <2>1 DEF Tick, SyncAll
<1>7. ASSUME TickerStops PROVE Alone(p)'
    <2>1. \A u \in Thread : Here(u, p)' => Here(u, p) /\ step'[u] = step[u]
        BY <1>7 DEF TickerStops, Goto, TypeOK
    <2> QED BY <1>7, <1>a, <2>1 DEF TickerStops
<1>e. ASSUME Down, ~late => \A c, d \in docFiles'[p] : c = d \/ p \in raced \cup stray
      PROVE  Alone(p)'
    <2>1. Replacing(p)' = {}
        BY <1>e DEF Down, Replacing
    <2>2. docs'[latest'][p] = {}
        BY <1>e DEF Down, Nowhere
    <2> QED BY <1>e, <2>1, <2>2 DEF Down
<1>8. ASSUME NEW t \in Thread, CrashInDelete(t) PROVE Alone(p)'
    <2>1. docFiles'[p] \subseteq docFiles[p] /\ Down
        BY <1>8 DEF CrashInDelete, FilesWithout
    <2> QED BY <1>e, <1>p, <2>1
<1>9. ASSUME NEW t \in Thread, CrashInAdd(t) PROVE Alone(p)'
    <2>1. path[t] = p /\ p \notin raced \cup stray /\ ~late => docFiles[p] = {}
        BY <1>9, <1>p DEF CrashInAdd, Replacing
    <2>2. docFiles'[p] = IF path[t] = p THEN docFiles[p] \cup {text[t]} ELSE docFiles[p]
        BY <1>9 DEF CrashInAdd, TypeOK
    <2> QED BY <1>9, <1>e, <1>p, <2>1, <2>2 DEF CrashInAdd
<1>10. ASSUME NEW n \in Note, WriteNote(n) PROVE Alone(p)'
    <2>1. /\ n \in Thread /\ n \in Path
          /\ UNCHANGED <<storeVars, latest, late, raced, stray>>
        BY <1>10 DEF WriteNote, Thread, Path
    <2>2. CASE UNCHANGED <<step, path>>
        BY <1>a, <2>1, <2>2
    <2>3. CASE Goto(n, "delete") /\ path' = [path EXCEPT ![n] = n]
        <3>1. /\ \A u \in Thread \ {n} : step'[u] = step[u] /\ path'[u] = path[u]
              /\ step'[n] = "delete" /\ path'[n] = n
            BY <2>1, <2>3 DEF Goto, TypeOK
        <3>2. CASE p # n
            BY <1>a, <2>1, <3>1, <3>2
        <3>3. CASE p = n
            <4>1. Replacing(p)' = {n}
                BY <2>1, <3>1, <3>3, OthersAtSessions DEF Replacing
            <4> QED BY <1>p, <2>1, <3>1, <4>1
        <3> QED BY <3>2, <3>3
    <2> QED BY <1>10, <2>2, <2>3 DEF WriteNote
<1>11. ASSUME Rebuild PROVE Alone(p)'
    <2>1. \A u \in Thread : Here(u, p)' => Here(u, p) /\ step'[u] = step[u]
        BY <1>11 DEF Rebuild, Goto, TypeOK
    <2> QED BY <1>11, <1>a, <2>1 DEF Rebuild
<1>12. ASSUME Boot PROVE Alone(p)'
    <2>1. docs'[1] = docFiles /\ 1 \in Manager
        BY <1>12, BoundsAreNaturals DEF Boot, ReadCollection, Manager, TypeOK
    <2>2. \A u \in Thread : Here(u, p)' => Here(u, p) /\ step'[u] = step[u]
        BY <1>12 DEF Boot, LoadHashesAndStart, TypeOK
    <2> QED BY <1>12, <1>a, <2>1, <2>2 DEF Boot
<1>13. ASSUME ReloadReads PROVE Alone(p)'
    <2>1. CASE ReadCollection(latest + 1) /\ latest' = latest + 1
        <3>1. docs'[latest'] = docFiles
            BY <2>1 DEF ReadCollection, TypeOK
        <3> QED BY <1>13, <1>a, <3>1 DEF ReloadReads
    <2>2. CASE UNCHANGED <<docs, latest, step>>
        BY <1>13, <1>a, <2>2 DEF ReloadReads
    <2> QED BY <1>13, <2>1, <2>2 DEF ReloadReads
<1>17. ASSUME ReloadOpens PROVE Alone(p)'
    <2>1. \A u \in Thread : Here(u, p)' => Here(u, p) /\ step'[u] = step[u]
        BY <1>17 DEF ReloadOpens, LoadHashesAndStart, TypeOK
    <2> QED BY <1>17, <1>a, <2>1 DEF ReloadOpens
<1>14. ASSUME ReloadServes PROVE Alone(p)'
    <2>1. docs'[latest] = docs[latest]
        BY <1>14 DEF ReloadServes
    <2> QED BY <1>14, <1>a, <2>1 DEF ReloadServes
<1>15. ASSUME Crash PROVE Alone(p)'
    BY <1>15, <1>e, <1>p DEF Crash
<1>16. ASSUME ReloadStops \/ EditSession \/ UNCHANGED vars PROVE Alone(p)'
    BY <1>16, <1>a DEF ReloadStops, EditSession, vars
<1> QED
    BY <1>1, <1>2, <1>3, <1>4, <1>5, <1>6, <1>7, <1>8, <1>9, <1>10, <1>11, <1>12, <1>13,
       <1>14, <1>15, <1>16, <1>17 DEF Next, Step, Reload

-----------------------------------------------------------------------------
(* The theorems.                                                           *)

THEOREM InvariantHolds == Spec => []IInv
<1>1. Init => IInv
    BY TypeInit, PlaceInit, NotesInit, StoreInit, RaceInit DEF IInv
<1>2. IInv /\ [Next]_vars => IInv'
    BY TypeStep, PlaceStep, NotesStep, StoreStep, RaceStep DEF IInv, StoreInv
<1> QED
    BY <1>1, <1>2, PTL DEF Spec

\* Every variable has its type: threads are where the code can be, on files that exist.
THEOREM TypeSafety == Spec => []TypeOK
<1>1. IInv => TypeOK
    BY DEF IInv
<1> QED
    BY <1>1, InvariantHolds, PTL

\* IndexFile skips a file by its hash only when its chunks are in the collection, and
\* the next start of the process will find it so.
THEOREM HashMeansChunk == Spec => []HashHasChunk
<1>1. IInv => HashHasChunk
    BY DEF IInv, StoreInv
<1> QED
    BY <1>1, InvariantHolds, PTL

\* The collection in memory and its files are the same, whatever crashes, reloads and
\* failures at other paths have come before.
THEOREM FilesMatch == Spec => []MemoryMatchesFiles
<1>1. IInv => MemoryMatchesFiles
    BY DEF IInv, StoreInv
<1> QED
    BY <1>1, InvariantHolds, PTL

\* Without a lock around IndexFile, only a path that two threads were replacing at once, or
\* a file of which could not be removed, can have an old version beside the new one.
THEOREM NoMixedVersions == Spec => []OneContentPerPath
<1>1. IInv => OneContentPerPath
    BY DEF IInv, RaceInv
<1> QED
    BY <1>1, InvariantHolds, PTL

\* A note memory_write has acknowledged stays until a rebuild clears it.
THEOREM NotesSurvive == Spec => []NoteSurvives
<1>1. IInv => NoteSurvives
    <2> SUFFICES ASSUME IInv, NEW n \in acked \ dropped
                 PROVE  /\ First \in docFiles[n]
                        /\ ~late /\ Up /\ served = latest => First \in docs[served][n]
        BY DEF NoteSurvives
    <2>1. n \in Note /\ n \in Path
        BY DEF IInv, TypeOK, Path
    <2>2. First \in docFiles[n]
        BY <2>1 DEF IInv, NotesKept, NoteKept
    <2>3. n \notin stray
        BY <2>1 DEF IInv, StoreInv, NotesKept, NoteKept
    <2> QED
        BY <2>1, <2>2, <2>3 DEF IInv, StoreInv, FilesInMemory
<1> QED
    BY <1>1, InvariantHolds, PTL
=============================================================================
