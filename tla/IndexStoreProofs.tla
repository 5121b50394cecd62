-------------------------- MODULE IndexStoreProofs --------------------------
(***************************************************************************)
(* Proofs about IndexStore, for any set of files and contents and any      *)
(* bounds.  The inductive invariant IInv has four parts - the order of the *)
(* steps, the replacement of chunks, the achievements of the running       *)
(* operation, and the agreement of memory and files in a history without   *)
(* crashes and failures - and each part has a lemma with one step per      *)
(* action.  On it rests the refinement of SearchIndex.                     *)
(***************************************************************************)
EXTENDS IndexStore, TLAPS

\* Every step keeps the types: only contents that were read become chunks or symbols.
LEMMA TypeStep == TypeOK /\ StepInv /\ [Next]_vars => TypeOK'
<1> SUFFICES ASSUME TypeOK, StepInv, [Next]_vars PROVE TypeOK'
    OBVIOUS
<1> USE NoneIsNoContent, TornIsNoTable, BoundsAreNaturals
        DEF TypeOK, StepInv, Inserting, Table, Blank, Nowhere,
        diskVars, memoryVars, opVars, boundVars
<1>1. ASSUME Open PROVE TypeOK'
    BY <1>1 DEF Open, LoadHashes, LoadSymbols
<1>2. ASSUME SkipScan PROVE TypeOK'
    BY <1>2 DEF SkipScan
<1>3. ASSUME Exit PROVE TypeOK'
    BY <1>3 DEF Exit, EndOp, Forget
<1>4. ASSUME Crash PROVE TypeOK'
    BY <1>4 DEF Crash, EndOp, Forget
<1>5. ASSUME NEW f \in File, NEW c \in Content \cup {None}, Edit(f, c) PROVE TypeOK'
    BY <1>5 DEF Edit
<1>6. ASSUME ScanStarts PROVE TypeOK'
    BY <1>6 DEF ScanStarts, Paths, Clear
<1>7. ASSUME RebuildStarts PROVE TypeOK'
    BY <1>7 DEF RebuildStarts, Paths, Clear
<1>8. ASSUME NEW f \in File, ReindexFile(f) PROVE TypeOK'
    BY <1>8 DEF ReindexFile, Clear
<1>9. ASSUME NEW f \in File, DeletePath(f) PROVE TypeOK'
    BY <1>9 DEF DeletePath
<1>10. ASSUME NEW f \in File, AddChunk(f) PROVE TypeOK'
    BY <1>10 DEF AddChunk
<1>11. ASSUME NEW f \in File, ReadFile(f) PROVE TypeOK'
    BY <1>11 DEF ReadFile
<1>12. ASSUME TruncateHashes PROVE TypeOK'
    BY <1>12 DEF TruncateHashes
<1>13. ASSUME WriteHashes PROVE TypeOK'
    BY <1>13 DEF WriteHashes, Return, Onward
<1>14. ASSUME DeleteFails PROVE TypeOK'
    BY <1>14 DEF DeleteFails, MayFail, Abort, EndOp, Forget, Return, Onward
<1>15. ASSUME Walk PROVE TypeOK'
    BY <1>15 DEF Walk
<1>16. ASSUME RecordSymbols PROVE TypeOK'
    BY <1>16 DEF RecordSymbols
<1>17. ASSUME EnterHashes PROVE TypeOK'
    BY <1>17 DEF EnterHashes
<1>18. ASSUME IndexingFails PROVE TypeOK'
    BY <1>18 DEF IndexingFails, MayFail, Abort, EndOp, Forget
<1>19. ASSUME SaveSymbols PROVE TypeOK'
    BY <1>19 DEF SaveSymbols, EndOp
<1>20. ASSUME SaveSymbolsFails PROVE TypeOK'
    BY <1>20 DEF SaveSymbolsFails, MayFail, EndOp
<1>21. ASSUME UNCHANGED vars PROVE TypeOK'
    BY <1>21 DEF vars
<1> QED
    BY <1>1, <1>2, <1>3, <1>4, <1>5, <1>6, <1>7, <1>8, <1>9, <1>10, <1>11, <1>12,
       <1>13, <1>14, <1>15, <1>16, <1>17, <1>18, <1>19, <1>20, <1>21
       DEF Next

\* Every step keeps the order of the steps of an operation.
LEMMA StepStep == TypeOK /\ StepInv /\ [Next]_vars => StepInv'
<1> SUFFICES ASSUME TypeOK, StepInv, [Next]_vars PROVE StepInv'
    OBVIOUS
<1> USE NoneIsNoContent DEF TypeOK, StepInv, Inserting, Table, Blank,
        diskVars, memoryVars, opVars, boundVars
<1>1. ASSUME Open PROVE StepInv'
    BY <1>1 DEF Open, LoadHashes, LoadSymbols
<1>2. ASSUME SkipScan PROVE StepInv'
    BY <1>2 DEF SkipScan
<1>3. ASSUME Exit PROVE StepInv'
    BY <1>3 DEF Exit, EndOp, Forget
<1>4. ASSUME Crash PROVE StepInv'
    BY <1>4 DEF Crash, EndOp, Forget
<1>5. ASSUME NEW f \in File, NEW c \in Content \cup {None}, Edit(f, c) PROVE StepInv'
    BY <1>5 DEF Edit
<1>6. ASSUME ScanStarts PROVE StepInv'
    BY <1>6 DEF ScanStarts, Paths, Clear
<1>7. ASSUME RebuildStarts PROVE StepInv'
    BY <1>7 DEF RebuildStarts, Paths, Clear
<1>8. ASSUME NEW f \in File, ReindexFile(f) PROVE StepInv'
    BY <1>8 DEF ReindexFile, Clear
<1>9. ASSUME NEW f \in File, DeletePath(f) PROVE StepInv'
    BY <1>9 DEF DeletePath
<1>10. ASSUME NEW f \in File, AddChunk(f) PROVE StepInv'
    BY <1>10 DEF AddChunk
<1>11. ASSUME NEW f \in File, ReadFile(f) PROVE StepInv'
    BY <1>11 DEF ReadFile
<1>12. ASSUME TruncateHashes PROVE StepInv'
    BY <1>12 DEF TruncateHashes
<1>13. ASSUME WriteHashes PROVE StepInv'
    BY <1>13 DEF WriteHashes, Return, Onward
<1>14. ASSUME DeleteFails PROVE StepInv'
    BY <1>14 DEF DeleteFails, MayFail, Abort, EndOp, Forget, Return, Onward
<1>15. ASSUME Walk PROVE StepInv'
    BY <1>15 DEF Walk
<1>16. ASSUME RecordSymbols PROVE StepInv'
    BY <1>16 DEF RecordSymbols
<1>17. ASSUME EnterHashes PROVE StepInv'
    BY <1>17 DEF EnterHashes
<1>18. ASSUME IndexingFails PROVE StepInv'
    BY <1>18 DEF IndexingFails, MayFail, Abort, EndOp, Forget
<1>19. ASSUME SaveSymbols PROVE StepInv'
    BY <1>19 DEF SaveSymbols, EndOp
<1>20. ASSUME SaveSymbolsFails PROVE StepInv'
    BY <1>20 DEF SaveSymbolsFails, MayFail, EndOp
<1>21. ASSUME UNCHANGED vars PROVE StepInv'
    BY <1>21 DEF vars
<1> QED
    BY <1>1, <1>2, <1>3, <1>4, <1>5, <1>6, <1>7, <1>8, <1>9, <1>10, <1>11, <1>12,
       <1>13, <1>14, <1>15, <1>16, <1>17, <1>18, <1>19, <1>20, <1>21
       DEF Next

\* Without failed deletes no insert meets an old chunk of its file.
LEMMA ReplaceStep ==
    TypeOK /\ StepInv /\ ReplaceInv /\ OneContentPerFile /\ [Next]_vars =>
        (ReplaceInv /\ OneContentPerFile)'
<1> SUFFICES ASSUME TypeOK, StepInv, ReplaceInv, OneContentPerFile, [Next]_vars
             PROVE  (ReplaceInv /\ OneContentPerFile)'
    OBVIOUS
<1> USE BoundsAreNaturals DEF TypeOK, StepInv, ReplaceInv, OneContentPerFile,
        Deleting, Inserting, Table, Blank, Nowhere, diskVars, memoryVars, opVars, boundVars
<1>1. ASSUME Open PROVE (ReplaceInv /\ OneContentPerFile)'
    BY <1>1 DEF Open, LoadHashes, LoadSymbols
<1>2. ASSUME SkipScan PROVE (ReplaceInv /\ OneContentPerFile)'
    BY <1>2 DEF SkipScan
<1>3. ASSUME Exit PROVE (ReplaceInv /\ OneContentPerFile)'
    BY <1>3 DEF Exit, EndOp, Forget
<1>4. ASSUME Crash PROVE (ReplaceInv /\ OneContentPerFile)'
    BY <1>4 DEF Crash, EndOp, Forget
<1>5. ASSUME NEW f \in File, NEW c \in Content \cup {None}, Edit(f, c)
      PROVE  (ReplaceInv /\ OneContentPerFile)'
    BY <1>5 DEF Edit
<1>6. ASSUME ScanStarts PROVE (ReplaceInv /\ OneContentPerFile)'
    BY <1>6 DEF ScanStarts, Paths, Clear
<1>7. ASSUME RebuildStarts PROVE (ReplaceInv /\ OneContentPerFile)'
    BY <1>7 DEF RebuildStarts, Paths, Clear
<1>8. ASSUME NEW f \in File, ReindexFile(f) PROVE (ReplaceInv /\ OneContentPerFile)'
    BY <1>8 DEF ReindexFile, Clear
<1>9. ASSUME NEW f \in File, DeletePath(f) PROVE (ReplaceInv /\ OneContentPerFile)'
    BY <1>9 DEF DeletePath
<1>10. ASSUME NEW f \in File, AddChunk(f) PROVE (ReplaceInv /\ OneContentPerFile)'
    <2>1. /\ caller = "add" /\ caller' = "add" /\ Inserting /\ Inserting'
          /\ UNCHANGED <<changed, walked, failures>> /\ f \in changed
        BY <1>10 DEF AddChunk
    <2>2. \A g \in File : chunks'[g] = IF g = f THEN chunks[f] \cup {walked[f]} ELSE chunks[g]
        BY <1>10 DEF AddChunk
    <2>3. queue' = queue \ {f} /\ f \in queue
        BY <1>10 DEF AddChunk
    <2>4. failures = 0 => chunks[f] = {}
        BY <2>1, <2>3
    <2>5. OneContentPerFile'
        BY <2>1, <2>2, <2>4
    <2>6. failures = 0 => \A g \in changed :
              chunks'[g] = IF g \in queue' THEN {} ELSE {walked[g]}
        BY <2>1, <2>2, <2>3, <2>4
    <2> QED
        BY <1>10, <2>1, <2>5, <2>6 DEF AddChunk
<1>11. ASSUME NEW f \in File, ReadFile(f) PROVE (ReplaceInv /\ OneContentPerFile)'
    BY <1>11 DEF ReadFile
<1>12. ASSUME TruncateHashes PROVE (ReplaceInv /\ OneContentPerFile)'
    BY <1>12 DEF TruncateHashes
<1>13. ASSUME WriteHashes PROVE (ReplaceInv /\ OneContentPerFile)'
    BY <1>13 DEF WriteHashes, Return, Onward
<1>14. ASSUME DeleteFails PROVE (ReplaceInv /\ OneContentPerFile)'
    BY <1>14 DEF DeleteFails, MayFail, Abort, EndOp, Forget, Return, Onward
<1>15. ASSUME Walk PROVE (ReplaceInv /\ OneContentPerFile)'
    BY <1>15 DEF Walk
<1>16. ASSUME RecordSymbols PROVE (ReplaceInv /\ OneContentPerFile)'
    BY <1>16 DEF RecordSymbols
<1>17. ASSUME EnterHashes PROVE (ReplaceInv /\ OneContentPerFile)'
    BY <1>17 DEF EnterHashes
<1>18. ASSUME IndexingFails PROVE (ReplaceInv /\ OneContentPerFile)'
    BY <1>18 DEF IndexingFails, MayFail, Abort, EndOp, Forget
<1>19. ASSUME SaveSymbols PROVE (ReplaceInv /\ OneContentPerFile)'
    BY <1>19 DEF SaveSymbols, EndOp
<1>20. ASSUME SaveSymbolsFails PROVE (ReplaceInv /\ OneContentPerFile)'
    BY <1>20 DEF SaveSymbolsFails, MayFail, EndOp
<1>21. ASSUME UNCHANGED vars PROVE (ReplaceInv /\ OneContentPerFile)'
    BY <1>21 DEF vars
<1> QED
    BY <1>1, <1>2, <1>3, <1>4, <1>5, <1>6, <1>7, <1>8, <1>9, <1>10, <1>11, <1>12,
       <1>13, <1>14, <1>15, <1>16, <1>17, <1>18, <1>19, <1>20, <1>21
       DEF Next

\* Every step keeps what the running operation has achieved so far.
LEMMA ProgressStep == TypeOK /\ StepInv /\ ProgressInv /\ [Next]_vars => ProgressInv'
<1> SUFFICES ASSUME TypeOK, StepInv, ProgressInv, [Next]_vars PROVE ProgressInv'
    OBVIOUS
<1> USE NoneIsNoContent DEF TypeOK, StepInv, ProgressInv,
        Inserting, Table, Blank, Nowhere, diskVars, memoryVars, opVars, boundVars
<1>1. ASSUME Open PROVE ProgressInv'
    BY <1>1 DEF Open, LoadHashes, LoadSymbols
<1>2. ASSUME SkipScan PROVE ProgressInv'
    BY <1>2 DEF SkipScan
<1>3. ASSUME Exit PROVE ProgressInv'
    BY <1>3 DEF Exit, EndOp, Forget
<1>4. ASSUME Crash PROVE ProgressInv'
    BY <1>4 DEF Crash, EndOp, Forget
<1>5. ASSUME NEW f \in File, NEW c \in Content \cup {None}, Edit(f, c) PROVE ProgressInv'
    BY <1>5 DEF Edit
<1>6. ASSUME ScanStarts PROVE ProgressInv'
    BY <1>6 DEF ScanStarts, Paths, Clear
<1>7. ASSUME RebuildStarts PROVE ProgressInv'
    BY <1>7 DEF RebuildStarts, Paths, Clear
<1>8. ASSUME NEW f \in File, ReindexFile(f) PROVE ProgressInv'
    BY <1>8 DEF ReindexFile, Clear
<1>9. ASSUME NEW f \in File, DeletePath(f) PROVE ProgressInv'
    BY <1>9 DEF DeletePath
<1>10. ASSUME NEW f \in File, AddChunk(f) PROVE ProgressInv'
    BY <1>10 DEF AddChunk
<1>11. ASSUME NEW f \in File, ReadFile(f) PROVE ProgressInv'
    BY <1>11 DEF ReadFile
<1>12. ASSUME TruncateHashes PROVE ProgressInv'
    BY <1>12 DEF TruncateHashes
<1>13. ASSUME WriteHashes PROVE ProgressInv'
    BY <1>13 DEF WriteHashes, Return, Onward
<1>14. ASSUME DeleteFails PROVE ProgressInv'
    BY <1>14 DEF DeleteFails, MayFail, Abort, EndOp, Forget, Return, Onward
<1>15. ASSUME Walk PROVE ProgressInv'
    BY <1>15 DEF Walk
<1>16. ASSUME RecordSymbols PROVE ProgressInv'
    BY <1>16 DEF RecordSymbols
<1>17. ASSUME EnterHashes PROVE ProgressInv'
    BY <1>17 DEF EnterHashes
<1>18. ASSUME IndexingFails PROVE ProgressInv'
    BY <1>18 DEF IndexingFails, MayFail, Abort, EndOp, Forget
<1>19. ASSUME SaveSymbols PROVE ProgressInv'
    BY <1>19 DEF SaveSymbols, EndOp
<1>20. ASSUME SaveSymbolsFails PROVE ProgressInv'
    BY <1>20 DEF SaveSymbolsFails, MayFail, EndOp
<1>21. ASSUME UNCHANGED vars PROVE ProgressInv'
    BY <1>21 DEF vars
<1> QED
    BY <1>1, <1>2, <1>3, <1>4, <1>5, <1>6, <1>7, <1>8, <1>9, <1>10, <1>11, <1>12,
       <1>13, <1>14, <1>15, <1>16, <1>17, <1>18, <1>19, <1>20, <1>21
       DEF Next

\* Without crashes and failures memory, files and collection stay in agreement.
LEMMA CleanStep ==
    TypeOK /\ StepInv /\ ReplaceInv /\ ProgressInv /\ CleanInv /\ [Next]_vars => CleanInv'
<1> SUFFICES ASSUME TypeOK, StepInv, ReplaceInv, ProgressInv, CleanInv, [Next]_vars PROVE CleanInv'
    OBVIOUS
<1> USE NoneIsNoContent, BoundsAreNaturals DEF TypeOK, StepInv, ReplaceInv, ProgressInv,
        CleanInv, Deleting, Inserting, Table, Blank, Nowhere,
        diskVars, memoryVars, opVars, boundVars
<1>1. ASSUME Open PROVE CleanInv'
    BY <1>1 DEF Open, LoadHashes, LoadSymbols
<1>2. ASSUME SkipScan PROVE CleanInv'
    BY <1>2 DEF SkipScan
<1>3. ASSUME Exit PROVE CleanInv'
    BY <1>3, TornIsNoTable DEF Exit, EndOp, Forget
<1>4. ASSUME Crash PROVE CleanInv'
    BY <1>4 DEF Crash, EndOp, Forget
<1>5. ASSUME NEW f \in File, NEW c \in Content \cup {None}, Edit(f, c) PROVE CleanInv'
    BY <1>5 DEF Edit
<1>6. ASSUME ScanStarts PROVE CleanInv'
    BY <1>6 DEF ScanStarts, Paths, Clear
<1>7. ASSUME RebuildStarts PROVE CleanInv'
    BY <1>7 DEF RebuildStarts, Paths, Clear
<1>8. ASSUME NEW f \in File, ReindexFile(f) PROVE CleanInv'
    BY <1>8 DEF ReindexFile, Clear
<1>9. ASSUME NEW f \in File, DeletePath(f) PROVE CleanInv'
    BY <1>9 DEF DeletePath
<1>10. ASSUME NEW f \in File, AddChunk(f) PROVE CleanInv'
    <2>1. /\ caller = "add" /\ caller' = "add" /\ step = "add" /\ step' \in {"add", "truncate"}
          /\ f \in changed /\ f \in queue /\ queue' = queue \ {f}
          /\ UNCHANGED <<changed, walked, hashes, symbols, op, stops, failures>>
          /\ queue' # {} => step' = "add"
        BY <1>10 DEF AddChunk
    <2>2. \A g \in File : chunks'[g] = IF g = f THEN chunks[f] \cup {walked[f]} ELSE chunks[g]
        BY <1>10 DEF AddChunk
    <2>3. op # "drop"
        BY <2>1
    <2>4. ASSUME stops = 0, failures = 0, NEW g \in File
          PROVE  \/ hashes[g] = None \/ hashes[g] \in chunks'[g]
                 \/ (step' = "add" /\ g \in queue' /\ hashes[g] = walked[g])
        <3>1. CASE g # f
            BY <2>1, <2>2, <2>4, <3>1
        <3>2. CASE g = f
            BY <2>1, <2>2, <2>4, <3>2
        <3> QED
            BY <3>1, <3>2
    <2>5. stops = 0 /\ failures = 0 => \A g \in File \ changed : symbols[g] = chunks'[g]
        BY <2>1, <2>2
    <2> QED
        BY <2>1, <2>3, <2>4, <2>5
<1>11. ASSUME NEW f \in File, ReadFile(f) PROVE CleanInv'
    BY <1>11 DEF ReadFile
<1>12. ASSUME TruncateHashes PROVE CleanInv'
    BY <1>12 DEF TruncateHashes
<1>13. ASSUME WriteHashes PROVE CleanInv'
    BY <1>13 DEF WriteHashes, Return, Onward
<1>14. ASSUME DeleteFails PROVE CleanInv'
    BY <1>14 DEF DeleteFails, MayFail, Abort, EndOp, Forget, Return, Onward
<1>15. ASSUME Walk PROVE CleanInv'
    BY <1>15 DEF Walk
<1>16. ASSUME RecordSymbols PROVE CleanInv'
    BY <1>16 DEF RecordSymbols
<1>17. ASSUME EnterHashes PROVE CleanInv'
    BY <1>17 DEF EnterHashes
<1>18. ASSUME IndexingFails PROVE CleanInv'
    BY <1>18 DEF IndexingFails, MayFail, Abort, EndOp, Forget
<1>19. ASSUME SaveSymbols PROVE CleanInv'
    <2>1. ASSUME stops = 0, failures = 0 PROVE symbols = chunks
        <3>1. \A f \in File : symbols[f] = chunks[f]
            <4>1. step = "save" /\ queue = {}
                BY <1>19 DEF SaveSymbols
            <4> QED
                BY <2>1, <4>1
        <3> QED
            BY <3>1
    <2>2. step' = "idle" /\ changed' = {} /\ queue' = {} /\ op' = "none" /\ symbolFile' = symbols
        BY <1>19 DEF SaveSymbols, EndOp
    <2> QED
        BY <1>19, <2>1, <2>2 DEF SaveSymbols, EndOp
<1>20. ASSUME SaveSymbolsFails PROVE CleanInv'
    BY <1>20 DEF SaveSymbolsFails, MayFail, EndOp
<1>21. ASSUME UNCHANGED vars PROVE CleanInv'
    BY <1>21 DEF vars
<1> QED
    BY <1>1, <1>2, <1>3, <1>4, <1>5, <1>6, <1>7, <1>8, <1>9, <1>10, <1>11, <1>12,
       <1>13, <1>14, <1>15, <1>16, <1>17, <1>18, <1>19, <1>20, <1>21
       DEF Next

-----------------------------------------------------------------------------
(* The theorems.                                                           *)

Inv == TypeOK /\ IInv

\* An empty index satisfies the invariant, whatever files there are.
LEMMA InitHolds == Init => Inv
<1> SUFFICES ASSUME Init PROVE Inv
    OBVIOUS
<1> USE NoneIsNoContent, TornIsNoTable, BoundsAreNaturals DEF Init, Table, Blank, Nowhere
<1>1. TypeOK
    BY DEF TypeOK
<1>2. StepInv
    BY DEF StepInv, Inserting
<1>3. ReplaceInv /\ OneContentPerFile /\ ProgressInv
    BY DEF ReplaceInv, OneContentPerFile, ProgressInv, Deleting, Inserting
<1>4. CleanInv
    <2>1. hashFile # Torn
        OBVIOUS
    <2> QED
        BY <2>1 DEF CleanInv, Deleting
<1> QED
    BY <1>1, <1>2, <1>3, <1>4 DEF Inv, IInv

\* Types and the inductive invariant hold in every reachable state.
THEOREM Invariant == Spec => [](TypeOK /\ IInv)
<1>1. Inv /\ [Next]_vars => Inv'
    BY TypeStep, StepStep, ReplaceStep, ProgressStep, CleanStep DEF Inv, IInv
<1>2. Inv <=> TypeOK /\ IInv
    BY DEF Inv
<1> QED
    BY <1>1, <1>2, InitHolds, PTL DEF Spec

\* Every write leaves files and tables of the kind the next start can read, or a torn
\* hash file (all of IndexStore).
THEOREM TypeCorrect == Spec => []TypeOK
    BY Invariant, PTL

\* Crashes in the middle of any operation never leave two contents of one file
\* searchable; only a failure can.
THEOREM SearchFindsOneContent == Spec => []OneContentPerFile
    BY Invariant, PTL DEF IInv

\* A rebuild that comes to its end has healed whatever went before: RebuildProject
\* deletes what has a hash and replaces what differs, and that is everything.
THEOREM RebuildsHeal == Spec => []RebuildHeals
<1>1. ASSUME TypeOK, IInv, op = "rebuild", step = "save",
             NEW f \in File, walked[f] # None
      PROVE  walked[f] \in chunks[f] \cap symbols[f]
    <2>1. caller # "clear" /\ queue = {}
        BY <1>1 DEF IInv, StepInv
    <2>2. f \in changed
        BY <1>1, <2>1 DEF IInv, ProgressInv
    <2>3. Inserting
        BY <1>1, <2>2 DEF IInv, StepInv
    <2> QED
        BY <1>1, <2>1, <2>2, <2>3 DEF IInv, ProgressInv
<1>2. TypeOK /\ IInv => RebuildHeals
    BY <1>1 DEF RebuildHeals
<1> QED
    BY <1>2, Invariant, PTL

\* Without crashes and failures the start-up scan leaves every file it walked
\* searchable: what it skips because of a hash has its chunk.
THEOREM ScansDeliver == Spec => []ScanDelivers
<1>1. ASSUME TypeOK, IInv, op = "scan", step = "save", stops = 0, failures = 0,
             NEW f \in File, walked[f] # None
      PROVE  walked[f] \in chunks[f] \cap symbols[f]
    <2>1. caller # "clear" /\ queue = {}
        BY <1>1 DEF IInv, StepInv
    <2>2. CASE f \in changed
        <3>1. Inserting
            BY <1>1, <2>2 DEF IInv, StepInv
        <3> QED
            BY <1>1, <2>1, <2>2, <3>1 DEF IInv, ProgressInv
    <2>3. CASE f \notin changed
        BY <1>1, <2>1, <2>3 DEF IInv, CleanInv
    <2> QED
        BY <2>2, <2>3
<1>2. TypeOK /\ IInv => ScanDelivers
    BY <1>1 DEF ScanDelivers
<1> QED
    BY <1>2, Invariant, PTL

\* Without crashes and failures the symbol index is that of the chunks, in memory and in
\* its file, whenever the daemon is idle.
THEOREM SymbolsFollowChunks == Spec => []SymbolsMatchChunks
<1>1. ASSUME TypeOK, IInv, step = "idle", stops = 0, failures = 0
      PROVE  symbols = chunks /\ symbolFile = chunks
    <2>1. \A f \in File : symbols[f] = chunks[f]
        BY <1>1 DEF IInv, StepInv, CleanInv
    <2>2. symbols \in [File -> SUBSET Content] /\ chunks \in [File -> SUBSET Content]
        BY <1>1 DEF TypeOK
    <2>3. symbols = chunks
        BY <2>1, <2>2
    <2> QED
        BY <1>1, <2>3 DEF IInv, CleanInv
<1>2. TypeOK /\ IInv => SymbolsMatchChunks
    BY <1>1 DEF SymbolsMatchChunks
<1> QED
    BY <1>2, Invariant, PTL

\* Every step of the operations is one of SearchIndex, or none that it sees.
LEMMA PromiseStep == TypeOK /\ IInv /\ [Next]_vars => [Promise!Next]_Promise!vars
<1> SUFFICES ASSUME TypeOK, IInv, [Next]_vars PROVE [Promise!Next]_Promise!vars
    OBVIOUS
<1> DEFINE Scope == IF op \in {"scan", "rebuild"} THEN File ELSE changed
           Contents == IF HasRead THEN walked ELSE Blank
<1> USE DEF Promise!vars, Promise!jobVars
<1>0. stops \in Nat /\ failures \in Nat
    BY BoundsAreNaturals DEF TypeOK
<1>1. ASSUME Open \/ SkipScan PROVE UNCHANGED Promise!vars
    BY <1>1 DEF Open, SkipScan, HasRead, StepInv, IInv, diskVars, memoryVars, boundVars
<1>2. ASSUME Exit PROVE UNCHANGED Promise!vars
    BY <1>2 DEF Exit, EndOp, Forget, HasRead, StepInv, IInv, diskVars, boundVars
<1>3. ASSUME Crash PROVE Promise!Die
    <2>1. op # "none" /\ stops' > 0 /\ file' = file /\ chunks' = chunks /\ failures' = failures
        BY <1>0, <1>3 DEF Crash, StepInv, IInv, diskVars
    <2>2. Promise!End
        BY <1>3 DEF Crash, EndOp, HasRead, Promise!End, Promise!Nothing, Blank
    <2> QED
        BY <2>1, <2>2 DEF Promise!Die
<1>4. ASSUME NEW f \in File, NEW c \in Content \cup {None}, Edit(f, c) PROVE Promise!Edit(f, c)
    BY <1>4 DEF Edit, Promise!Edit, HasRead, diskVars, memoryVars, opVars
<1>5. ASSUME NEW o \in {"scan", "rebuild", "file", "drop"}, NEW P \in SUBSET File,
             op = "none", Clear(o, P)
      PROVE  Promise!Begin(o, IF o \in {"scan", "rebuild"} THEN File ELSE P)
    <2>1. ~HasRead /\ ~HasRead'
        BY <1>5 DEF Clear, HasRead, StepInv, IInv
    <2>2. op' = o /\ changed' = P /\ UNCHANGED <<file, chunks, stops, failures>>
        BY <1>5 DEF Clear, diskVars, boundVars
    <2>3. HasRead' = HasRead
        BY <2>1 DEF HasRead
    <2>4. Contents' = Contents
        BY <2>1 DEF Blank
    <2>5. Scope' = IF o \in {"scan", "rebuild"} THEN File ELSE P
        BY <2>2
    <2> QED
        BY <1>5, <2>2, <2>3, <2>4, <2>5 DEF Promise!Begin
<1>6. ASSUME ScanStarts PROVE Promise!Begin("scan", File)
    <2>1. op = "none"
        BY <1>6 DEF ScanStarts, StepInv, IInv
    <2> QED
        BY <1>5, <1>6, <2>1 DEF ScanStarts, Paths
<1>7. ASSUME RebuildStarts PROVE Promise!Begin("rebuild", File)
    <2>1. op = "none"
        BY <1>7 DEF RebuildStarts, StepInv, IInv
    <2> QED
        BY <1>5, <1>7, <2>1 DEF RebuildStarts, Paths
<1>8. ASSUME NEW f \in File, ReindexFile(f)
      PROVE  \E j \in {"file", "drop"} : Promise!Begin(j, {f})
    <2>1. op = "none"
        BY <1>8 DEF ReindexFile, StepInv, IInv
    <2> QED
        BY <1>5, <1>8, <2>1 DEF ReindexFile
<1>9. ASSUME NEW f \in File, DeletePath(f) PROVE Promise!Withdraw(f)
    <2>1. f \in Scope
        BY <1>9 DEF DeletePath, StepInv, IInv
    <2>2. HasRead' = HasRead
        BY <1>9 DEF DeletePath, HasRead
    <2> QED
        BY <1>9, <2>1, <2>2 DEF DeletePath, Promise!Withdraw, boundVars
<1>10. ASSUME NEW f \in File, AddChunk(f) PROVE Promise!Publish(f)
    <2>1. caller = "add" /\ f \in changed /\ walked[f] # None
        BY <1>10 DEF AddChunk, StepInv, Inserting, IInv
    <2>2. HasRead /\ HasRead'
        BY <1>10, <2>1 DEF AddChunk, HasRead
    <2>3. chunks[f] = {} \/ failures > 0
        <3>1. step = "add" /\ f \in queue
            BY <1>10 DEF AddChunk
        <3>2. failures = 0 => chunks[f] = IF f \in queue THEN {} ELSE {walked[f]}
            BY <2>1, <3>1 DEF ReplaceInv, Inserting, IInv
        <3> QED
            BY <1>0, <3>1, <3>2
    <2>4. f \in Scope
        BY <2>1
    <2> QED
        BY <1>10, <2>1, <2>2, <2>3, <2>4 DEF AddChunk, Promise!Publish, boundVars
<1>11. ASSUME NEW f \in File, ReadFile(f) PROVE Promise!Read
    <2>1. ~HasRead /\ HasRead'
        BY <1>11 DEF ReadFile, HasRead, StepInv, IInv
    <2>2. walked' = [g \in File |-> IF g \in Scope THEN file[g] ELSE None]
        BY <1>11 DEF ReadFile, Blank
    <2> QED
        BY <1>11, <2>1, <2>2 DEF ReadFile, Promise!Read, diskVars, boundVars
<1>12. ASSUME Walk PROVE Promise!Read
    <2>1. ~HasRead /\ HasRead'
        BY <1>12 DEF Walk, HasRead, StepInv, IInv
    <2>2. walked' = [g \in File |-> IF g \in Scope THEN file[g] ELSE None]
        BY <1>12 DEF Walk, TypeOK, Table
    <2> QED
        BY <1>12, <2>1, <2>2 DEF Walk, Promise!Read, diskVars, boundVars
<1>13. ASSUME TruncateHashes \/ WriteHashes PROVE UNCHANGED Promise!vars
    BY <1>13 DEF TruncateHashes, WriteHashes, Return, Onward, HasRead, StepInv, IInv,
       memoryVars, boundVars
<1>14. ASSUME RecordSymbols \/ EnterHashes PROVE UNCHANGED Promise!vars
    BY <1>14 DEF RecordSymbols, EnterHashes, HasRead, diskVars, boundVars
<1>15. ASSUME Abort, op # "none", failures' = failures + 1,
              UNCHANGED <<file, diskVars, edits, stops>>
       PROVE  Promise!Fail
    <2>1. Promise!End
        BY <1>15 DEF Abort, EndOp, HasRead, Promise!End, Promise!Nothing, Blank
    <2> QED
        BY <1>0, <1>15, <2>1 DEF Promise!Fail, diskVars
<1>16. ASSUME DeleteFails PROVE Promise!Fail
    <2>1. CASE caller = "clear" /\ op = "rebuild"
        BY <1>15, <1>16, <2>1 DEF DeleteFails, MayFail
    <2>2. CASE ~(caller = "clear" /\ op = "rebuild")
        <3>1. Return /\ failures' > 0 /\ UNCHANGED <<file, chunks, stops>>
            BY <1>0, <1>16, <2>2 DEF DeleteFails, MayFail, diskVars
        <3>2. HasRead' = HasRead
            BY <1>16, <3>1 DEF DeleteFails, Return, Onward, HasRead
        <3> QED
            BY <3>1, <3>2 DEF Return, Promise!Fail
    <2> QED
        BY <2>1, <2>2
<1>17. ASSUME IndexingFails PROVE Promise!Fail
    <2>1. op # "none"
        BY <1>17 DEF IndexingFails, StepInv, IInv
    <2> QED
        BY <1>15, <1>17, <2>1 DEF IndexingFails, MayFail
<1>18. ASSUME SaveSymbols PROVE Promise!Finish
    <2>1. Promise!End
        BY <1>18 DEF SaveSymbols, EndOp, HasRead, Promise!End, Promise!Nothing, Blank
    <2>2. UNCHANGED <<file, chunks, failures, stops>>
        BY <1>18 DEF SaveSymbols, boundVars
    <2>3. step = "save" /\ op # "none" /\ queue = {}
        BY <1>18 DEF SaveSymbols, StepInv, IInv
    <2>4. CASE op = "drop"
        <3>1. failures > 0 \/ \A f \in Scope : chunks[f] = {}
            BY <1>0, <2>3, <2>4 DEF ReplaceInv, IInv
        <3> QED
            BY <2>1, <2>2, <2>4, <3>1 DEF Promise!Finish
    <2>5. CASE op # "drop"
        <3>1. HasRead
            BY <2>3, <2>5 DEF HasRead, StepInv, IInv
        <3>2. ASSUME op \in {"rebuild", "file"} \/ ~(failures > 0 \/ stops > 0),
                     NEW f \in Scope, walked[f] # None
              PROVE  walked[f] \in chunks[f]
            <4>1. op \in {"scan", "rebuild", "file"}
                BY <2>3, <2>5 DEF TypeOK
            <4>2. CASE f \in changed
                BY <2>3, <2>5, <4>2 DEF ProgressInv, StepInv, Inserting, IInv
            <4>3. CASE f \notin changed
                <5>1. op = "scan" /\ stops = 0 /\ failures = 0 /\ f \in File
                    BY <1>0, <2>3, <2>5, <3>1, <3>2, <4>1, <4>3
                       DEF ProgressInv, StepInv, IInv, HasRead
                <5> QED
                    BY <2>3, <3>1, <3>2, <4>3, <5>1 DEF CleanInv, StepInv, IInv, HasRead
            <4> QED
                BY <4>2, <4>3
        <3> QED
            BY <2>1, <2>2, <3>1, <3>2 DEF Promise!Finish, Promise!Reliable
    <2> QED
        BY <2>4, <2>5
<1>19. ASSUME SaveSymbolsFails PROVE Promise!Fail
    <2>1. Promise!End
        BY <1>19 DEF SaveSymbolsFails, EndOp, HasRead, Promise!End, Promise!Nothing, Blank
    <2> QED
        BY <1>0, <1>19, <2>1 DEF SaveSymbolsFails, MayFail, Promise!Fail, diskVars
<1>20. ASSUME UNCHANGED vars PROVE UNCHANGED Promise!vars
    BY <1>20 DEF vars, diskVars, memoryVars, opVars, boundVars, HasRead
<1> QED
    BY <1>1, <1>2, <1>3, <1>4, <1>6, <1>7, <1>8, <1>9, <1>10, <1>11, <1>12, <1>13, <1>14,
       <1>16, <1>17, <1>18, <1>19, <1>20
       DEF Next, Promise!Next

\* Each operation, write by write, keeps the promises of SearchIndex, whatever fails
\* and whenever the process dies.
THEOREM KeepsPromises == Spec => ImplementsSearchIndex
<1>1. Init => Promise!Init
    BY BoundsAreNaturals DEF Init, Promise!Init, Promise!Nothing, HasRead, Table, Blank, Nowhere
<1> QED
    BY <1>1, Invariant, PromiseStep, PTL DEF Spec, ImplementsSearchIndex, Promise!Spec
=============================================================================
