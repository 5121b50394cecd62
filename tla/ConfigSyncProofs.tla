-------------------------- MODULE ConfigSyncProofs --------------------------
(***************************************************************************)
(* Proofs about ConfigSync, for any directories, any files of users, any   *)
(* number of calls, edits, failures and deaths: a configuration that has   *)
(* settled is the one config.yaml holds, names stay unique, what was asked *)
(* for is kept, and the server lists the projects there are.  What         *)
(* resolveProjects computes is ResolveSound; the rest is about who has     *)
(* read which version, and who writes into whose array.                    *)
(***************************************************************************)
EXTENDS ResolveProofs

LEMMA InitSynced == Init => SyncInv
<1> SUFFICES ASSUME Init PROVE SyncInv
    OBVIOUS
<1> QED
    BY DEF Init, SyncInv, LifeInv, ReadInv, SaveInv, CalmInv

\* Whatever is written while the daemon runs leaves an event, or a change that was missed.
LEMMA ChangesAreUnheard == ASSUME NEW f, FileChanges(f), up PROVE Unheard'
    BY DEF FileChanges, Unheard

\* A tool changes the configuration in memory and leaves the file and what was read of it.
LEMMA RequestStep ==
    ASSUME SyncInv, Request, UNCHANGED <<fileVars, lifeVars, loaded>>
    PROVE  LifeInv' /\ ReadInv' /\ SaveInv' /\ CalmInv'
BY DEF SyncInv, Request, LifeInv, ReadInv, SaveInv, CalmInv, NowRead, Unheard, Loadable,
       fileVars, lifeVars

LEMMA SyncStep == SyncInv /\ [Next]_vars => SyncInv'
<1> SUFFICES ASSUME SyncInv, [Next]_vars PROVE SyncInv'
    OBVIOUS
<1> DEFINE Rest == LifeInv /\ ReadInv /\ SaveInv /\ CalmInv
<1> USE DEF LifeInv, ReadInv, SaveInv, CalmInv, Loadable, NowRead,
        fileVars, memVars, lockVars, lifeVars, askedVars, boundVars
<1>1. ASSUME NEW f \in UserFile, UserEdit(f) PROVE Rest'
    <2>1. UNCHANGED <<op, up, watching, loaded>> /\ FileChanges(f)
        BY <1>1 DEF UserEdit
    <2>2. CASE up
        BY <2>1, <2>2, ChangesAreUnheard DEF SyncInv
    <2>3. CASE ~up
        BY <2>1, <2>3 DEF SyncInv, FileChanges
    <2> QED
        BY <2>2, <2>3
<1>2. ASSUME NEW p \in Path, NEW b \in Label, AddProject(p, b) PROVE Rest'
    BY <1>2, RequestStep DEF AddProject
<1>3. ASSUME NEW i \in DOMAIN projects, RemoveProject(i) PROVE Rest'
    BY <1>3, RequestStep DEF RemoveProject
<1>4. ASSUME TruncateConfig PROVE Rest'
    <2>1. up /\ op' = "write" /\ UNCHANGED <<up, watching, loaded>> /\ FileChanges(<<>>)
        BY <1>4 DEF TruncateConfig, SyncInv
    <2> QED
        BY <2>1, ChangesAreUnheard DEF SyncInv
<1>5. ASSUME WriteConfig PROVE Rest'
    <2>1. up /\ op' = "serve" /\ UNCHANGED <<up, watching, loaded>> /\ FileChanges(cfg)
        BY <1>5 DEF WriteConfig, SyncInv
    <2> QED
        BY <2>1, ChangesAreUnheard DEF SyncInv
<1>6. ASSUME Serve PROVE Rest'
    BY <1>6 DEF Serve, SyncInv, Unheard
<1>7. ASSUME SaveFails PROVE Rest'
    BY <1>7 DEF SaveFails, SyncInv, Unheard
<1>8. ASSUME WatchConfig PROVE Rest'
    BY <1>8 DEF WatchConfig, SyncInv, Unheard
<1>9. ASSUME LoadConfig PROVE Rest'
    BY <1>9 DEF LoadConfig, CanLoad, Read, None, SyncInv, Unheard
<1>10. ASSUME Apply PROVE Rest'
    BY <1>10 DEF Apply, SyncInv, Unheard
<1>11. ASSUME Boot PROVE Rest'
    BY <1>11 DEF Boot, SyncInv, Unheard
<1>12. ASSUME Die PROVE Rest'
    BY <1>12 DEF Die, SyncInv, Unheard
<1>13. ASSUME UNCHANGED vars PROVE Rest'
    BY <1>13 DEF vars, SyncInv, Unheard
<1>14. ASSUME NEW p \in NewRepository, MakeRepository(p) PROVE Rest'
    BY <1>14 DEF MakeRepository, SyncInv, Unheard
<1> QED
    BY <1>14, <1>1, <1>2, <1>3, <1>4, <1>5, <1>6, <1>7, <1>8, <1>9, <1>10, <1>11, <1>12, <1>13
    DEF Next, Tools, Holder, Watch, SyncInv

THEOREM InSync == Spec => []SyncInv
<1> QED
    BY InitSynced, SyncStep, PTL DEF Spec

\* A configuration that has settled is that of config.yaml, and its projects are those
\* resolved from it.
THEOREM SettledMeansAgreed == Spec => []SettledAgrees
<1>1. SyncInv => SettledAgrees
    BY DEF SyncInv, SettledAgrees, Quiet, CalmInv, Unheard
<1> QED
    BY <1>1, InSync, PTL

-----------------------------------------------------------------------------
(* Types.                                                                  *)

\* What is left of a sequence without its i-th element.
LEMMA RemoveAtProperties ==
    ASSUME NEW T, NEW s \in Seq(T), NEW i \in DOMAIN s
    PROVE  /\ RemoveAt(s, i) \in Seq(T)
           /\ Len(s) \in Nat /\ Len(s) # 0 /\ i \in 1..Len(s)
           /\ Len(RemoveAt(s, i)) = Len(s) - 1
           /\ DOMAIN RemoveAt(s, i) = 1..(Len(s) - 1)
           /\ \A k \in 1..(Len(s) - 1) :
                 RemoveAt(s, i)[k] = IF k < i THEN s[k] ELSE s[k + 1]
<1> DEFINE a == SubSeq(s, 1, i - 1)
           b == SubSeq(s, i + 1, Len(s))
           n == Len(s)
<1>1. n \in Nat /\ i \in 1..n
    BY LenProperties
<1>2. /\ a \in Seq(T) /\ Len(a) = i - 1
      /\ \A k \in 1..(i - 1) : a[k] = s[k]
    BY <1>1, SubSeqProperties
<1>3. /\ b \in Seq(T) /\ Len(b) = n - i
      /\ \A k \in 1..(n - i) : b[k] = s[k + i]
    BY <1>1, SubSeqProperties
<1>4. RemoveAt(s, i) = a \o b
    BY DEF RemoveAt
<1> HIDE DEF a, b
<1>5. /\ a \o b \in Seq(T) /\ Len(a \o b) = n - 1
      /\ \A k \in 1..(n - 1) : (a \o b)[k] = IF k <= i - 1 THEN a[k] ELSE b[k - (i - 1)]
    <2>1. /\ a \o b \in Seq(T) /\ Len(a \o b) = Len(a) + Len(b)
          /\ \A k \in 1..Len(a) + Len(b) :
                (a \o b)[k] = IF k <= Len(a) THEN a[k] ELSE b[k - Len(a)]
        BY <1>2, <1>3, ConcatProperties
    <2>2. Len(a) = i - 1 /\ Len(a) + Len(b) = n - 1
        BY <1>1, <1>2, <1>3
    <2> QED
        BY <2>1, <2>2
<1>6. ASSUME NEW k \in 1..(n - 1) PROVE (a \o b)[k] = IF k < i THEN s[k] ELSE s[k + 1]
    <2>1. CASE k < i
        BY <2>1, <1>1, <1>2, <1>5
    <2>2. CASE ~(k < i)
        <3>1. k - (i - 1) \in 1..(n - i) /\ k - (i - 1) + i = k + 1
            BY <2>2, <1>1
        <3> QED
            BY <2>2, <3>1, <1>1, <1>3, <1>5
    <2> QED
        BY <2>1, <2>2
<1>7. DOMAIN (a \o b) = 1..(n - 1)
    BY <1>5, LenProperties
<1> QED
    BY <1>1, <1>4, <1>5, <1>6, <1>7

\* Every entry gets a name, and one that has a name keeps it.
LEMMA DefaultedType ==
    ASSUME NEW f \in Seq(Entry)
    PROVE  /\ Defaulted(f) \in Seq(NamedEntry)
           /\ Len(Defaulted(f)) = Len(f)
           /\ Defaulted(f) = <<>> <=> f = <<>>
<1>1. Len(f) \in Nat /\ DOMAIN f = 1..Len(f) /\ \A i \in 1..Len(f) : f[i] \in Entry
    BY LenProperties, ElementOfSeq
<1>2. ASSUME NEW i \in 1..Len(f) PROVE Defaulted(f)[i] \in NamedEntry
    <2>1. f[i].path \in Path /\ f[i].name \in Name \cup {Unnamed} /\ f[i].auto \in BOOLEAN
          /\ f[i] = [path |-> f[i].path, name |-> f[i].name, auto |-> f[i].auto]
        BY <1>1 DEF Entry
    <2>2. <<Base[f[i].path], 0>> \in Name
        BY <2>1, TreeOfPaths DEF Name
    <2> QED
        BY <1>1, <2>1, <2>2 DEF Defaulted, NamedEntry
<1>3. Defaulted(f) = [i \in 1..Len(f) |-> Defaulted(f)[i]]
    BY <1>1 DEF Defaulted
<1>4. Defaulted(f) \in Seq(NamedEntry) /\ DOMAIN Defaulted(f) = 1..Len(f)
    BY <1>1, <1>2, <1>3, IsASeq
<1>5. Len(Defaulted(f)) = Len(f)
    BY <1>1, <1>4, LenProperties
<1> QED
    BY <1>4, <1>5, EmptySeq

LEMMA NamedKept ==
    ASSUME NEW f \in Seq(NamedEntry)
    PROVE  f \in Seq(Entry) /\ Defaulted(f) = f
<1>1. NamedEntry \subseteq Entry
    BY DEF NamedEntry, Entry
<1>2. f \in Seq(Entry)
    BY <1>1, SeqMonotonic
<1>3. f = [i \in DOMAIN f |-> f[i]]
    BY LenProperties
<1>4. ASSUME NEW i \in DOMAIN f PROVE f[i].name # Unnamed
    <2>1. f[i] \in NamedEntry
        BY ElementOfSeq, LenProperties
    <2>2. f[i].name \in Name
        BY <2>1, EntryTypes
    <2> QED
        BY <2>2, UnnamedIsNoName
<1> QED
    BY <1>2, <1>3, <1>4 DEF Defaulted

LEMMA FilesOfUsers == ASSUME NEW f \in UserFile PROVE f \in Seq(Entry) /\ f # <<>>
    BY FilesAreWellFormed

LEMMA EntriesOfSeq == ASSUME NEW f \in Seq(NamedEntry) PROVE ToSet(f) \subseteq Entry
<1>1. \A i \in DOMAIN f : f[i] \in NamedEntry
    BY LenProperties, ElementOfSeq
<1> QED
    BY <1>1 DEF ToSet, NamedEntry, Entry

\* What has been read has a name for every entry.
TypeInv == TypeOK /\ (loaded # None => loaded.dirs \in Seq(NamedEntry))

LEMMA TypeInit == Init => TypeInv
<1> SUFFICES ASSUME Init PROVE TypeInv
    OBVIOUS
<1>1. file \in Seq(Entry)
    BY FilesOfUsers DEF Init
<1>2. ToSet(Defaulted(file)) \subseteq Entry
    BY <1>1, DefaultedType, EntriesOfSeq
<1>3. <<>> \in Seq([path : Path, name : Name, auto : BOOLEAN]) /\ <<>> \in Seq(Project)
    BY EmptySeq
<1> QED
    <2>1. 0 \in 0..MaxRequests /\ 0 \in 0..MaxEdits /\ 0 \in 0..MaxMishaps
        BY BoundsAreNaturals
    <2> QED
        BY <1>1, <1>2, <1>3, <2>1 DEF Init, TypeInv, TypeOK, Ambiguous

\* What is read of the file.
LEMMA ReadTypes ==
    ASSUME TypeInv
    PROVE  /\ Defaulted(file) \in Seq(NamedEntry)
           /\ ToSet(Defaulted(file)) \subseteq Entry
           /\ Resolve(Defaulted(file), repos) \in Seq(Project)
           /\ Defaulted(file) = <<>> <=> file = <<>>
BY DefaultedType, EntriesOfSeq, ResolveSound DEF TypeInv, TypeOK

LEMMA TypeStep == TypeInv /\ [Next]_vars => TypeInv'
<1> SUFFICES ASSUME TypeInv, [Next]_vars PROVE TypeInv'
    OBVIOUS
<1> USE DEF fileVars, memVars, lockVars, lifeVars, askedVars, boundVars
<1>0. cfg \in Seq(NamedEntry) /\ cfg \in Seq(Entry) /\ projects \in Seq(Project)
      /\ served \in Seq(Project)
    BY NamedKept DEF TypeInv, TypeOK, NamedEntry
<1>b. /\ requests < MaxRequests => requests + 1 \in 0..MaxRequests
      /\ edits < MaxEdits => edits + 1 \in 0..MaxEdits
      /\ mishaps < MaxMishaps => mishaps + 1 \in 0..MaxMishaps
    BY BoundsAreNaturals DEF TypeInv, TypeOK
<1>1. ASSUME NEW f \in UserFile, UserEdit(f) PROVE TypeInv'
    <2>1. f \in Seq(Entry) /\ ToSet(Defaulted(f)) \subseteq Entry
        BY FilesOfUsers, DefaultedType, EntriesOfSeq
    <2> QED
        BY <1>1, <2>1, <1>b DEF UserEdit, FileChanges, TypeInv, TypeOK
<1>2. ASSUME NEW p \in Path, NEW b \in Label, AddProject(p, b) PROVE TypeInv'
    <2>1. PICK n \in 0..Len(projects) :
            LET project == [path |-> p, name |-> <<b, n>>]
                d == [path |-> p, name |-> <<b, n>>, auto |-> FALSE]
            IN  /\ Request
                /\ cfg' = Append(cfg, d)
                /\ projects' = Append(projects, project)
                /\ \/ /\ Len(served) > Len(projects)
                      /\ served' = [served EXCEPT ![Len(projects) + 1] = project]
                      /\ UNCHANGED shared
                   \/ UNCHANGED served /\ shared' \in {shared, FALSE}
                /\ want' = due \cup {d}
                /\ unlisted' = unlisted \cup {p}
                /\ UNCHANGED <<fileVars, lifeVars, loaded, due, misnamed, ambiguous, failed, edits,
                               mishaps>>
        BY <1>2 DEF AddProject
    <2> DEFINE project == [path |-> p, name |-> <<b, n>>]
               d == [path |-> p, name |-> <<b, n>>, auto |-> FALSE]
    <2>2. Len(projects) \in Nat /\ Len(served) \in Nat
        BY <1>0, LenProperties
    <2>3. project \in Project /\ d \in NamedEntry /\ d \in Entry
        BY <2>2 DEF Project, Name, NamedEntry, Entry
    <2> HIDE DEF project, d
    <2>4. Append(cfg, d) \in Seq(NamedEntry) /\ Append(projects, project) \in Seq(Project)
        BY <1>0, <2>3, AppendProperties
    <2>5. Len(served) > Len(projects) =>
            [served EXCEPT ![Len(projects) + 1] = project] \in Seq(Project)
        BY <1>0, <2>2, <2>3, ExceptSeq
    <2>6. cfg' \in Seq(NamedEntry) /\ projects' \in Seq(Project) /\ served' \in Seq(Project)
        BY <1>0, <2>1, <2>4, <2>5 DEF project, d
    <2>7. want' \subseteq Entry /\ unlisted' \subseteq Path /\ shared' \in BOOLEAN
        BY <2>1, <2>3 DEF d, TypeInv, TypeOK
    <2> QED
        BY <2>1, <2>6, <2>7, <1>b DEF Request, TypeInv, TypeOK, NamedEntry
<1>3. ASSUME NEW i \in DOMAIN projects, RemoveProject(i) PROVE TypeInv'
    <2>1. RemoveAt(projects, i) \in Seq(Project)
        BY <1>0, RemoveAtProperties
    <2>2. cfg' \in Seq(NamedEntry) /\ misnamed' \in BOOLEAN
        <3>1. CASE UNCHANGED <<cfg, misnamed>>
            BY <3>1, <1>0 DEF TypeInv, TypeOK
        <3>2. CASE \E k \in EntryOf(projects[i].name) :
                      /\ cfg' = RemoveAt(cfg, k)
                      /\ misnamed' = (misnamed \/ cfg[k].path # projects[i].path \/ cfg[k].auto)
            <4>1. PICK k \in DOMAIN cfg : cfg' = RemoveAt(cfg, k) /\ misnamed' \in BOOLEAN
                BY <3>2 DEF EntryOf
            <4> QED
                BY <4>1, <1>0, RemoveAtProperties
        <3> QED
            BY <1>3, <3>1, <3>2 DEF RemoveProject
    <2>3. Shifted(i) \in Seq(Project)
        <3> DEFINE e(k) == IF k < i \/ k >= Len(projects) THEN served[k] ELSE projects[k + 1]
        <3>1. DOMAIN served = 1..Len(served) /\ Len(served) \in Nat
              /\ DOMAIN projects = 1..Len(projects) /\ Len(projects) \in Nat
            BY <1>0, LenProperties
        <3>2. \A k \in 1..Len(served) : e(k) \in Project
            <4> TAKE k \in 1..Len(served)
            <4>1. CASE k < i \/ k >= Len(projects)
                BY <4>1, <1>0, ElementOfSeq
            <4>2. CASE ~(k < i \/ k >= Len(projects))
                <5>1. k + 1 \in 1..Len(projects)
                    BY <4>2, <3>1
                <5> QED
                    BY <4>2, <5>1, <1>0, ElementOfSeq
            <4> QED
                BY <4>1, <4>2
        <3>3. Shifted(i) = [k \in 1..Len(served) |-> e(k)]
            BY <3>1 DEF Shifted
        <3> HIDE DEF e
        <3>4. [k \in 1..Len(served) |-> e(k)] \in Seq(Project)
            BY <3>1, <3>2, IsASeq
        <3> QED
            BY <3>3, <3>4
    <2>4. \A e : due \ {e} \subseteq Entry /\ unlisted \ {e} \subseteq Path
        BY DEF TypeInv, TypeOK
    <2> QED
        BY <1>0, <1>3, <2>1, <2>2, <2>3, <2>4, <1>b
        DEF RemoveProject, Request, TypeInv, TypeOK, NamedEntry
<1>4. ASSUME TruncateConfig PROVE TypeInv'
    <2>1. <<>> \in Seq(Entry)
        BY EmptySeq
    <2> QED
        BY <1>4, <2>1 DEF TruncateConfig, FileChanges, TypeInv, TypeOK
<1>5. ASSUME WriteConfig PROVE TypeInv'
    BY <1>0, <1>5 DEF WriteConfig, FileChanges, TypeInv, TypeOK
<1>6. ASSUME Serve PROVE TypeInv'
    BY <1>6 DEF Serve, TypeInv, TypeOK
<1>7. ASSUME SaveFails PROVE TypeInv'
    BY <1>7, <1>b DEF SaveFails, Mishap, TypeInv, TypeOK
<1>8. ASSUME WatchConfig PROVE TypeInv'
    BY <1>8 DEF WatchConfig, TypeInv, TypeOK
<1>9. ASSUME LoadConfig PROVE TypeInv'
    <2>1. Defaulted(file) \in Seq(Entry)
        BY ReadTypes, NamedKept
    <2> QED
        <3> DEFINE New == loaded' # None =>
                            /\ loaded'.dirs \in Seq(NamedEntry)
                            /\ loaded'.dirs \in Seq(Entry) \ {<<>>}
                            /\ loaded'.projects \in Seq(Project)
        <3>1. ASSUME Loadable(file) PROVE New
            <4>1. /\ loaded'.dirs = Defaulted(file)
                  /\ loaded'.projects = Resolve(Defaulted(file), repos)
                BY <1>9, <3>1 DEF LoadConfig, Read
            <4> QED
                BY <2>1, <3>1, <4>1, ReadTypes DEF Loadable
        <3>2. ASSUME ~Loadable(file) PROVE New
            BY <1>9, <3>2 DEF LoadConfig, TypeInv, TypeOK
        <3>3. New
            BY <3>1, <3>2
        <3>4. missed' \in BOOLEAN /\ event' \in BOOLEAN
            BY <1>9 DEF LoadConfig, TypeInv, TypeOK
        <3> HIDE DEF New
        <3>5. UNCHANGED <<repos, file, memVars, lockVars, lifeVars, askedVars, failed, boundVars>>
            BY <1>9 DEF LoadConfig
        <3> QED
            BY <3>3, <3>4, <3>5 DEF New, TypeInv, TypeOK
<1>10. ASSUME Apply PROVE TypeInv'
    BY <1>10 DEF Apply, TypeInv, TypeOK, NamedEntry
<1>11. ASSUME Boot PROVE TypeInv'
    BY <1>11, ReadTypes DEF Boot, TypeInv, TypeOK, NamedEntry
<1>12. ASSUME Die PROVE TypeInv'
    <2>1. <<>> \in Seq(NamedEntry) /\ <<>> \in Seq(Project)
        BY EmptySeq
    <2> QED
        BY <1>12, <2>1, <1>b DEF Die, Mishap, TypeInv, TypeOK, NamedEntry
<1>13. ASSUME UNCHANGED vars PROVE TypeInv'
    BY <1>13 DEF vars, TypeInv, TypeOK
<1>14. ASSUME NEW p \in NewRepository, MakeRepository(p) PROVE TypeInv'
    BY <1>14, <1>b, NewRepositoriesArePaths DEF MakeRepository, TypeInv, TypeOK
<1> QED
    BY <1>1, <1>2, <1>3, <1>4, <1>5, <1>6, <1>7, <1>8, <1>9, <1>10, <1>11, <1>12, <1>13, <1>14
    DEF Next, Tools, Holder, Watch

LEMMA Typed == Spec => []TypeInv
<1> QED
    BY TypeInit, TypeStep, PTL DEF Spec

\* Whatever is read, discovered, added, removed and shifted, the four copies are lists of
\* entries and of projects that all have a name.
THEOREM TypeCorrect == Spec => []TypeOK
<1>1. TypeInv => TypeOK
    BY DEF TypeInv
<1> QED
    BY <1>1, Typed, PTL

-----------------------------------------------------------------------------
(* Names.                                                                  *)

\* Where the k-th element was before the i-th was removed.
Before(i, k) == IF k < i THEN k ELSE k + 1

\* Removing an element drops it and nothing else, and brings no two elements together.
LEMMA RemoveAtElements ==
    ASSUME NEW T, NEW s \in Seq(T), NEW i \in DOMAIN s
    PROVE  /\ \A k \in DOMAIN RemoveAt(s, i) :
                 Before(i, k) \in DOMAIN s \ {i} /\ RemoveAt(s, i)[k] = s[Before(i, k)]
           /\ \A k, l \in DOMAIN RemoveAt(s, i) : k # l => Before(i, k) # Before(i, l)
           /\ \A m \in DOMAIN s \ {i} : s[m] \in ToSet(RemoveAt(s, i))
<1> DEFINE n == Len(s)
           t == RemoveAt(s, i)
<1>1. /\ n \in Nat /\ n # 0 /\ i \in 1..n /\ DOMAIN t = 1..(n - 1)
      /\ \A k \in 1..(n - 1) : t[k] = IF k < i THEN s[k] ELSE s[k + 1]
    BY RemoveAtProperties
<1>2. DOMAIN s = 1..n
    BY LenProperties
<1> HIDE DEF n, t
<1>3. ASSUME NEW k \in DOMAIN t PROVE Before(i, k) \in DOMAIN s \ {i} /\ t[k] = s[Before(i, k)]
    BY <1>1, <1>2 DEF Before
<1>4. ASSUME NEW k \in DOMAIN t, NEW l \in DOMAIN t, k # l PROVE Before(i, k) # Before(i, l)
    BY <1>1, <1>4 DEF Before
<1>5. ASSUME NEW m \in DOMAIN s \ {i} PROVE s[m] \in ToSet(t)
    <2> DEFINE k == IF m < i THEN m ELSE m - 1
    <2>1. k \in 1..(n - 1) /\ Before(i, k) = m
        BY <1>1, <1>2 DEF Before
    <2> HIDE DEF k
    <2>2. t[k] = s[m]
        BY <2>1, <1>1, <1>3
    <2> QED
        BY <2>1, <2>2, <1>1 DEF ToSet
<1> QED
    BY <1>3, <1>4, <1>5 DEF t

\* The projects of a configuration whose explicit entries have names and paths of their own.
Unique(dirs, list) == Unambiguous(dirs) /\ Distinct(list) /\ Lists(list, dirs)

LEMMA RemovingKeepsDistinct ==
    ASSUME NEW list \in Seq(Project), NEW i \in DOMAIN list, Distinct(list)
    PROVE  Distinct(RemoveAt(list, i))
<1> DEFINE t == RemoveAt(list, i)
<1>1. /\ \A k \in DOMAIN t : Before(i, k) \in DOMAIN list /\ t[k] = list[Before(i, k)]
      /\ \A k, l \in DOMAIN t : k # l => Before(i, k) # Before(i, l)
    BY RemoveAtElements
<1> HIDE DEF t
<1>2. Distinct(t)
    BY <1>1 DEF Distinct
<1> QED
    BY <1>2 DEF t

LEMMA RemovingKeepsUnambiguous ==
    ASSUME NEW dirs \in Seq(NamedEntry), NEW i \in DOMAIN dirs, Unambiguous(dirs)
    PROVE  Unambiguous(RemoveAt(dirs, i))
<1> DEFINE t == RemoveAt(dirs, i)
<1>1. /\ \A k \in DOMAIN t : Before(i, k) \in DOMAIN dirs /\ t[k] = dirs[Before(i, k)]
      /\ \A k, l \in DOMAIN t : k # l => Before(i, k) # Before(i, l)
    BY RemoveAtElements
<1> HIDE DEF t
<1>2. Unambiguous(t)
    BY <1>1 DEF Unambiguous
<1> QED
    BY <1>2 DEF t

\* add_project keeps them unique: its name and path are new to the list of projects, and
\* so to the explicit entries.
LEMMA AddingKeepsUnique ==
    ASSUME NEW dirs \in Seq(NamedEntry), NEW list \in Seq(Project), Unique(dirs, list),
           NEW d \in NamedEntry, ~d.auto, d.path \notin PathsOf(list), d.name \notin NamesOf(list)
    PROVE  Unique(Append(dirs, d), Append(list, ProjectOf(d)))
<1> DEFINE n == Len(dirs)
           new == Append(dirs, d)
           q == ProjectOf(d)
<1>1. q \in Project /\ q.path = d.path /\ q.name = d.name
    BY EntryTypes DEF ProjectOf
<1>2. /\ ToSet(Append(list, q)) = ToSet(list) \cup {q}
      /\ Distinct(Append(list, q))
    BY <1>1, AppendProject DEF Unique
<1>3. /\ n \in Nat /\ DOMAIN dirs = 1..n /\ DOMAIN new = 1..(n + 1)
      /\ \A i \in 1..n : new[i] = dirs[i]
      /\ new[n + 1] = d
    BY AppendProperties, LenProperties
<1>4. \A i \in 1..(n + 1) : i \in 1..n \/ i = n + 1
    BY <1>3
<1>5. \A i \in 1..n : ~dirs[i].auto => dirs[i].path # d.path /\ dirs[i].name # d.name
    <2> SUFFICES ASSUME NEW i \in 1..n, ~dirs[i].auto
                 PROVE  dirs[i].path # d.path /\ dirs[i].name # d.name
        OBVIOUS
    <2>1. ProjectOf(dirs[i]) \in ToSet(list)
        BY <1>3 DEF Unique, Lists
    <2>2. \A e \in ToSet(list) : e.path # d.path /\ e.name # d.name
        BY DEF ToSet, PathsOf, NamesOf
    <2> QED
        BY <2>1, <2>2 DEF ProjectOf
<1> HIDE DEF n, new, q
<1>6. Unambiguous(new)
    BY <1>3, <1>4, <1>5 DEF Unique, Unambiguous
<1>7. Lists(Append(list, q), new)
    <2> SUFFICES ASSUME NEW i \in 1..(n + 1), ~new[i].auto
                 PROVE  ProjectOf(new[i]) \in ToSet(list) \cup {q}
        BY <1>2, <1>3 DEF Lists
    <2>1. CASE i \in 1..n
        BY <2>1, <1>3 DEF Unique, Lists
    <2>2. CASE i = n + 1
        BY <2>2, <1>3 DEF q
    <2> QED
        BY <2>1, <2>2, <1>4
<1> QED
    BY <1>2, <1>6, <1>7 DEF Unique, new, q

\* remove_project keeps them unique if the entry it takes is that of the project, or
\* if there is no entry of that name.
LEMMA RemovingKeepsUnique ==
    ASSUME NEW dirs \in Seq(NamedEntry), NEW list \in Seq(Project), Unique(dirs, list),
           NEW i \in DOMAIN list
    PROVE  /\ (\A k \in DOMAIN dirs : dirs[k].name # list[i].name) => Unique(dirs, RemoveAt(list, i))
           /\ \A k \in DOMAIN dirs :
                 dirs[k].path = list[i].path /\ dirs[k].name = list[i].name /\ ~dirs[k].auto
                     => Unique(RemoveAt(dirs, k), RemoveAt(list, i))
<1>1. Distinct(RemoveAt(list, i))
    BY RemovingKeepsDistinct DEF Unique
<1>2. ASSUME NEW m \in DOMAIN dirs, ~dirs[m].auto, dirs[m].name # list[i].name
      PROVE  ProjectOf(dirs[m]) \in ToSet(RemoveAt(list, i))
    <2>1. PICK l \in DOMAIN list : ProjectOf(dirs[m]) = list[l]
        BY <1>2 DEF Unique, Lists, ToSet
    <2>2. l # i
        BY <1>2, <2>1 DEF ProjectOf
    <2> QED
        BY <2>1, <2>2, RemoveAtElements
<1>3. ASSUME \A k \in DOMAIN dirs : dirs[k].name # list[i].name
      PROVE  Unique(dirs, RemoveAt(list, i))
    BY <1>1, <1>2, <1>3 DEF Unique, Lists
<1>4. ASSUME NEW k \in DOMAIN dirs,
             dirs[k].path = list[i].path /\ dirs[k].name = list[i].name /\ ~dirs[k].auto
      PROVE  Unique(RemoveAt(dirs, k), RemoveAt(list, i))
    <2> DEFINE t == RemoveAt(dirs, k)
    <2>1. Unambiguous(t)
        BY RemovingKeepsUnambiguous DEF Unique
    <2>2. \A m \in DOMAIN t : Before(k, m) \in DOMAIN dirs \ {k} /\ t[m] = dirs[Before(k, m)]
        BY RemoveAtElements
    <2>3. \A m \in DOMAIN dirs \ {k} : ~dirs[m].auto => dirs[m].name # list[i].name
        BY <1>4 DEF Unique, Unambiguous
    <2> HIDE DEF t
    <2>4. Lists(RemoveAt(list, i), t)
        BY <1>2, <2>2, <2>3 DEF Lists
    <2> QED
        BY <1>1, <2>1, <2>4 DEF Unique, t
<1> QED
    BY <1>3, <1>4

\* The inductive invariant: every version of the configuration, in the file, in the reload
\* that waits for the lock and in memory, has names and paths of its own, and the
\* projects next to it contain its explicit entries.
NamesInv == ~misnamed /\ ~ambiguous =>
    /\ Unambiguous(Defaulted(file))
    /\ Unique(cfg, projects)
    /\ loaded # None => Unique(loaded.dirs, loaded.projects)

LEMMA EmptyIsUnique == Unambiguous(<<>>) /\ Unambiguous(Defaulted(<<>>)) /\ Unique(<<>>, <<>>)
<1>1. <<>> \in Seq(Entry) /\ <<>> \in Seq(NamedEntry) /\ Len(<<>>) = 0 /\ DOMAIN <<>> = {}
    BY EmptySeq, LenProperties
<1>2. Defaulted(<<>>) = <<>>
    BY <1>1, DefaultedType
<1> QED
    BY <1>1, <1>2 DEF Unambiguous, Unique, Distinct, Lists

LEMMA NamesInit == Init => NamesInv
    BY EmptyIsUnique DEF Init, NamesInv, Ambiguous

LEMMA ReadUnique ==
    ASSUME TypeInv, Unambiguous(Defaulted(file))
    PROVE  Unique(Defaulted(file), Resolve(Defaulted(file), repos))
BY ReadTypes, ResolveSound DEF Unique, TypeInv, TypeOK

\* remove_project finds no entry only if there is none: of those there are it takes the first.
LEMMA NoEntryOfName ==
    ASSUME cfg \in Seq(NamedEntry), NEW name, EntryOf(name) = {}
    PROVE  \A k \in DOMAIN cfg : cfg[k].name # name
<1> SUFFICES ASSUME NEW k \in DOMAIN cfg, cfg[k].name = name PROVE FALSE
    OBVIOUS
<1> DEFINE S == {j \in DOMAIN cfg : cfg[j].name = name}
<1>1. S \in SUBSET Nat /\ S # {} /\ DOMAIN cfg = 1..Len(cfg) /\ Len(cfg) \in Nat
    BY LenProperties
<1>2. PICK m \in S : \A j \in S : m <= j
    <2> HIDE DEF S
    <2> QED
        BY <1>1, Least
<1>3. m \in EntryOf(name)
    BY <1>1, <1>2 DEF EntryOf
<1> QED
    BY <1>3

LEMMA NamesStep == TypeInv /\ NamesInv /\ [Next]_vars => NamesInv'
<1> SUFFICES ASSUME TypeInv, NamesInv, [Next]_vars, ~misnamed', ~ambiguous'
             PROVE  /\ Unambiguous(Defaulted(file'))
                    /\ Unique(cfg', projects')
                    /\ loaded' # None => Unique(loaded'.dirs, loaded'.projects)
    BY DEF NamesInv, Defaulted
<1> DEFINE Goal == /\ Unambiguous(Defaulted(file'))
                   /\ Unique(cfg', projects')
                   /\ loaded' # None => Unique(loaded'.dirs, loaded'.projects)
<1> USE DEF fileVars, memVars, lockVars, lifeVars, askedVars, boundVars
<1>0. cfg \in Seq(NamedEntry) /\ projects \in Seq(Project)
    BY DEF TypeInv, TypeOK, NamedEntry
<1>1. ASSUME NEW f \in UserFile, UserEdit(f) PROVE Goal
    BY <1>1 DEF UserEdit, FileChanges, NamesInv, Ambiguous
<1>2. ASSUME NEW p \in Path, NEW b \in Label, AddProject(p, b) PROVE Goal
    <2>1. PICK n \in 0..Len(projects) :
            /\ p \notin PathsOf(projects)
            /\ IsNew(b, n, NamesOf(projects))
            /\ cfg' = Append(cfg, [path |-> p, name |-> <<b, n>>, auto |-> FALSE])
            /\ projects' = Append(projects, [path |-> p, name |-> <<b, n>>])
            /\ UNCHANGED <<file, loaded, misnamed, ambiguous>>
        BY <1>2 DEF AddProject
    <2> DEFINE d == [path |-> p, name |-> <<b, n>>, auto |-> FALSE]
    <2>2. Len(projects) \in Nat
        BY <1>0, LenProperties
    <2>3. d \in NamedEntry /\ ~d.auto /\ d.path \notin PathsOf(projects)
          /\ d.name \notin NamesOf(projects) /\ ProjectOf(d) = [path |-> p, name |-> <<b, n>>]
        BY <2>1, <2>2 DEF Name, NamedEntry, ProjectOf, IsNew
    <2>4. Unique(cfg, projects)
        BY <2>1 DEF NamesInv
    <2> HIDE DEF d
    <2>5. Unique(Append(cfg, d), Append(projects, ProjectOf(d)))
        BY <1>0, <2>3, <2>4, AddingKeepsUnique
    <2> QED
        BY <2>1, <2>3, <2>5 DEF NamesInv, d
<1>3. ASSUME NEW i \in DOMAIN projects, RemoveProject(i) PROVE Goal
    <2> DEFINE p == projects[i]
    <2>1. /\ projects' = RemoveAt(projects, i)
          /\ UNCHANGED <<file, loaded, ambiguous>>
        BY <1>3 DEF RemoveProject
    <2>2. \/ EntryOf(p.name) = {} /\ UNCHANGED <<cfg, misnamed>>
          \/ \E k \in EntryOf(p.name) :
                /\ cfg' = RemoveAt(cfg, k)
                /\ misnamed' = (misnamed \/ cfg[k].path # p.path \/ cfg[k].auto)
        BY <1>3 DEF RemoveProject
    <2>3. ~misnamed /\ ~ambiguous
        <3>1. misnamed \in BOOLEAN
            BY DEF TypeInv, TypeOK
        <3> QED
            BY <2>1, <2>2, <3>1
    <2>4. Unique(cfg, projects)
        BY <2>3 DEF NamesInv
    <2>5. CASE EntryOf(p.name) = {} /\ UNCHANGED cfg
        <3>1. \A k \in DOMAIN cfg : cfg[k].name # p.name
            BY <1>0, <2>5, NoEntryOfName
        <3> QED
            BY <1>0, <2>1, <2>3, <2>4, <2>5, <3>1, RemovingKeepsUnique DEF NamesInv
    <2>6. CASE \E k \in EntryOf(p.name) :
                /\ cfg' = RemoveAt(cfg, k)
                /\ misnamed' = (misnamed \/ cfg[k].path # p.path \/ cfg[k].auto)
        <3>1. PICK k \in DOMAIN cfg :
                /\ cfg[k].name = p.name /\ cfg[k].path = p.path /\ ~cfg[k].auto
                /\ cfg' = RemoveAt(cfg, k)
            BY <2>6 DEF EntryOf
        <3> QED
            BY <1>0, <2>1, <2>3, <2>4, <3>1, RemovingKeepsUnique DEF NamesInv
    <2> QED
        BY <2>2, <2>5, <2>6
<1>4. ASSUME TruncateConfig PROVE Goal
    BY <1>4, EmptyIsUnique DEF TruncateConfig, FileChanges, NamesInv
<1>5. ASSUME WriteConfig PROVE Goal
    <2>1. Defaulted(cfg) = cfg
        BY <1>0, NamedKept
    <2> QED
        BY <1>5, <2>1 DEF WriteConfig, FileChanges, NamesInv, Unique
<1>6. ASSUME Serve PROVE Goal
    BY <1>6 DEF Serve, NamesInv
<1>7. ASSUME SaveFails PROVE Goal
    BY <1>7 DEF SaveFails, NamesInv
<1>8. ASSUME WatchConfig PROVE Goal
    BY <1>8 DEF WatchConfig, NamesInv
<1>9. ASSUME LoadConfig PROVE Goal
    <2>1. UNCHANGED <<file, cfg, projects, misnamed, ambiguous>>
        BY <1>9 DEF LoadConfig
    <2>2. Unambiguous(Defaulted(file))
        BY <2>1 DEF NamesInv
    <2>3. UNCHANGED loaded \/ (/\ loaded'.dirs = Defaulted(file)
                               /\ loaded'.projects = Resolve(Defaulted(file), repos))
        BY <1>9 DEF LoadConfig, Read
    <2> QED
        BY <2>1, <2>2, <2>3, ReadUnique DEF NamesInv
<1>10. ASSUME Apply PROVE Goal
    BY <1>10 DEF Apply, NamesInv
<1>11. ASSUME Boot PROVE Goal
    BY <1>11, ReadUnique DEF Boot, NamesInv
<1>12. ASSUME Die PROVE Goal
    BY <1>12, EmptyIsUnique DEF Die, NamesInv
<1>13. ASSUME UNCHANGED vars PROVE Goal
    BY <1>13 DEF vars, NamesInv
<1>14. ASSUME NEW p \in NewRepository, MakeRepository(p) PROVE Goal
    BY <1>14 DEF MakeRepository, NamesInv
<1> QED
    BY <1>1, <1>2, <1>3, <1>4, <1>5, <1>6, <1>7, <1>8, <1>9, <1>10, <1>11, <1>12, <1>13, <1>14
    DEF Next, Tools, Holder, Watch

\* No two projects share a name or a path, whatever is added, removed, discovered and
\* reloaded, until a file of a user gives two entries one of them, or remove_project takes
\* an entry of another path.
THEOREM NamesStayUnique == Spec => []NamesUnique
<1>1. NamesInv => NamesUnique
    BY DEF NamesInv, NamesUnique, Unique
<1>2. Spec => []NamesInv
    BY NamesInit, NamesStep, Typed, PTL DEF Spec
<1> QED
    BY <1>1, <1>2, PTL

-----------------------------------------------------------------------------
(* What was asked for.                                                     *)

\* The tools have removed everything, and nobody has written the file since.
Emptied == /\ cfg = <<>> /\ file = <<>>
           /\ op = "serve" \/ (op = "free" /\ up /\ ~failed)

\* The inductive invariant: the file has what was asked for; a tool on its way to the file
\* holds what it is to have; and a file that is empty because everything was removed is
\* not mistaken for one that is being written.
KeepInv == ~clobbered /\ ~misnamed /\ ~ambiguous =>
    /\ Loadable(file) => ToSet(Defaulted(file)) = due
    /\ op \in {"truncate", "write"} => ToSet(cfg) = want
    /\ Emptied => due = {}

\* A tool that is not going to overwrite anything sets out from what was asked for.
LEMMA SetsOutFromDue ==
    ASSUME TypeInv, KeepInv, Request, ~clobbered', ~misnamed, ~ambiguous
    PROVE  ToSet(cfg) = due
<1>1. ~clobbered /\ cfg = Defaulted(file) /\ ~failed /\ up /\ op = "free"
    BY DEF Request, TypeInv, TypeOK
<1>2. CASE Loadable(file)
    BY <1>1, <1>2 DEF KeepInv
<1>3. CASE ~Loadable(file)
    <2>1. file = <<>> /\ cfg = <<>>
        BY <1>1, <1>3, ReadTypes DEF Loadable
    <2>2. due = {}
        BY <1>1, <2>1 DEF KeepInv, Emptied
    <2>3. DOMAIN <<>> = {}
        BY EmptySeq, LenProperties
    <2> QED
        BY <2>1, <2>2, <2>3 DEF ToSet
<1> QED
    BY <1>2, <1>3

LEMMA KeepInit == Init => KeepInv
    BY DEF Init, KeepInv, Emptied

LEMMA KeepStep == TypeInv /\ NamesInv /\ LifeInv /\ KeepInv /\ [Next]_vars => KeepInv'
<1> SUFFICES ASSUME TypeInv, NamesInv, LifeInv, KeepInv, [Next]_vars, ~clobbered', ~misnamed',
                    ~ambiguous'
             PROVE  /\ Loadable(file') => ToSet(Defaulted(file')) = due'
                    /\ op' \in {"truncate", "write"} => ToSet(cfg') = want'
                    /\ Emptied' => due' = {}
    BY DEF KeepInv, Defaulted, Loadable
<1> DEFINE Goal == /\ Loadable(file') => ToSet(Defaulted(file')) = due'
                   /\ op' \in {"truncate", "write"} => ToSet(cfg') = want'
                   /\ Emptied' => due' = {}
<1> USE DEF fileVars, memVars, lockVars, lifeVars, askedVars, boundVars
<1>0. cfg \in Seq(NamedEntry) /\ projects \in Seq(Project) /\ misnamed \in BOOLEAN
      /\ op \in {"free", "truncate", "write", "serve"} /\ failed \in BOOLEAN
    BY DEF TypeInv, TypeOK, NamedEntry
<1>1. ASSUME NEW f \in UserFile, UserEdit(f) PROVE Goal
    <2>1. f # <<>> /\ op' = op /\ op \notin {"truncate", "write"} /\ file' = f
          /\ due' = ToSet(Defaulted(f))
        BY <1>1, FilesOfUsers DEF UserEdit, FileChanges
    <2> QED
        BY <2>1 DEF Emptied
<1>2. ASSUME NEW p \in Path, NEW b \in Label, AddProject(p, b) PROVE Goal
    <2>1. PICK n \in 0..Len(projects) :
            /\ Request
            /\ cfg' = Append(cfg, [path |-> p, name |-> <<b, n>>, auto |-> FALSE])
            /\ want' = due \cup {[path |-> p, name |-> <<b, n>>, auto |-> FALSE]}
            /\ UNCHANGED <<file, due, misnamed, ambiguous>>
        BY <1>2 DEF AddProject
    <2> DEFINE d == [path |-> p, name |-> <<b, n>>, auto |-> FALSE]
    <2>2. ToSet(cfg) = due /\ op' = "truncate" /\ ~clobbered
        BY <2>1, SetsOutFromDue DEF Request, TypeInv, TypeOK
    <2>3. ToSet(Append(cfg, d)) = ToSet(cfg) \cup {d}
        <3> HIDE DEF d
        <3>1. /\ Len(cfg) \in Nat /\ DOMAIN cfg = 1..Len(cfg)
              /\ DOMAIN Append(cfg, d) = 1..(Len(cfg) + 1)
              /\ \A k \in 1..Len(cfg) : Append(cfg, d)[k] = cfg[k]
              /\ Append(cfg, d)[Len(cfg) + 1] = d
            <4>1. cfg \in Seq(NamedEntry \cup {d})
                BY <1>0, SeqMonotonic
            <4> QED
                BY <4>1, AppendProperties, LenProperties
        <3> QED
            BY <3>1 DEF ToSet
    <2> QED
        BY <2>1, <2>2, <2>3 DEF KeepInv, Emptied
<1>3. ASSUME NEW i \in DOMAIN projects, RemoveProject(i) PROVE Goal
    <2> DEFINE p == projects[i]
               e == [path |-> p.path, name |-> p.name, auto |-> FALSE]
    <2>1. Request /\ want' = due \ {e} /\ UNCHANGED <<file, due, ambiguous>>
        BY <1>3 DEF RemoveProject
    <2>2. \/ EntryOf(p.name) = {} /\ UNCHANGED <<cfg, misnamed>>
          \/ \E k \in EntryOf(p.name) :
                /\ cfg' = RemoveAt(cfg, k)
                /\ misnamed' = (misnamed \/ cfg[k].path # p.path \/ cfg[k].auto)
        BY <1>3 DEF RemoveProject
    <2>3. ~misnamed /\ ~clobbered /\ ~ambiguous /\ op' = "truncate"
        BY <2>1, <2>2, <1>0 DEF Request, TypeInv, TypeOK
    <2>4. ToSet(cfg) = due
        BY <2>1, <2>3, SetsOutFromDue
    <2>5. ToSet(cfg') = ToSet(cfg) \ {e}
        <3>1. CASE EntryOf(p.name) = {} /\ UNCHANGED cfg
            <4>1. \A k \in DOMAIN cfg : cfg[k].name # p.name
                BY <1>0, <3>1, NoEntryOfName
            <4> QED
                BY <3>1, <4>1 DEF ToSet
        <3>2. CASE \E k \in EntryOf(p.name) :
                    /\ cfg' = RemoveAt(cfg, k)
                    /\ misnamed' = (misnamed \/ cfg[k].path # p.path \/ cfg[k].auto)
            <4>1. PICK k \in DOMAIN cfg :
                    /\ cfg[k].name = p.name /\ cfg[k].path = p.path /\ ~cfg[k].auto
                    /\ cfg' = RemoveAt(cfg, k)
                BY <3>2 DEF EntryOf
            <4>2. cfg[k] = e
                <5>1. cfg[k] \in NamedEntry
                    BY <1>0, ElementOfSeq, LenProperties
                <5> QED
                    BY <4>1, <5>1 DEF NamedEntry
            <4>3. \A m \in DOMAIN cfg \ {k} : cfg[m] # e
                BY <2>3, <4>1 DEF NamesInv, Unique, Unambiguous
            <4> DEFINE t == RemoveAt(cfg, k)
            <4>4. /\ \A m \in DOMAIN t : Before(k, m) \in DOMAIN cfg \ {k} /\ t[m] = cfg[Before(k, m)]
                  /\ \A m \in DOMAIN cfg \ {k} : cfg[m] \in ToSet(t)
                BY <1>0, RemoveAtElements
            <4> HIDE DEF t, e
            <4>5. ToSet(t) = ToSet(cfg) \ {e}
                BY <4>2, <4>3, <4>4 DEF ToSet
            <4> QED
                BY <4>1, <4>5 DEF t
        <3> QED
            BY <2>2, <3>1, <3>2
    <2> HIDE DEF e, p
    <2> QED
        BY <2>1, <2>3, <2>4, <2>5 DEF KeepInv, Emptied
<1>4. ASSUME TruncateConfig PROVE Goal
    BY <1>4 DEF TruncateConfig, FileChanges, KeepInv, Loadable, Emptied
<1>5. ASSUME WriteConfig PROVE Goal
    <2>1. Defaulted(cfg) = cfg /\ ToSet(cfg) = want
        BY <1>0, <1>5, NamedKept DEF WriteConfig, KeepInv
    <2>2. file' = cfg /\ due' = want /\ op' = "serve" /\ cfg' = cfg
        BY <1>5 DEF WriteConfig, FileChanges
    <2>3. cfg = <<>> => ToSet(cfg) = {}
        BY EmptySeq, LenProperties DEF ToSet
    <2> QED
        BY <2>1, <2>2, <2>3 DEF Emptied
<1>6. ASSUME Serve PROVE Goal
    BY <1>6 DEF Serve, KeepInv, Emptied
<1>7. ASSUME SaveFails PROVE Goal
    BY <1>7 DEF SaveFails, KeepInv, Emptied
<1>8. ASSUME WatchConfig PROVE Goal
    BY <1>8 DEF WatchConfig, KeepInv, Emptied
<1>9. ASSUME LoadConfig PROVE Goal
    BY <1>9 DEF LoadConfig, KeepInv, Emptied
<1>10. ASSUME Apply PROVE Goal
    <2>1. cfg' # <<>>
        BY <1>10 DEF Apply, TypeInv, TypeOK
    <2> QED
        BY <1>10, <2>1 DEF Apply, KeepInv, Emptied
<1>11. ASSUME Boot PROVE Goal
    BY <1>11 DEF Boot, KeepInv, Emptied, Loadable, LifeInv
<1>12. ASSUME Die PROVE Goal
    BY <1>12 DEF Die, KeepInv, Emptied
<1>13. ASSUME UNCHANGED vars PROVE Goal
    BY <1>13 DEF vars, KeepInv, Emptied
<1>14. ASSUME NEW p \in NewRepository, MakeRepository(p) PROVE Goal
    BY <1>14 DEF MakeRepository, KeepInv, Emptied
<1> QED
    BY <1>1, <1>2, <1>3, <1>4, <1>5, <1>6, <1>7, <1>8, <1>9, <1>10, <1>11, <1>12, <1>13, <1>14
    DEF Next, Tools, Holder, Watch

\* The entries that were asked for are those of config.yaml, through failed saves, restarts
\* and reloads, unless a tool has set out from another configuration than the file's, or two
\* entries have shared a name or a path.
THEOREM RequestsAreKept == Spec => []FileKeepsRequests
<1>1. KeepInv => FileKeepsRequests
    BY DEF KeepInv, FileKeepsRequests
<1>2. SyncInv => LifeInv
    BY DEF SyncInv
<1>3. Spec => [](TypeInv /\ NamesInv /\ KeepInv)
    BY <1>2, InSync, NamesInit, NamesStep, KeepInit, KeepStep, TypeInit, TypeStep, PTL DEF Spec
<1> QED
    BY <1>1, <1>3, PTL

-----------------------------------------------------------------------------
(* What the server lists.                                                  *)

\* The inductive invariant: while projects and served are slices of one array they agree as
\* far as both go, and what is beyond the server's slice has been added since; a path that
\* has been added since is that of one project only.
ServeInv ==
    /\ up /\ op = "free" /\ ~failed => served = projects
    /\ ~up => unlisted = {}
    /\ \A p \in ToSet(projects) : p \in ToSet(served) \/ p.path \in unlisted
    /\ \A i, j \in DOMAIN projects :
          projects[i].path \in unlisted /\ projects[i].path = projects[j].path => i = j
    /\ shared => \A k \in DOMAIN projects :
          IF k <= Len(served) THEN served[k] = projects[k] ELSE projects[k].path \in unlisted

LEMMA ServeInit == Init => ServeInv
<1>1. DOMAIN <<>> = {}
    BY EmptySeq, LenProperties
<1> QED
    BY <1>1 DEF Init, ServeInv, ToSet

\* A list the server has just been handed.
LEMMA ServedWhole ==
    ASSUME served' = projects', unlisted' = {}, projects' \in Seq(Project), failed' \in BOOLEAN
    PROVE  ServeInv'
BY LenProperties DEF ServeInv, ToSet

\* A step that leaves the lists alone and does not end a call without a failure.
LEMMA ListsUntouched ==
    ASSUME ServeInv, UNCHANGED memVars,
           up' /\ op' = "free" /\ ~failed' => up /\ op = "free" /\ ~failed,
           up => up'
    PROVE  ServeInv'
BY DEF ServeInv, memVars

LEMMA ServeAdd ==
    ASSUME TypeInv, ServeInv, NEW p \in Path, NEW b \in Label, AddProject(p, b)
    PROVE  ServeInv'
<1>1. PICK n \in 0..Len(projects) :
        LET project == [path |-> p, name |-> <<b, n>>]
        IN  /\ Request
            /\ p \notin PathsOf(projects)
            /\ projects' = Append(projects, project)
            /\ \/ /\ shared /\ Len(served) > Len(projects)
                  /\ served' = [served EXCEPT ![Len(projects) + 1] = project]
                  /\ UNCHANGED shared
               \/ /\ ~(shared /\ Len(served) > Len(projects))
                  /\ UNCHANGED served
                  /\ shared' \in {shared, FALSE}
            /\ unlisted' = unlisted \cup {p}
            /\ UNCHANGED lifeVars
    BY DEF AddProject
<1> DEFINE q == [path |-> p, name |-> <<b, n>>]
           l == Len(projects)
           m == Len(served)
<1>2. projects \in Seq(Project) /\ served \in Seq(Project) /\ shared \in BOOLEAN
      /\ l \in Nat /\ m \in Nat /\ DOMAIN projects = 1..l /\ DOMAIN served = 1..m
    BY LenProperties DEF TypeInv, TypeOK
<1>3. q \in Project
    BY <1>2 DEF Project, Name
<1>4. /\ q.path = p
      /\ \/ /\ shared /\ m > l
            /\ served' = [served EXCEPT ![l + 1] = q]
            /\ UNCHANGED shared
         \/ /\ ~(shared /\ m > l)
            /\ UNCHANGED served
            /\ shared' \in {shared, FALSE}
    BY <1>1
<1> HIDE DEF q, l, m
<1>5. /\ DOMAIN projects' = 1..(l + 1) /\ \A k \in 1..l : projects'[k] = projects[k]
      /\ projects'[l + 1] = q
    <2>1. projects' = Append(projects, q)
        BY <1>1 DEF q
    <2> QED
        BY <2>1, <1>2, <1>3, AppendProperties, LenProperties DEF l
<1>6. /\ DOMAIN served' = 1..m /\ Len(served') = m
      /\ \A k \in 1..m : served'[k] = served[k] \/ (shared /\ shared' /\ k = l + 1 /\ served'[k] = q)
      /\ shared' => shared
      /\ shared' /\ l + 1 <= m => served'[l + 1] = q
    <2>1. CASE shared /\ m > l /\ served' = [served EXCEPT ![l + 1] = q] /\ UNCHANGED shared
        <3>1. Len(served') = m
            BY <2>1, <1>2, <1>3, ExceptSeq DEF m
        <3> QED
            BY <2>1, <3>1, <1>2, <1>3
    <2>2. CASE ~(shared /\ m > l) /\ UNCHANGED served /\ shared' \in {shared, FALSE}
        <3>1. shared' => shared
            BY <2>2
        <3>2. l + 1 <= m => m > l
            BY <1>2
        <3>3. DOMAIN served' = 1..m /\ Len(served') = m /\ \A k \in 1..m : served'[k] = served[k]
            BY <2>2, <1>2 DEF m
        <3> QED
            BY <2>2, <3>1, <3>2, <3>3
    <2> QED
        BY <2>1, <2>2, <1>4
<1>7. \A k \in 1..(l + 1) : k \in 1..l \/ k = l + 1
    BY <1>2
<1>8. \A k \in 1..l : projects[k].path # p
    BY <1>1, <1>2 DEF PathsOf
<1>9. unlisted' = unlisted \cup {p} /\ op' = "truncate" /\ up'
    BY <1>1 DEF Request, lifeVars
<1>10. \A i, j \in DOMAIN projects' :
          projects'[i].path \in unlisted' /\ projects'[i].path = projects'[j].path => i = j
    BY <1>2, <1>4, <1>5, <1>7, <1>8, <1>9 DEF ServeInv
<1>11. shared' => \A k \in DOMAIN projects' :
          IF k <= Len(served') THEN served'[k] = projects'[k] ELSE projects'[k].path \in unlisted'
    <2> SUFFICES ASSUME shared', NEW k \in 1..(l + 1)
                 PROVE  IF k <= m THEN served'[k] = projects'[k] ELSE projects'[k].path \in unlisted'
        BY <1>5, <1>6
    <2>1. CASE k \in 1..l
        BY <2>1, <1>2, <1>5, <1>6, <1>9 DEF ServeInv, m
    <2>2. CASE k = l + 1
        BY <2>2, <1>4, <1>5, <1>6, <1>9
    <2> QED
        BY <2>1, <2>2, <1>7
<1>12. \A e \in ToSet(projects') : e \in ToSet(served') \/ e.path \in unlisted'
    <2> SUFFICES ASSUME NEW k \in 1..(l + 1)
                 PROVE  projects'[k] \in ToSet(served') \/ projects'[k].path \in unlisted'
        BY <1>5 DEF ToSet
    <2>1. CASE k = l + 1
        BY <2>1, <1>4, <1>5, <1>9
    <2>2. CASE k \in 1..l /\ shared'
        BY <2>2, <1>2, <1>5, <1>6, <1>11 DEF ToSet
    <2>3. CASE k \in 1..l /\ ~shared'
        <3>1. projects[k] \in ToSet(served) \/ projects[k].path \in unlisted
            BY <2>3, <1>2 DEF ServeInv, ToSet
        <3>2. \A j \in 1..m : served'[j] = served[j]
            BY <2>3, <1>6
        <3> QED
            BY <2>3, <3>1, <3>2, <1>2, <1>5, <1>6, <1>9 DEF ToSet
    <2> QED
        BY <2>1, <2>2, <2>3, <1>7
<1> QED
    BY <1>9, <1>10, <1>11, <1>12 DEF ServeInv

LEMMA ServeRemove ==
    ASSUME TypeInv, ServeInv, NEW i \in DOMAIN projects, RemoveProject(i)
    PROVE  ServeInv'
<1> DEFINE p == projects[i]
           l == Len(projects)
           m == Len(served)
           t == RemoveAt(projects, i)
<1>1. /\ up /\ op' = "truncate" /\ UNCHANGED <<up, shared>>
      /\ projects' = t
      /\ served' = IF shared THEN Shifted(i) ELSE served
      /\ unlisted' = unlisted \ {p.path}
    BY DEF RemoveProject, Request, lifeVars
<1>2. projects \in Seq(Project) /\ served \in Seq(Project) /\ shared \in BOOLEAN
      /\ l \in Nat /\ m \in Nat /\ DOMAIN projects = 1..l /\ DOMAIN served = 1..m
    BY LenProperties DEF TypeInv, TypeOK
<1>3. /\ i \in 1..l /\ DOMAIN t = 1..(l - 1)
      /\ \A k \in 1..(l - 1) : t[k] = IF k < i THEN projects[k] ELSE projects[k + 1]
    BY <1>2, RemoveAtProperties
<1>4. /\ \A k \in DOMAIN t : Before(i, k) \in DOMAIN projects \ {i} /\ t[k] = projects[Before(i, k)]
      /\ \A k, j \in DOMAIN t : k # j => Before(i, k) # Before(i, j)
    BY <1>2, RemoveAtElements
<1>5. DOMAIN served' = 1..m /\ Len(served') = m
    <2>1. CASE shared
        <3>1. DOMAIN served' = 1..m
            BY <1>1, <1>2, <2>1 DEF Shifted
        <3>2. served' = [k \in 1..m |-> served'[k]]
            BY <1>1, <1>2, <2>1 DEF Shifted
        <3>3. Len(served') = m
            BY <1>2, <3>2
        <3> QED
            BY <3>1, <3>3
    <2>2. CASE ~shared
        BY <1>1, <1>2, <2>2
    <2> QED
        BY <2>1, <2>2
<1>6. shared => \A k \in 1..m :
        served'[k] = IF k < i \/ k >= l THEN served[k] ELSE projects[k + 1]
    BY <1>1, <1>2 DEF Shifted
<1> HIDE DEF l, m, t, p
\* A path added since is that of one project, so removing a project forgets no other.
<1>7. \A k \in DOMAIN t : t[k].path \in unlisted => t[k].path # p.path
    <2> SUFFICES ASSUME NEW k \in DOMAIN t, t[k].path \in unlisted, t[k].path = p.path PROVE FALSE
        OBVIOUS
    <2>1. Before(i, k) = i
        BY <1>4 DEF ServeInv, p
    <2> QED
        BY <2>1, <1>4
<1>8. \A k, j \in DOMAIN t : t[k].path \in unlisted' /\ t[k].path = t[j].path => k = j
    BY <1>1, <1>4 DEF ServeInv
<1>9. shared => \A k \in 1..(l - 1) :
        IF k <= m THEN served'[k] = t[k] ELSE t[k].path \in unlisted'
    <2> SUFFICES ASSUME shared, NEW k \in 1..(l - 1)
                 PROVE  IF k <= m THEN served'[k] = t[k] ELSE t[k].path \in unlisted'
        OBVIOUS
    <2>1. \A j \in 1..l : IF j <= m THEN served[j] = projects[j] ELSE projects[j].path \in unlisted
        BY <1>2 DEF ServeInv, m
    <2>2. k \in 1..l /\ k + 1 \in 1..l /\ ~(k >= l)
        BY <1>2
    <2>3. CASE k <= m
        <3>1. served'[k] = IF k < i THEN served[k] ELSE projects[k + 1]
            BY <1>2, <1>6, <2>2, <2>3
        <3> QED
            BY <3>1, <2>1, <2>2, <2>3, <1>3
    <2>4. CASE ~(k <= m)
        <3>1. ~(k + 1 <= m)
            BY <1>2, <2>4
        <3>2. t[k].path \in unlisted
            BY <2>1, <2>2, <2>4, <3>1, <1>3
        <3>3. t[k].path # p.path
            BY <3>2, <1>3, <1>7
        <3> QED
            BY <2>4, <3>2, <3>3, <1>1
    <2> QED
        BY <2>3, <2>4
<1>10. \A e \in ToSet(t) : e \in ToSet(served') \/ e.path \in unlisted'
    <2> SUFFICES ASSUME NEW k \in DOMAIN t
                 PROVE  t[k] \in ToSet(served') \/ t[k].path \in unlisted'
        BY DEF ToSet
    <2>1. CASE shared
        <3>1. k \in 1..(l - 1)
            BY <1>3
        <3>2. CASE k <= m
            <4>1. served'[k] = t[k] /\ k \in DOMAIN served'
                BY <2>1, <3>1, <3>2, <1>2, <1>5, <1>9
            <4> QED
                BY <4>1 DEF ToSet
        <3>3. CASE ~(k <= m)
            BY <2>1, <3>1, <3>3, <1>9
        <3> QED
            BY <3>2, <3>3
    <2>2. CASE ~shared
        <3>1. t[k] \in ToSet(projects)
            BY <1>4 DEF ToSet
        <3>2. t[k] \in ToSet(served) \/ t[k].path \in unlisted
            BY <3>1 DEF ServeInv
        <3> QED
            BY <2>2, <3>2, <1>1, <1>7
    <2> QED
        BY <2>1, <2>2
<1> QED
    BY <1>1, <1>3, <1>5, <1>8, <1>9, <1>10 DEF ServeInv

LEMMA ServeStep == TypeInv /\ TypeInv' /\ ServeInv /\ [Next]_vars => ServeInv'
<1> SUFFICES ASSUME TypeInv, TypeInv', ServeInv, [Next]_vars PROVE ServeInv'
    OBVIOUS
<1>0. projects' \in Seq(Project) /\ failed' \in BOOLEAN /\ failed \in BOOLEAN
    BY DEF TypeInv, TypeOK
<1> USE DEF lockVars, lifeVars, boundVars
<1>1. ASSUME NEW f \in UserFile, UserEdit(f) PROVE ServeInv'
    BY <1>1, ListsUntouched DEF UserEdit
<1>2. ASSUME NEW p \in Path, NEW b \in Label, AddProject(p, b) PROVE ServeInv'
    BY <1>2, ServeAdd
<1>3. ASSUME NEW i \in DOMAIN projects, RemoveProject(i) PROVE ServeInv'
    BY <1>3, ServeRemove
<1>4. ASSUME TruncateConfig PROVE ServeInv'
    BY <1>4, ListsUntouched DEF TruncateConfig
<1>5. ASSUME WriteConfig PROVE ServeInv'
    BY <1>5, ListsUntouched DEF WriteConfig
<1>6. ASSUME Serve PROVE ServeInv'
    BY <1>0, <1>6, ServedWhole DEF Serve
<1>7. ASSUME SaveFails PROVE ServeInv'
    BY <1>7, ListsUntouched DEF SaveFails
<1>8. ASSUME WatchConfig PROVE ServeInv'
    BY <1>8, ListsUntouched DEF WatchConfig
<1>9. ASSUME LoadConfig PROVE ServeInv'
    BY <1>9, ListsUntouched DEF LoadConfig
<1>10. ASSUME Apply PROVE ServeInv'
    BY <1>0, <1>10, ServedWhole DEF Apply
<1>11. ASSUME Boot PROVE ServeInv'
    BY <1>0, <1>11, ServedWhole DEF Boot, ServeInv
<1>12. ASSUME Die PROVE ServeInv'
    BY <1>0, <1>12, ServedWhole DEF Die
<1>13. ASSUME UNCHANGED vars PROVE ServeInv'
    BY <1>13, ListsUntouched DEF vars
<1>14. ASSUME NEW p \in NewRepository, MakeRepository(p) PROVE ServeInv'
    BY <1>14, ListsUntouched DEF MakeRepository
<1> QED
    BY <1>1, <1>2, <1>3, <1>4, <1>5, <1>6, <1>7, <1>8, <1>9, <1>10, <1>11, <1>12, <1>13, <1>14
    DEF Next, Tools, Holder, Watch

\* The server lists the projects there are; while a tool is at work its list may repeat one,
\* but although remove_project shifts the array under its readers it lacks only what has
\* been added since.
THEOREM ProjectsAreServed == Spec => []ServesProjects
<1>1. ServeInv => ServesProjects
    BY DEF ServeInv, ServesProjects
<1>2. Spec => []ServeInv
    BY TypeInit, TypeStep, ServeInit, ServeStep, PTL DEF Spec
<1> QED
    BY <1>1, <1>2, PTL
=============================================================================
