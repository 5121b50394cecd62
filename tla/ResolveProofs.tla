---------------------------- MODULE ResolveProofs ----------------------------
(***************************************************************************)
(* Proofs about resolveProjects, for any configuration and any tree: the   *)
(* explicit entries are all listed, and if they have names and paths of    *)
(* their own, so have all the projects, however many auto roots overlap.   *)
(***************************************************************************)
EXTENDS ConfigSync, DiscoveryProofs

NamedEntry == [path : Path, name : Name, auto : BOOLEAN]
ProjectOf(d) == [path |-> d.path, name |-> d.name]

\* Every explicit entry is the project of its name and path.
Lists(list, dirs) == \A i \in DOMAIN dirs : ~dirs[i].auto => ProjectOf(dirs[i]) \in ToSet(list)

\* One more project.
LEMMA AppendProject ==
    ASSUME NEW list \in Seq(Project), NEW e \in Project
    PROVE  /\ Append(list, e) \in Seq(Project)
           /\ ToSet(Append(list, e)) = ToSet(list) \cup {e}
           /\ NamesOf(Append(list, e)) = NamesOf(list) \cup {e.name}
           /\ PathsOf(Append(list, e)) = PathsOf(list) \cup {e.path}
           /\ Distinct(list) /\ e.path \notin PathsOf(list) /\ e.name \notin NamesOf(list)
                => Distinct(Append(list, e))
<1> DEFINE n == Len(list)
           new == Append(list, e)
<1>1. /\ n \in Nat /\ DOMAIN list = 1..n /\ DOMAIN new = 1..(n + 1) /\ new \in Seq(Project)
      /\ \A i \in 1..n : new[i] = list[i]
      /\ new[n + 1] = e
    BY AppendProperties, LenProperties
<1>2. \A i \in 1..(n + 1) : i \in 1..n \/ i = n + 1
    BY <1>1
<1>3. \A i \in 1..n : i \in 1..(n + 1)
    BY <1>1
<1>4. n + 1 \in 1..(n + 1)
    BY <1>1
<1> HIDE DEF n, new
<1>5. ToSet(new) = ToSet(list) \cup {e}
    BY <1>1, <1>2, <1>3, <1>4 DEF ToSet
<1>6. NamesOf(new) = NamesOf(list) \cup {e.name}
    BY <1>1, <1>2, <1>3, <1>4 DEF NamesOf
<1>7. PathsOf(new) = PathsOf(list) \cup {e.path}
    BY <1>1, <1>2, <1>3, <1>4 DEF PathsOf
<1>8. ASSUME Distinct(list), e.path \notin PathsOf(list), e.name \notin NamesOf(list)
      PROVE  Distinct(new)
    <2> SUFFICES ASSUME NEW i \in 1..(n + 1), NEW j \in 1..(n + 1), i # j
                 PROVE  new[i].path # new[j].path /\ new[i].name # new[j].name
        BY <1>1 DEF Distinct
    <2>1. \A k \in 1..n : list[k].path # e.path /\ list[k].name # e.name
        BY <1>1, <1>8 DEF PathsOf, NamesOf
    <2>2. CASE i \in 1..n /\ j \in 1..n
        BY <2>2, <1>1, <1>8 DEF Distinct
    <2>3. CASE i = n + 1 \/ j = n + 1
        BY <2>1, <2>3, <1>1, <1>2
    <2> QED
        BY <2>2, <2>3, <1>2
<1> QED
    BY <1>1, <1>5, <1>6, <1>7, <1>8 DEF new

-----------------------------------------------------------------------------
(* Expand: the loop over what has been found below an auto root.           *)

Loop(list, found) == FoldLeft(Listed, list, found)

LEMMA ListedSteps ==
    ASSUME NEW list \in Seq(Project), NEW found \in Seq(Project)
    PROVE  \E r : /\ r[0] = list
                  /\ \A k \in 1..Len(found) : r[k] = Listed(r[k - 1], found[k])
                  /\ r[Len(found)] = Loop(list, found)
<1> DEFINE n == Len(found)
           V == Seq(Project)
           G == [kv \in (1..n) \X V |-> Listed(kv[2], found[kv[1]])]
<1>1. n \in Nat /\ DOMAIN found = 1..n
    BY LenProperties
<1>2. G \in [(1..n) \X V -> V]
    <2> SUFFICES ASSUME NEW k \in 1..n, NEW out \in V PROVE Listed(out, found[k]) \in V
        OBVIOUS
    <2>1. found[k] \in Project
        BY ElementOfSeq
    <2> QED
        BY <2>1, AppendProperties DEF Listed
<1>3. PICK g \in [SUBSET (1..n) -> V] : Iterates(g, 1..n, list, G)
    <2> HIDE DEF n, V, G
    <2>1. list \in V
        BY DEF V
    <2> QED
        BY <1>1, <1>2, <2>1, FoldExists
<1> DEFINE Equation(it) ==
        it = [s \in SUBSET DOMAIN found |->
                IF s = {} THEN list ELSE Listed(it[s \ {Max(s)}], found[Max(s)])]
           iter == CHOOSE it : Equation(it)
<1>4. Equation(g)
    <2> SUFFICES ASSUME NEW s \in SUBSET (1..n), s # {}
                 PROVE  G[<<Max(s), g[s \ {Max(s)}]>>] = Listed(g[s \ {Max(s)}], found[Max(s)])
        BY <1>1, <1>3 DEF Iterates
    <2>1. Max(s) \in 1..n /\ g[s \ {Max(s)}] \in V
        BY <1>1, MaxOfPart
    <2> QED
        BY <2>1
<1>5. Equation(iter)
    <2> HIDE DEF Equation
    <2> QED
        BY <1>4
<1>6. Loop(list, found) = iter[1..n]
    BY <1>1 DEF Loop, FoldLeft, MapThenFoldSet
<1> DEFINE r == [k \in 0..n |-> iter[1..k]]
<1>7. r[0] = list
    <2>1. 1..0 = {}
        OBVIOUS
    <2> HIDE DEF iter
    <2> QED
        BY <1>1, <1>5, <2>1
<1>8. ASSUME NEW k \in 1..n PROVE r[k] = Listed(r[k - 1], found[k])
    <2>1. 1..k # {} /\ Max(1..k) = k /\ (1..k) \ {Max(1..k)} = 1..(k - 1)
        BY PrefixFacts
    <2>2. 1..k \in SUBSET DOMAIN found
        BY <1>1
    <2> HIDE DEF iter
    <2>3. iter[1..k] = Listed(iter[1..(k - 1)], found[k])
        BY <1>5, <2>1, <2>2
    <2>4. k \in 0..n /\ k - 1 \in 0..n
        BY <1>1
    <2> QED
        BY <2>3, <2>4
<1>9. r[n] = Loop(list, found)
    BY <1>1, <1>6
<1> HIDE DEF iter, r
<1> QED
    BY <1>7, <1>8, <1>9

\* What a list becomes that keeps what it has, and keeps names and paths apart.
Extends(out, list) ==
    /\ out \in Seq(Project)
    /\ ToSet(list) \subseteq ToSet(out)
    /\ Distinct(list) => Distinct(out)

\* Found directories that are new to the list and have names of their own extend it: a
\* path the list has already is passed over.
LEMMA LoopExtends ==
    ASSUME NEW list \in Seq(Project), NEW found \in Seq(Project),
           \A i \in 1..Len(found) : found[i].name \notin NamesOf(list),
           \A i, j \in 1..Len(found) : i # j => found[i].name # found[j].name
    PROVE  Extends(Loop(list, found), list)
<1> DEFINE n == Len(found)
           Sound(out, k) ==
              /\ Extends(out, list)
              /\ NamesOf(out) \subseteq NamesOf(list) \cup {found[i].name : i \in 1..k}
<1>1. n \in Nat
    BY LenProperties
<1>2. PICK r : /\ r[0] = list
               /\ \A k \in 1..n : r[k] = Listed(r[k - 1], found[k])
               /\ r[n] = Loop(list, found)
    BY ListedSteps
<1> DEFINE S == {k \in 0..n : Sound(r[k], k)}
<1>3. 0 \in S
    <2>1. Sound(list, 0)
        BY DEF Extends
    <2> HIDE DEF Sound
    <2> QED
        BY <1>1, <1>2, <2>1
<1>4. ASSUME NEW k \in Nat, k < n, k \in S PROVE k + 1 \in S
    <2> DEFINE out == r[k]
               e == found[k + 1]
    <2>1. Sound(out, k) /\ k + 1 \in 1..n /\ (k + 1) - 1 = k
        BY <1>1, <1>4
    <2>2. r[k + 1] = Listed(out, e)
        <3>1. r[k + 1] = Listed(r[(k + 1) - 1], found[k + 1])
            BY <1>2, <2>1
        <3> QED
            BY <2>1, <3>1
    <2>3. e \in Project
        BY <2>1, ElementOfSeq
    <2>4. out \in Seq(Project)
        BY <2>1 DEF Extends
    <2>5. e.name \notin NamesOf(out)
        BY <2>1
    <2>6. {found[i].name : i \in 1..k} \subseteq {found[i].name : i \in 1..(k + 1)}
          /\ e.name \in {found[i].name : i \in 1..(k + 1)}
        BY <2>1
    <2> HIDE DEF out, e
    <2>7. CASE e.path \in PathsOf(out)
        BY <2>1, <2>2, <2>6, <2>7 DEF Listed
    <2>8. CASE e.path \notin PathsOf(out)
        <3>1. Listed(out, e) = Append(out, e)
            BY <2>8 DEF Listed
        <3>2. Extends(Append(out, e), list)
            BY <2>1, <2>3, <2>4, <2>5, <2>8, AppendProject DEF Extends
        <3>3. NamesOf(Append(out, e)) = NamesOf(out) \cup {e.name}
            BY <2>3, <2>4, AppendProject
        <3> DEFINE A == {found[i].name : i \in 1..k}
                   B == {found[i].name : i \in 1..(k + 1)}
        <3>4. NamesOf(out) \subseteq NamesOf(list) \cup A /\ A \subseteq B /\ e.name \in B
            BY <2>1, <2>6
        <3> HIDE DEF A, B
        <3>5. NamesOf(Append(out, e)) \subseteq NamesOf(list) \cup B
            BY <3>3, <3>4
        <3>6. r[k + 1] = Append(out, e)
            BY <2>2, <3>1
        <3>7. Sound(r[k + 1], k + 1)
            BY <3>2, <3>5, <3>6 DEF B
        <3> HIDE DEF Sound
        <3> QED
            BY <1>1, <2>1, <3>7
    <2> QED
        BY <2>7, <2>8
<1>5. n \in S
    <2> HIDE DEF S, n
    <2> QED
        BY <1>1, <1>3, <1>4, UpTo
<1> QED
    BY <1>2, <1>5

\* What an auto root holds besides extends the list, whatever names it has.
LEMMA ExpandExtends ==
    ASSUME NEW list \in Seq(Project), NEW d, d.path \in Path, NEW marked \in SUBSET Path
    PROVE  Extends(Expand(list, d, marked), list)
<1>1. ASSUME NEW root \in Path, NEW paths \in Seq(Path), NEW used,
             IsFiniteSet(used), used = NamesOf(list)
      PROVE  Extends(Loop(list, UniqueNames(root, paths, used)), list)
    <2> DEFINE found == UniqueNames(root, paths, used)
    <2>1. Len(found) = Len(paths)
        BY <1>1, NamesAreUnique
    <2>2. found \in Seq(Project)
        BY <1>1, NamesAreUnique DEF Project, Name
    <2>3. \A i \in 1..Len(paths) : found[i].name \notin used
        BY <1>1, NamesAreUnique
    <2>4. \A i, j \in 1..Len(paths) : i # j => found[i].name # found[j].name
        BY <1>1, NamesAreUnique
    <2> HIDE DEF found
    <2> QED
        BY <1>1, <2>1, <2>2, <2>3, <2>4, LoopExtends DEF found
<1>2. Discovered[d.path][marked] \in Seq(Path)
    BY DiscoveredOnce
<1>3. IsFiniteSet(NamesOf(list))
    <2> DEFINE f == [i \in DOMAIN list |-> list[i].name]
    <2>1. IsFiniteSet(DOMAIN list)
        BY FS_Interval, LenProperties
    <2>2. f \in Surjection(DOMAIN list, NamesOf(list))
        BY DEF NamesOf, Surjection
    <2> QED
        BY <2>1, <2>2, FS_Surjection
<1>4. Expand(list, d, marked)
        = Loop(list, UniqueNames(d.path, Discovered[d.path][marked], NamesOf(list)))
    BY DEF Expand, Loop, FoldLeft, MapThenFoldSet
<1> QED
    BY <1>1, <1>2, <1>3, <1>4

-----------------------------------------------------------------------------
(* The two loops of resolveProjects.                                       *)

FirstLoop(dirs) == FoldLeft(Explicitly, <<>>, dirs)

LEMMA EntryTypes ==
    ASSUME NEW d \in NamedEntry
    PROVE  d.path \in Path /\ d.name \in Name /\ d.auto \in BOOLEAN /\ ProjectOf(d) \in Project
BY DEF NamedEntry, ProjectOf, Project

LEMMA ExplicitlySteps ==
    ASSUME NEW dirs \in Seq(NamedEntry)
    PROVE  \E r : /\ r[0] = <<>>
                  /\ \A k \in 1..Len(dirs) : r[k] = Explicitly(r[k - 1], dirs[k])
                  /\ r[Len(dirs)] = FirstLoop(dirs)
<1> DEFINE n == Len(dirs)
           V == Seq(Project)
           G == [kv \in (1..n) \X V |-> Explicitly(kv[2], dirs[kv[1]])]
<1>1. n \in Nat /\ DOMAIN dirs = 1..n
    BY LenProperties
<1>2. G \in [(1..n) \X V -> V]
    <2> SUFFICES ASSUME NEW k \in 1..n, NEW out \in V PROVE Explicitly(out, dirs[k]) \in V
        OBVIOUS
    <2>1. ProjectOf(dirs[k]) \in Project
        BY ElementOfSeq, EntryTypes
    <2> QED
        BY <2>1, AppendProperties DEF Explicitly, ProjectOf
<1>3. PICK g \in [SUBSET (1..n) -> V] : Iterates(g, 1..n, <<>>, G)
    <2> HIDE DEF n, V, G
    <2>1. <<>> \in V
        BY EmptySeq DEF V
    <2> QED
        BY <1>1, <1>2, <2>1, FoldExists
<1> DEFINE Equation(it) ==
        it = [s \in SUBSET DOMAIN dirs |->
                IF s = {} THEN <<>> ELSE Explicitly(it[s \ {Max(s)}], dirs[Max(s)])]
           iter == CHOOSE it : Equation(it)
<1>4. Equation(g)
    <2> SUFFICES ASSUME NEW s \in SUBSET (1..n), s # {}
                 PROVE  G[<<Max(s), g[s \ {Max(s)}]>>]
                            = Explicitly(g[s \ {Max(s)}], dirs[Max(s)])
        BY <1>1, <1>3 DEF Iterates
    <2>1. Max(s) \in 1..n /\ g[s \ {Max(s)}] \in V
        BY <1>1, MaxOfPart
    <2> QED
        BY <2>1
<1>5. Equation(iter)
    <2> HIDE DEF Equation
    <2> QED
        BY <1>4
<1>6. FirstLoop(dirs) = iter[1..n]
    BY <1>1 DEF FirstLoop, FoldLeft, MapThenFoldSet
<1> DEFINE r == [k \in 0..n |-> iter[1..k]]
<1>7. r[0] = <<>>
    <2>1. 1..0 = {}
        OBVIOUS
    <2> HIDE DEF iter
    <2> QED
        BY <1>1, <1>5, <2>1
<1>8. ASSUME NEW k \in 1..n PROVE r[k] = Explicitly(r[k - 1], dirs[k])
    <2>1. 1..k # {} /\ Max(1..k) = k /\ (1..k) \ {Max(1..k)} = 1..(k - 1)
        BY PrefixFacts
    <2>2. 1..k \in SUBSET DOMAIN dirs
        BY <1>1
    <2> HIDE DEF iter
    <2>3. iter[1..k] = Explicitly(iter[1..(k - 1)], dirs[k])
        BY <1>5, <2>1, <2>2
    <2>4. k \in 0..n /\ k - 1 \in 0..n
        BY <1>1
    <2> QED
        BY <2>3, <2>4
<1>9. r[n] = FirstLoop(dirs)
    BY <1>1, <1>6
<1> HIDE DEF iter, r
<1> QED
    BY <1>7, <1>8, <1>9

\* The explicit entries are listed, each with a name and a path of its own if the
\* configuration is good.
LEMMA FirstLoopListsExplicit ==
    ASSUME NEW dirs \in Seq(NamedEntry)
    PROVE  /\ FirstLoop(dirs) \in Seq(Project)
           /\ Lists(FirstLoop(dirs), dirs)
           /\ Unambiguous(dirs) => Distinct(FirstLoop(dirs))
<1> DEFINE n == Len(dirs)
           From(k) == {ProjectOf(dirs[i]) : i \in {i \in 1..k : ~dirs[i].auto}}
           Sound(out, k) ==
              /\ out \in Seq(Project)
              /\ ToSet(out) = From(k)
              /\ Unambiguous(dirs) => Distinct(out)
<1>1. n \in Nat /\ DOMAIN dirs = 1..n
    BY LenProperties
<1>2. PICK r : /\ r[0] = <<>>
               /\ \A k \in 1..n : r[k] = Explicitly(r[k - 1], dirs[k])
               /\ r[n] = FirstLoop(dirs)
    BY ExplicitlySteps
<1> DEFINE S == {k \in 0..n : Sound(r[k], k)}
<1>3. 0 \in S
    <2>1. <<>> \in Seq(Project) /\ DOMAIN <<>> = {} /\ 1..0 = {}
        BY EmptySeq, LenProperties
    <2>2. Sound(<<>>, 0)
        BY <2>1 DEF ToSet, Distinct
    <2> HIDE DEF Sound
    <2> QED
        BY <1>1, <1>2, <2>2
<1>4. ASSUME NEW k \in Nat, k < n, k \in S PROVE k + 1 \in S
    <2> DEFINE out == r[k]
               d == dirs[k + 1]
    <2>1. Sound(out, k) /\ k + 1 \in 1..n /\ (k + 1) - 1 = k
        BY <1>1, <1>4
    <2>2. r[k + 1] = Explicitly(out, d)
        <3>1. r[k + 1] = Explicitly(r[(k + 1) - 1], dirs[k + 1])
            BY <1>2, <2>1
        <3> QED
            BY <2>1, <3>1
    <2>3. d \in NamedEntry
        BY <2>1, ElementOfSeq
    <2>4. \A i \in 1..(k + 1) : i \in 1..k \/ i = k + 1
        OBVIOUS
    <2>5. \A i \in 1..k : i \in 1..(k + 1) /\ i \in 1..n /\ i # k + 1
        BY <2>1, <1>1
    <2>6. k + 1 \in 1..(k + 1)
        OBVIOUS
    <2>7. Sound(Explicitly(out, d), k + 1)
        <3>1. CASE d.auto
            <4>1. From(k + 1) = From(k)
                BY <3>1, <2>4, <2>5
            <4> HIDE DEF From
            <4> QED
                BY <2>1, <3>1, <4>1 DEF Explicitly
        <3>2. CASE ~d.auto
            <4>1. From(k + 1) = From(k) \cup {ProjectOf(d)}
                BY <3>2, <2>4, <2>5, <2>6
            <4>2. Explicitly(out, d) = Append(out, ProjectOf(d)) /\ ProjectOf(d) \in Project
                BY <3>2, <2>3, EntryTypes DEF Explicitly, ProjectOf
            <4>3. ASSUME Unambiguous(dirs)
                  PROVE  ProjectOf(d).path \notin PathsOf(out) /\ ProjectOf(d).name \notin NamesOf(out)
                <5>1. \A i \in 1..k : ~dirs[i].auto => dirs[i].path # d.path /\ dirs[i].name # d.name
                    BY <4>3, <3>2, <2>1, <2>5, <1>1 DEF Unambiguous
                <5>2. ASSUME NEW e \in ToSet(out) PROVE e.path # d.path /\ e.name # d.name
                    <6>1. PICK i \in 1..k : ~dirs[i].auto /\ e = ProjectOf(dirs[i])
                        BY <2>1, <5>2
                    <6> QED
                        BY <6>1, <5>1 DEF ProjectOf
                <5> QED
                    BY <5>2 DEF ToSet, PathsOf, NamesOf, ProjectOf
            <4> HIDE DEF From, out, d
            <4>4. out \in Seq(Project)
                BY <2>1
            <4>5. Append(out, ProjectOf(d)) \in Seq(Project)
                  /\ ToSet(Append(out, ProjectOf(d))) = ToSet(out) \cup {ProjectOf(d)}
                BY <4>2, <4>4, AppendProject
            <4>6. ASSUME Unambiguous(dirs) PROVE Distinct(Append(out, ProjectOf(d)))
                BY <4>2, <4>3, <4>4, <4>6, <2>1, AppendProject
            <4> QED
                BY <4>1, <4>2, <4>5, <4>6, <2>1
        <3> QED
            BY <3>1, <3>2, <2>3, EntryTypes
    <2> HIDE DEF Sound
    <2> QED
        BY <1>1, <2>1, <2>2, <2>7
<1>5. n \in S
    <2> HIDE DEF S, n
    <2> QED
        BY <1>1, <1>3, <1>4, UpTo
<1> QED
    BY <1>1, <1>2, <1>5 DEF Lists

\* One round of the second loop.
Expanded(list, d, marked) == IF d.auto THEN Expand(list, d, marked) ELSE list

LEMMA ExpandedExtends ==
    ASSUME NEW start \in Seq(Project), NEW list, Extends(list, start),
           NEW d \in NamedEntry, NEW marked \in SUBSET Path
    PROVE  Extends(Expanded(list, d, marked), start)
<1>1. d.path \in Path /\ list \in Seq(Project)
    BY EntryTypes DEF Extends
<1>2. Extends(Expand(list, d, marked), list)
    BY <1>1, ExpandExtends
<1> QED
    BY <1>2 DEF Expanded, Extends

\* The second loop keeps what the first has listed.
LEMMA ResolveExtends ==
    ASSUME NEW dirs \in Seq(NamedEntry), NEW marked \in SUBSET Path
    PROVE  Extends(Resolve(dirs, marked), FirstLoop(dirs))
<1> DEFINE n == Len(dirs)
           start == FirstLoop(dirs)
           V == {l \in Seq(Project) : Extends(l, start)}
           G == [kv \in (1..n) \X V |-> Expanded(kv[2], dirs[kv[1]], marked)]
<1>1. n \in Nat /\ DOMAIN dirs = 1..n
    BY LenProperties
<1>2. start \in Seq(Project)
    BY FirstLoopListsExplicit
<1> HIDE DEF start
<1>3. \A l : l \in V <=> Extends(l, start)
    BY DEF Extends
<1>4. ASSUME NEW k \in 1..n, NEW l \in V PROVE Expanded(l, dirs[k], marked) \in V
    <2>1. dirs[k] \in NamedEntry
        BY ElementOfSeq
    <2> HIDE DEF V
    <2> QED
        BY <2>1, <1>2, <1>3, ExpandedExtends
<1>5. start \in V
    BY <1>2 DEF Extends
<1>6. PICK g \in [SUBSET (1..n) -> V] : Iterates(g, 1..n, start, G)
    <2>1. G \in [(1..n) \X V -> V]
        <3> HIDE DEF V
        <3> QED
            BY <1>4
    <2> HIDE DEF n, V, G
    <2> QED
        BY <1>1, <1>5, <2>1, FoldExists
<1> HIDE DEF V
<1> DEFINE Equation(it) ==
        it = [s \in SUBSET DOMAIN dirs |->
                IF s = {} THEN start
                ELSE IF dirs[Max(s)].auto THEN Expand(it[s \ {Max(s)}], dirs[Max(s)], marked)
                                          ELSE it[s \ {Max(s)}]]
           iter == CHOOSE it : Equation(it)
<1>7. Equation(g)
    <2> SUFFICES ASSUME NEW s \in SUBSET (1..n), s # {}
                 PROVE  G[<<Max(s), g[s \ {Max(s)}]>>]
                            = Expanded(g[s \ {Max(s)}], dirs[Max(s)], marked)
        BY <1>1, <1>6 DEF Iterates, Expanded
    <2>1. Max(s) \in 1..n /\ g[s \ {Max(s)}] \in V
        BY <1>1, MaxOfPart
    <2> QED
        BY <2>1
<1>8. Equation(iter)
    <2> HIDE DEF Equation
    <2> QED
        BY <1>7
<1>9. Resolve(dirs, marked) = iter[1..n]
    <2>1. start = FoldLeft(Explicitly, <<>>, dirs)
        BY DEF start, FirstLoop, FoldLeft, MapThenFoldSet
    <2> QED
        BY <1>1, <2>1 DEF Resolve, FoldLeft, MapThenFoldSet
<1> DEFINE S == {k \in 0..n : iter[1..k] \in V}
<1>10. 0 \in S
    <2>1. 1..0 = {}
        OBVIOUS
    <2> HIDE DEF iter
    <2> QED
        BY <1>1, <1>5, <1>8, <2>1
<1>11. ASSUME NEW k \in Nat, k < n, k \in S PROVE k + 1 \in S
    <2> DEFINE m == k + 1
    <2>1. m \in Nat /\ m # 0 /\ m \in 1..n /\ m - 1 = k
        BY <1>1, <1>11
    <2> HIDE DEF m
    <2>2. 1..m # {} /\ Max(1..m) = m /\ (1..m) \ {Max(1..m)} = 1..(m - 1)
        BY <2>1, PrefixFacts
    <2>3. 1..m \in SUBSET DOMAIN dirs
        BY <1>1, <2>1
    <2> HIDE DEF iter
    <2>4. iter[1..m] = Expanded(iter[1..k], dirs[m], marked)
        <3> DEFINE s == 1..m
        <3>1. s \in SUBSET DOMAIN dirs /\ s # {} /\ Max(s) = m /\ s \ {m} = 1..k
            BY <2>1, <2>2, <2>3
        <3> HIDE DEF s
        <3>2. iter[s] = IF dirs[m].auto THEN Expand(iter[s \ {m}], dirs[m], marked)
                                        ELSE iter[s \ {m}]
            BY <1>8, <3>1
        <3> QED
            BY <3>1, <3>2 DEF Expanded, s
    <2>5. iter[1..m] \in V
        BY <1>4, <1>11, <2>1, <2>4
    <2> QED
        BY <2>1, <2>5, <1>1 DEF m
<1>12. n \in S
    <2> HIDE DEF S, n
    <2> QED
        BY <1>1, <1>10, <1>11, UpTo
<1> QED
    BY <1>3, <1>9, <1>12 DEF start

\* resolveProjects makes a project of every explicit entry, and of a good configuration
\* projects that share neither name nor path, whatever the auto roots hold.
THEOREM ResolveSound ==
    ASSUME NEW dirs \in Seq(NamedEntry), NEW marked \in SUBSET Path
    PROVE  /\ Resolve(dirs, marked) \in Seq(Project)
           /\ Lists(Resolve(dirs, marked), dirs)
           /\ Unambiguous(dirs) => Distinct(Resolve(dirs, marked))
BY ResolveExtends, FirstLoopListsExplicit DEF Extends, Lists
=============================================================================
