--------------------------- MODULE DiscoveryProofs ---------------------------
(***************************************************************************)
(* Proofs about Discovery, for any tree of directories: what is discovered *)
(* is found once, and UniqueNames gives every directory a name of its own  *)
(* that nobody else has.                                                   *)
(*                                                                         *)
(* Both are folds over a sequence, so the module starts with what a proof  *)
(* about a fold needs: minimal elements, induction up to n, and the        *)
(* existence of the function a fold is defined by.                         *)
(***************************************************************************)
EXTENDS Discovery, FiniteSetTheorems, SequenceTheorems, WellFoundedInduction, TLAPS

\* A non-empty family of subsets of a finite set has a minimal member.
LEMMA MinimalSubset ==
    ASSUME NEW S, IsFiniteSet(S), NEW T, T \subseteq SUBSET S, T # {}
    PROVE  \E x \in T : \A y \in T : y \subseteq x => y = x
<1>1. T \subseteq FiniteSubsetsOf(S)
    BY FS_FiniteSubsetsOfFinite
<1>2. IsWellFoundedOn(StrictSubsetOrdering(S), FiniteSubsetsOf(S))
    BY FS_StrictSubsetOrderingWellFounded
<1>3. \E x \in T : \A y \in T : ~(<<y, x>> \in StrictSubsetOrdering(S))
    BY <1>1, <1>2, WFMin
<1> QED
    BY <1>3 DEF StrictSubsetOrdering

\* A non-empty set of naturals has a least member.
LEMMA Least ==
    ASSUME NEW S \in SUBSET Nat, S # {}
    PROVE  \E n \in S : \A m \in S : n <= m
<1>1. PICK k \in S : TRUE
    OBVIOUS
<1> DEFINE U == 0..k
           T == {0..j : j \in {j \in S : j <= k}}
<1>2. IsFiniteSet(U)
    BY <1>1, FS_Interval
<1>3. T \subseteq SUBSET U /\ T # {}
    BY <1>1
<1>4. PICK x \in T : \A y \in T : y \subseteq x => y = x
    <2> HIDE DEF U, T
    <2> QED
        BY <1>2, <1>3, MinimalSubset
<1>5. PICK n \in S : n <= k /\ x = 0..n
    BY <1>4
<1>6. ASSUME NEW m \in S, m < n PROVE FALSE
    <2>1. 0..m \in T
        BY <1>5, <1>6
    <2>2. 0..m = 0..n
        <3>1. 0..m \subseteq x
            BY <1>5, <1>6
        <3> HIDE DEF T
        <3> QED
            BY <3>1, <2>1, <1>4, <1>5
    <2>3. n \in 0..n /\ n \notin 0..m
        BY <1>6
    <2> QED
        BY <2>2, <2>3
<1> QED
    BY <1>5, <1>6

\* Induction up to n.
LEMMA UpTo ==
    ASSUME NEW n \in Nat, NEW S, 0 \in S,
           \A k \in Nat : k < n /\ k \in S => k + 1 \in S
    PROVE  n \in S
<1> DEFINE Gap == {k \in Nat : k <= n /\ k \notin S}
<1> SUFFICES ASSUME Gap # {} PROVE FALSE
    OBVIOUS
<1>1. PICK m \in Gap : \A k \in Gap : m <= k
    <2> HIDE DEF Gap
    <2>1. Gap \in SUBSET Nat
        BY DEF Gap
    <2> QED
        BY <2>1, Least
<1>2. m # 0 /\ m - 1 \in Nat /\ m - 1 \notin Gap
    BY <1>1
<1> QED
    BY <1>1, <1>2

\* The greatest member of a non-empty part of 1..n is what Max chooses.
LEMMA MaxOfPart ==
    ASSUME NEW n \in Nat, NEW s \in SUBSET (1..n), s # {}
    PROVE  /\ Max(s) \in s
           /\ \A y \in s : y <= Max(s)
<1> DEFINE D == {n - x : x \in s}
<1>1. D \in SUBSET Nat /\ D # {}
    OBVIOUS
<1>2. PICK d \in D : \A e \in D : d <= e
    <2> HIDE DEF D
    <2> QED
        BY <1>1, Least
<1>3. PICK x \in s : d = n - x
    BY <1>2
<1>4. ASSUME NEW y \in s PROVE x >= y
    <2>1. n - y \in D
        OBVIOUS
    <2>2. n - x <= n - y
        BY <2>1, <1>2, <1>3
    <2>3. x \in 1..n /\ y \in 1..n
        OBVIOUS
    <2> HIDE DEF D
    <2> QED
        BY <2>2, <2>3
<1> QED
    BY <1>4 DEF Max

LEMMA PrefixFacts ==
    ASSUME NEW k \in Nat, k # 0
    PROVE  1..k # {} /\ Max(1..k) = k /\ (1..k) \ {Max(1..k)} = 1..(k - 1)
<1>1. 1..k # {} /\ Max(1..k) \in 1..k /\ \A y \in 1..k : y <= Max(1..k)
    <2> DEFINE s == 1..k
    <2>1. s \in SUBSET (1..k) /\ 1 \in s
        OBVIOUS
    <2>2. s # {}
        BY <2>1
    <2> HIDE DEF s
    <2>3. Max(s) \in s /\ \A y \in s : y <= Max(s)
        BY <2>1, <2>2, MaxOfPart
    <2> QED
        BY <2>2, <2>3 DEF s
<1>2. Max(1..k) = k
    BY <1>1
<1> QED
    BY <1>1, <1>2

-----------------------------------------------------------------------------
(* Folds.  FoldLeft(op, base, seq) is iter[DOMAIN seq] for a function iter *)
(* on the sets of indices.  G[k, v] stands for op(v, seq[k]).              *)

Iterates(iter, t, base, G) ==
    iter = [s \in SUBSET t |-> IF s = {} THEN base ELSE G[<<Max(s), iter[s \ {Max(s)}]>>]]

\* There is such a function: a smallest set without one would have one.
LEMMA FoldExists ==
    ASSUME NEW n \in Nat, NEW V, NEW base \in V, NEW G \in [(1..n) \X V -> V]
    PROVE  \E iter \in [SUBSET (1..n) -> V] : Iterates(iter, 1..n, base, G)
<1> DEFINE Bad == {t \in SUBSET (1..n) : ~ \E g \in [SUBSET t -> V] : Iterates(g, t, base, G)}
           U == 1..n
<1> SUFFICES ASSUME Bad # {} PROVE FALSE
    OBVIOUS
<1>1. PICK t \in Bad : \A y \in Bad : y \subseteq t => y = t
    <2>1. IsFiniteSet(U) /\ Bad \subseteq SUBSET U
        BY FS_Interval
    <2> HIDE DEF Bad, U
    <2> QED
        BY <2>1, MinimalSubset
<1>2. t # {}
    <2> SUFFICES ASSUME t = {} PROVE FALSE
        OBVIOUS
    <2> DEFINE g == [s \in SUBSET t |-> base]
    <2>1. g \in [SUBSET t -> V]
        OBVIOUS
    <2>2. Iterates(g, t, base, G)
        BY DEF Iterates
    <2> QED
        BY <1>1, <2>1, <2>2
<1> DEFINE m == Max(t)
           y == t \ {m}
<1>3. m \in t /\ m \in 1..n /\ \A x \in t : x <= m
    BY <1>1, <1>2, MaxOfPart
<1> HIDE DEF m
<1>4. PICK g \in [SUBSET y -> V] : Iterates(g, y, base, G)
    <2>1. y \subseteq t /\ y # t /\ y \in SUBSET (1..n)
        BY <1>1, <1>3
    <2>2. y \notin Bad
        <3> HIDE DEF Bad, y
        <3> QED
            BY <1>1, <2>1
    <2> QED
        BY <2>1, <2>2
<1> DEFINE h == [s \in SUBSET t |-> IF m \in s THEN G[<<m, g[s \ {m}]>>] ELSE g[s]]
<1>5. h \in [SUBSET t -> V]
    <2> SUFFICES ASSUME NEW s \in SUBSET t PROVE h[s] \in V
        OBVIOUS
    <2>1. CASE m \in s
        <3>1. g[s \ {m}] \in V
            BY <2>1
        <3> QED
            BY <2>1, <3>1, <1>3
    <2>2. CASE m \notin s
        <3>1. s \in SUBSET y
            BY <2>2
        <3> QED
            BY <2>2, <3>1
    <2> QED
        BY <2>1, <2>2
<1>6. ASSUME NEW s \in SUBSET t
      PROVE  h[s] = IF s = {} THEN base ELSE G[<<Max(s), h[s \ {Max(s)}]>>]
    <2>1. CASE m \in s
        <3>1. Max(s) \in s /\ \A x \in s : x <= Max(s)
            BY <2>1, <1>1, MaxOfPart
        <3>2. Max(s) = m
            <4>1. m <= Max(s) /\ Max(s) <= m
                BY <3>1, <2>1, <1>3
            <4>2. Max(s) \in 1..n
                BY <3>1, <1>1
            <4> QED
                BY <4>1, <4>2, <1>3
        <3>3. h[s \ {m}] = g[s \ {m}]
            OBVIOUS
        <3> QED
            BY <2>1, <3>2, <3>3
    <2>2. CASE m \notin s
        <3>1. s \in SUBSET y
            BY <2>2
        <3>2. h[s] = g[s]
            BY <2>2
        <3>3. g[s] = IF s = {} THEN base ELSE G[<<Max(s), g[s \ {Max(s)}]>>]
            BY <3>1, <1>4 DEF Iterates
        <3>4. h[s \ {Max(s)}] = g[s \ {Max(s)}]
            BY <2>2
        <3> QED
            BY <3>2, <3>3, <3>4
    <2> QED
        BY <2>1, <2>2
<1>7. Iterates(h, t, base, G)
    <2>1. h = [s \in SUBSET t |-> h[s]]
        OBVIOUS
    <2> HIDE DEF h
    <2> QED
        BY <2>1, <1>6 DEF Iterates
<1> QED
    BY <1>1, <1>5, <1>7

-----------------------------------------------------------------------------
(* Names.                                                                  *)

\* There is a number below the count of the names taken that makes b new: not all of
\* <<b, 0>>, <<b, 1>>, ... up to that count can be taken.
LEMMA NewNameExists ==
    ASSUME NEW b, NEW taken, IsFiniteSet(taken)
    PROVE  \E n \in 0..Cardinality(taken) : IsNew(b, n, taken)
<1> DEFINE c == Cardinality(taken)
           free == {n \in 0..c : <<b, n>> \notin taken}
<1>1. c \in Nat
    BY FS_CardinalityType
<1>2. free # {}
    <2> SUFFICES ASSUME \A n \in 0..c : <<b, n>> \in taken PROVE FALSE
        OBVIOUS
    <2> DEFINE f == [n \in 0..c |-> <<b, n>>]
    <2>1. f \in [0..c -> taken]
        OBVIOUS
    <2>2. \A i, j \in 0..c : f[i] = f[j] => i = j
        OBVIOUS
    <2>3. IsFiniteSet(0..c) /\ Cardinality(0..c) = c + 1
        BY <1>1, FS_Interval
    <2>4. \E i, j \in 0..c : i # j /\ f[i] = f[j]
        <3> DEFINE I == 0..c
        <3>1. Cardinality(taken) < Cardinality(I) /\ IsFiniteSet(I) /\ f \in [I -> taken]
            BY <1>1, <2>1, <2>3
        <3> HIDE DEF f, I, c
        <3>2. \E i, j \in I : i # j /\ f[i] = f[j]
            BY <3>1, FS_PigeonHole
        <3> QED
            BY <3>2 DEF I
    <2> QED
        BY <2>2, <2>4
<1>3. PICK n \in free : \A m \in free : n <= m
    <2>1. free \in SUBSET Nat
        BY <1>1
    <2> HIDE DEF free
    <2> QED
        BY <2>1, <1>2, Least
<1> QED
    BY <1>1, <1>3 DEF IsNew

LEMMA NamedIsNew ==
    ASSUME NEW root, NEW p, NEW out \in Seq([path : Path, name : Label \X Nat]),
           NEW used, IsFiniteSet(used)
    PROVE  \E n \in Nat :
              /\ Named(root, used, out, p) = Append(out, [path |-> p, name |-> <<LabelOf(root, p), n>>])
              /\ <<LabelOf(root, p), n>> \notin used \cup NamesOf(out)
<1> DEFINE taken == used \cup NamesOf(out)
           b == LabelOf(root, p)
           n == CHOOSE n \in 0..Cardinality(taken) : IsNew(b, n, taken)
<1>1. IsFiniteSet(taken)
    <2>1. IsFiniteSet(DOMAIN out)
        BY FS_Interval, LenProperties
    <2>2. IsFiniteSet(NamesOf(out))
        <3> DEFINE f == [i \in DOMAIN out |-> out[i].name]
        <3>1. NamesOf(out) = {f[i] : i \in DOMAIN out}
            BY DEF NamesOf
        <3>2. f \in Surjection(DOMAIN out, NamesOf(out))
            BY <3>1 DEF Surjection
        <3> QED
            BY <2>1, <3>2, FS_Surjection
    <2> QED
        BY <2>2, FS_Union
<1>2. n \in 0..Cardinality(taken) /\ IsNew(b, n, taken)
    <2> HIDE DEF taken, b
    <2> QED
        BY <1>1, NewNameExists
<1>3. Named(root, used, out, p) = Append(out, [path |-> p, name |-> <<b, n>>])
    BY DEF Named
<1>4. n \in Nat /\ <<b, n>> \notin taken
    <2>1. Cardinality(taken) \in Nat
        BY <1>1, FS_CardinalityType
    <2> HIDE DEF taken, b, n
    <2> QED
        BY <1>2, <2>1 DEF IsNew
<1> HIDE DEF n
<1> QED
    BY <1>3, <1>4

\* The lists UniqueNames goes through.
LEMMA NamedSteps ==
    ASSUME NEW root \in Path, NEW paths \in Seq(Path), NEW used, IsFiniteSet(used)
    PROVE  \E r : /\ r[0] = <<>>
                  /\ \A k \in 1..Len(paths) : r[k] = Named(root, used, r[k - 1], paths[k])
                  /\ r[Len(paths)] = UniqueNames(root, paths, used)
<1> DEFINE n == Len(paths)
           V == Seq([path : Path, name : Label \X Nat])
           G == [kv \in (1..n) \X V |-> Named(root, used, kv[2], paths[kv[1]])]
<1>1. n \in Nat /\ DOMAIN paths = 1..n /\ <<>> \in V
    BY EmptySeq, LenProperties
<1>2. G \in [(1..n) \X V -> V]
    <2> SUFFICES ASSUME NEW k \in 1..n, NEW out \in V
                 PROVE  Named(root, used, out, paths[k]) \in V
        OBVIOUS
    <2>1. paths[k] \in Path
        BY ElementOfSeq
    <2>2. LabelOf(root, paths[k]) \in Label
        BY <2>1, TreeOfPaths DEF LabelOf
    <2> QED
        <3>1. PICK m \in Nat : Named(root, used, out, paths[k])
                = Append(out, [path |-> paths[k], name |-> <<LabelOf(root, paths[k]), m>>])
            <4>1. out \in Seq([path : Path, name : Label \X Nat])
                OBVIOUS
            <4> DEFINE p == paths[k]
            <4> HIDE DEF V, G, n, p
            <4>2. \E m \in Nat :
                    /\ Named(root, used, out, p)
                        = Append(out, [path |-> p, name |-> <<LabelOf(root, p), m>>])
                    /\ <<LabelOf(root, p), m>> \notin used \cup NamesOf(out)
                BY <4>1, NamedIsNew
            <4> QED
                BY <4>2 DEF p
        <3>2. [path |-> paths[k], name |-> <<LabelOf(root, paths[k]), m>>]
                \in [path : Path, name : Label \X Nat]
            BY <2>1, <2>2
        <3> QED
            BY <3>1, <3>2, AppendProperties
<1>3. PICK g \in [SUBSET (1..n) -> V] : Iterates(g, 1..n, <<>>, G)
    <2> HIDE DEF n, V, G
    <2> QED
        BY <1>1, <1>2, FoldExists
<1> DEFINE Equation(it) ==
        it = [s \in SUBSET DOMAIN paths |->
                IF s = {} THEN <<>>
                ELSE Named(root, used, it[s \ {Max(s)}], paths[Max(s)])]
           iter == CHOOSE it : Equation(it)
<1>4. Equation(g)
    <2> SUFFICES ASSUME NEW s \in SUBSET (1..n), s # {}
                 PROVE  G[<<Max(s), g[s \ {Max(s)}]>>]
                            = Named(root, used, g[s \ {Max(s)}], paths[Max(s)])
        BY <1>1, <1>3 DEF Iterates
    <2>1. Max(s) \in 1..n /\ g[s \ {Max(s)}] \in V
        BY <1>1, MaxOfPart
    <2> QED
        BY <2>1
<1>5. Equation(iter)
    <2> HIDE DEF Equation
    <2> QED
        BY <1>4
<1>6. UniqueNames(root, paths, used) = iter[1..n]
    BY <1>1 DEF UniqueNames, FoldLeft, MapThenFoldSet
<1> DEFINE r == [k \in 0..n |-> iter[1..k]]
<1>7. r[0] = <<>>
    <2>1. 1..0 = {}
        OBVIOUS
    <2> HIDE DEF iter
    <2> QED
        BY <1>1, <1>5, <2>1
<1>8. ASSUME NEW k \in 1..n PROVE r[k] = Named(root, used, r[k - 1], paths[k])
    <2>1. 1..k # {} /\ Max(1..k) = k /\ (1..k) \ {Max(1..k)} = 1..(k - 1)
        BY PrefixFacts
    <2>2. 1..k \in SUBSET DOMAIN paths
        BY <1>1
    <2> HIDE DEF iter
    <2>3. iter[1..k] = Named(root, used, iter[1..(k - 1)], paths[k])
        BY <1>5, <2>1, <2>2
    <2>4. k \in 0..n /\ k - 1 \in 0..n
        BY <1>1
    <2> QED
        BY <2>3, <2>4
<1>9. r[n] = UniqueNames(root, paths, used)
    BY <1>1, <1>6
<1> HIDE DEF iter, r
<1> QED
    BY <1>7, <1>8, <1>9

\* UniqueNames keeps the directories and gives each a name nobody has: none of the
\* names used, and no two the same.  The pigeonhole above is why its loop over n ends.
THEOREM NamesAreUnique ==
    ASSUME NEW root \in Path, NEW paths \in Seq(Path), NEW used, IsFiniteSet(used)
    PROVE  /\ UniqueNames(root, paths, used) \in Seq([path : Path, name : Label \X Nat])
           /\ Len(UniqueNames(root, paths, used)) = Len(paths)
           /\ \A i \in 1..Len(paths) :
                 /\ UniqueNames(root, paths, used)[i].path = paths[i]
                 /\ UniqueNames(root, paths, used)[i].name \notin used
           /\ \A i, j \in 1..Len(paths) : i # j =>
                 UniqueNames(root, paths, used)[i].name # UniqueNames(root, paths, used)[j].name
<1> DEFINE V == Seq([path : Path, name : Label \X Nat])
           Sound(out, k) ==
              /\ out \in V /\ Len(out) = k
              /\ \A i \in 1..k : out[i].path = paths[i] /\ out[i].name \notin used
              /\ \A i, j \in 1..k : i # j => out[i].name # out[j].name
<1>1. PICK r : /\ r[0] = <<>>
               /\ \A k \in 1..Len(paths) : r[k] = Named(root, used, r[k - 1], paths[k])
               /\ r[Len(paths)] = UniqueNames(root, paths, used)
    BY NamedSteps
<1> DEFINE S == {k \in 0..Len(paths) : Sound(r[k], k)}
<1>2. Len(paths) \in Nat
    BY LenProperties
<1>3. 0 \in S
    <2>1. <<>> \in V /\ Len(<<>>) = 0 /\ 1..0 = {}
        BY EmptySeq
    <2>2. Sound(<<>>, 0)
        <3> HIDE DEF V
        <3> QED
            BY <2>1
    <2> HIDE DEF Sound
    <2> QED
        BY <1>1, <1>2, <2>2
<1>4. ASSUME NEW k \in Nat, k < Len(paths), k \in S PROVE k + 1 \in S
    <2> DEFINE out == r[k]
               p == paths[k + 1]
    <2>1. Sound(out, k) /\ k + 1 \in 1..Len(paths) /\ (k + 1) - 1 = k
        BY <1>2, <1>4
    <2>2. r[k + 1] = Named(root, used, out, p) /\ p \in Path
        <3>1. r[k + 1] = Named(root, used, r[(k + 1) - 1], paths[k + 1])
            BY <1>1, <2>1
        <3>2. paths[k + 1] \in Path
            BY <2>1, ElementOfSeq
        <3> QED
            BY <2>1, <3>1, <3>2
    <2>3. LabelOf(root, p) \in Label
        BY <2>2, TreeOfPaths DEF LabelOf
    <2>4. out \in Seq([path : Path, name : Label \X Nat])
        BY <2>1
    <2>5. PICK m \in Nat :
             /\ Named(root, used, out, p) = Append(out, [path |-> p, name |-> <<LabelOf(root, p), m>>])
             /\ <<LabelOf(root, p), m>> \notin used \cup NamesOf(out)
        <3> HIDE DEF out, p, Sound, S
        <3> QED
            BY <2>4, NamedIsNew
    <2> DEFINE e == [path |-> p, name |-> <<LabelOf(root, p), m>>]
               new == Append(out, e)
    <2>6. e \in [path : Path, name : Label \X Nat] /\ e.path = p /\ e.name \notin used
          /\ e.name \notin NamesOf(out)
        BY <2>2, <2>3, <2>5
    <2>7. /\ new \in V /\ Len(new) = k + 1
          /\ \A i \in 1..k : new[i] = out[i]
          /\ new[k + 1] = e
        <3>1. Len(out) = k
            BY <2>1
        <3> HIDE DEF out, e
        <3> QED
            BY <2>4, <2>6, <3>1, AppendProperties
    <2>8. \A i \in 1..k : out[i].name \in NamesOf(out)
        <3>1. DOMAIN out = 1..k
            BY <2>1, <2>4, LenProperties
        <3> HIDE DEF out
        <3> QED
            BY <3>1 DEF NamesOf
    <2>9. Sound(new, k + 1)
        <3>1. \A i \in 1..(k + 1) : i \in 1..k \/ i = k + 1
            OBVIOUS
        <3> HIDE DEF new, e, out, V
        <3>2. ASSUME NEW i \in 1..(k + 1) PROVE new[i].path = paths[i] /\ new[i].name \notin used
            BY <3>1, <2>1, <2>6, <2>7
        <3>3. ASSUME NEW i \in 1..(k + 1), NEW j \in 1..(k + 1), i # j
              PROVE  new[i].name # new[j].name
            BY <3>1, <3>3, <2>1, <2>6, <2>7, <2>8
        <3> QED
            BY <2>7, <3>2, <3>3
    <2> HIDE DEF new, out, p, e, Sound
    <2>10. r[k + 1] = new
        BY <2>2, <2>5 DEF new, e
    <2> QED
        BY <2>1, <2>9, <2>10
<1>5. Len(paths) \in S
    <2> HIDE DEF S
    <2> QED
        BY <1>2, <1>3, <1>4, UpTo
<1> QED
    BY <1>1, <1>5

-----------------------------------------------------------------------------
(* The walk.                                                               *)

\* What is seen is what has been found, each directory once.
Walks == {w \in [found : Seq(Path), seen : SUBSET Path, cut : SUBSET Path] :
            /\ w.seen = {w.found[i] : i \in 1..Len(w.found)}
            /\ \A i, j \in 1..Len(w.found) : i # j => w.found[i] # w.found[j]}

LEMMA AddWalks == ASSUME NEW w \in Walks, NEW p \in Path PROVE Add(w, p) \in Walks
<1>1. CASE p \in w.seen
    BY <1>1 DEF Add
<1>2. CASE p \notin w.seen
    <2> DEFINE v == Add(w, p)
               n == Len(w.found)
    <2>1. /\ w.found \in Seq(Path) /\ w.seen \in SUBSET Path /\ w.cut \in SUBSET Path
          /\ w.seen = {w.found[i] : i \in 1..n}
          /\ \A i, j \in 1..n : i # j => w.found[i] # w.found[j]
        BY DEF Walks
    <2>2. v = [found |-> Append(w.found, p), seen |-> w.seen \cup {p}, cut |-> w.cut]
        BY <1>2 DEF Add, Walks
    <2>3. /\ v.found \in Seq(Path) /\ Len(v.found) = n + 1 /\ n \in Nat
          /\ \A i \in 1..n : v.found[i] = w.found[i]
          /\ v.found[n + 1] = p
        BY <2>1, <2>2, AppendProperties, LenProperties
    <2> HIDE DEF v, n
    <2>4. v \in [found : Seq(Path), seen : SUBSET Path, cut : SUBSET Path]
        BY <2>1, <2>2, <2>3
    <2>5. \A i \in 1..(n + 1) : i \in 1..n \/ i = n + 1
        BY <2>3
    <2>6. v.seen = {v.found[i] : i \in 1..(n + 1)}
        BY <2>1, <2>2, <2>3, <2>5
    <2>7. \A i, j \in 1..(n + 1) : i # j => v.found[i] # v.found[j]
        BY <1>2, <2>1, <2>3, <2>5
    <2> QED
        BY <2>3, <2>4, <2>6, <2>7 DEF Walks, v
<1> QED
    BY <1>1, <1>2

LEMMA SkipDirWalks == ASSUME NEW w \in Walks, NEW p \in Path PROVE SkipDir(w, p) \in Walks
    BY DEF SkipDir, Walks

\* A workspace file is gone through folder by folder.
LEMMA ParseWorkspaceWalks ==
    ASSUME NEW w \in Walks, NEW p \in DOMAIN Folders
    PROVE  ParseWorkspace(w, p) \in Walks
<1> DEFINE paths == Folders[p]
           n == Len(paths)
           G == [kv \in (1..n) \X Walks |-> Add(kv[2], paths[kv[1]])]
<1>1. paths \in Seq(Path) /\ n \in Nat /\ DOMAIN paths = 1..n
    <2>1. paths \in Seq(Path)
        BY TreeOfPaths
    <2> QED
        BY <2>1, LenProperties
<1> HIDE DEF paths
<1>2. \A k \in 1..n : paths[k] \in Path
    BY <1>1, ElementOfSeq
<1>3. G \in [(1..n) \X Walks -> Walks]
    BY <1>2, AddWalks
<1>4. PICK g \in [SUBSET (1..n) -> Walks] : Iterates(g, 1..n, w, G)
    <2> HIDE DEF n, G
    <2> QED
        BY <1>1, <1>3, FoldExists
<1> DEFINE Equation(it) ==
        it = [s \in SUBSET DOMAIN paths |->
                IF s = {} THEN w ELSE Add(it[s \ {Max(s)}], paths[Max(s)])]
           iter == CHOOSE it : Equation(it)
<1>5. Equation(g)
    <2> SUFFICES ASSUME NEW s \in SUBSET (1..n), s # {}
                 PROVE  G[<<Max(s), g[s \ {Max(s)}]>>] = Add(g[s \ {Max(s)}], paths[Max(s)])
        BY <1>1, <1>4 DEF Iterates
    <2>1. Max(s) \in 1..n /\ g[s \ {Max(s)}] \in Walks
        BY <1>1, MaxOfPart
    <2> QED
        BY <2>1
<1>6. Equation(iter)
    <2> HIDE DEF Equation
    <2> QED
        BY <1>5
<1>7. ParseWorkspace(w, p) = iter[1..n]
    BY <1>1 DEF ParseWorkspace, FoldLeft, MapThenFoldSet, paths
<1> DEFINE S == {k \in 0..n : iter[1..k] \in Walks}
<1>8. 0 \in S
    <2>1. 1..0 = {}
        OBVIOUS
    <2> HIDE DEF iter
    <2> QED
        BY <1>1, <1>6, <2>1
<1>9. ASSUME NEW k \in Nat, k < n, k \in S PROVE k + 1 \in S
    <2> DEFINE m == k + 1
    <2>1. m \in Nat /\ m # 0 /\ m \in 1..n /\ m - 1 = k
        BY <1>1, <1>9
    <2> HIDE DEF m
    <2>2. 1..m # {} /\ Max(1..m) = m /\ (1..m) \ {Max(1..m)} = 1..(m - 1)
        BY <2>1, PrefixFacts
    <2>3. 1..m \in SUBSET DOMAIN paths
        BY <1>1, <2>1
    <2> HIDE DEF iter
    <2>4. iter[1..m] = Add(iter[1..k], paths[m])
        BY <1>6, <2>1, <2>2, <2>3
    <2>5. iter[1..m] \in Walks
        BY <1>2, <1>9, <2>1, <2>4, AddWalks
    <2> QED
        BY <2>1, <2>5, <1>1 DEF m
<1>10. n \in S
    <2> HIDE DEF S, n
    <2> QED
        BY <1>1, <1>8, <1>9, UpTo
<1> QED
    BY <1>7, <1>10

LEMMA VisitWalks ==
    ASSUME NEW root \in Path, NEW marked \in SUBSET Path, NEW w \in Walks, NEW p \in Path
    PROVE  Visit(root, marked, w, p) \in Walks
<1>1. Add(w, p) \in Walks
    BY AddWalks
<1>2. SkipDir(w, p) \in Walks /\ SkipDir(Add(w, p), p) \in Walks
    BY <1>1, SkipDirWalks
<1>3. p \in DOMAIN Folders => ParseWorkspace(w, p) \in Walks
    BY ParseWorkspaceWalks
<1> QED
    BY <1>2, <1>3 DEF Visit

\* No directory is discovered twice below one root, whether a workspace lists it, the walk
\* meets it, or both.
THEOREM DiscoveredOnce ==
    ASSUME NEW root \in Path, NEW marked \in SUBSET Path
    PROVE  /\ Discovered[root][marked] \in Seq(Path)
           /\ \A i, j \in 1..Len(Discovered[root][marked]) :
                 i # j => Discovered[root][marked][i] # Discovered[root][marked][j]
<1> DEFINE paths == WalkOrder[root]
           n == Len(paths)
           start == [found |-> <<>>, seen |-> {}, cut |-> {}]
           G == [kv \in (1..n) \X Walks |-> Visit(root, marked, kv[2], paths[kv[1]])]
<1>1. paths \in Seq(Path) /\ n \in Nat /\ DOMAIN paths = 1..n
    <2>1. paths \in Seq(Path)
        BY TreeOfPaths
    <2> QED
        BY <2>1, LenProperties
<1> HIDE DEF paths
<1>2. \A k \in 1..n : paths[k] \in Path
    BY <1>1, ElementOfSeq
<1>3. start \in Walks
    <2>1. <<>> \in Seq(Path) /\ 1..Len(<<>>) = {}
        BY EmptySeq
    <2> QED
        BY <2>1 DEF Walks
<1> HIDE DEF start
<1>4. G \in [(1..n) \X Walks -> Walks]
    BY <1>2, VisitWalks
<1>5. PICK g \in [SUBSET (1..n) -> Walks] : Iterates(g, 1..n, start, G)
    <2> HIDE DEF n, G
    <2> QED
        BY <1>1, <1>3, <1>4, FoldExists
<1> DEFINE Equation(it) ==
        it = [s \in SUBSET DOMAIN paths |->
                IF s = {} THEN start
                ELSE Visit(root, marked, it[s \ {Max(s)}], paths[Max(s)])]
           iter == CHOOSE it : Equation(it)
<1>6. Equation(g)
    <2> SUFFICES ASSUME NEW s \in SUBSET (1..n), s # {}
                 PROVE  G[<<Max(s), g[s \ {Max(s)}]>>]
                            = Visit(root, marked, g[s \ {Max(s)}], paths[Max(s)])
        BY <1>1, <1>5 DEF Iterates
    <2>1. Max(s) \in 1..n /\ g[s \ {Max(s)}] \in Walks
        BY <1>1, MaxOfPart
    <2> QED
        BY <2>1
<1>7. Equation(iter)
    <2> HIDE DEF Equation
    <2> QED
        BY <1>6
<1>8. Discovered[root][marked] = iter[1..n].found
    <2>1. Discovered[root][marked] = Walk(root, marked).found
        BY DEF Discovered
    <2>2. Walk(root, marked) = iter[1..n]
        BY <1>1 DEF Walk, FoldLeft, MapThenFoldSet, paths, start
    <2> HIDE DEF iter
    <2> QED
        BY <2>1, <2>2
<1> DEFINE S == {k \in 0..n : iter[1..k] \in Walks}
<1>9. 0 \in S
    <2>1. 1..0 = {}
        OBVIOUS
    <2> HIDE DEF iter
    <2> QED
        BY <1>1, <1>3, <1>7, <2>1
<1>10. ASSUME NEW k \in Nat, k < n, k \in S PROVE k + 1 \in S
    <2> DEFINE m == k + 1
    <2>1. m \in Nat /\ m # 0 /\ m \in 1..n /\ m - 1 = k
        BY <1>1, <1>10
    <2> HIDE DEF m
    <2>2. 1..m # {} /\ Max(1..m) = m /\ (1..m) \ {Max(1..m)} = 1..(m - 1)
        BY <2>1, PrefixFacts
    <2>3. 1..m \in SUBSET DOMAIN paths
        BY <1>1, <2>1
    <2> HIDE DEF iter
    <2>4. iter[1..m] = Visit(root, marked, iter[1..k], paths[m])
        BY <1>7, <2>1, <2>2, <2>3
    <2>5. iter[1..m] \in Walks
        BY <1>2, <1>10, <2>1, <2>4, VisitWalks
    <2> QED
        BY <2>1, <2>5, <1>1 DEF m
<1>11. n \in S
    <2> HIDE DEF S, n
    <2> QED
        BY <1>1, <1>9, <1>10, UpTo
<1>12. iter[1..n] \in Walks
    BY <1>11
<1> HIDE DEF iter
<1> QED
    BY <1>8, <1>12 DEF Walks
=============================================================================
