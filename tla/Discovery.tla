------------------------------ MODULE Discovery ------------------------------
(***************************************************************************)
(* What discovery finds below an auto root (internal/discover), and the    *)
(* names it gives (UniqueNames).  The tree of directories and its          *)
(* workspace files are constant; which directories carry a marker of a     *)
(* project (.git, go.mod, ...) is a parameter.                             *)
(*                                                                         *)
(* applyDefaults turns .git markers and workspaces on for an auto root     *)
(* whose entry chooses no kind of discovery, so that no auto root is       *)
(* searched without a filter: that is left to the discover_projects tool.  *)
(* An entry that chooses markers only is one whose tree has no Folders.    *)
(***************************************************************************)
EXTENDS Naturals, Sequences, FiniteSets, SequencesExt

CONSTANTS
    Path,           \* directories
    Label,          \* what a name is made of, before a number is appended
    Base,           \* the base name of a path
    Joined,         \* its path below the auto root, joined by dashes
    SkippedNames,   \* base names that are never projects: vendor, dist, ...
    Above,          \* the directories a path is in
    WalkOrder,      \* a path and the directories below it, as filepath.WalkDir meets them
    Folders,        \* the folders of the workspace file of a path that has one
    Depth           \* how far below the root discovery goes

ASSUME TreeOfPaths ==
    /\ Base \in [Path -> Label] /\ Joined \in [Path -> Label]
    /\ SkippedNames \subseteq Label
    /\ Above \in [Path -> SUBSET Path]
    /\ WalkOrder \in [Path -> Seq(Path)]
    /\ DOMAIN Folders \subseteq Path /\ \A p \in DOMAIN Folders : Folders[p] \in Seq(Path)
    /\ Depth \in Nat

NamesOf(s) == {s[i].name : i \in DOMAIN s}

-----------------------------------------------------------------------------
(* Expand.                                                                 *)

ShouldSkip(p) == Base[p] \in SkippedNames

DepthFromRoot(root, p) == Cardinality(Above[p] \ Above[root])

\* A project is found once: the walk does not enter what a workspace has listed.
Add(walk, p) ==
    IF p \in walk.seen THEN walk
    ELSE [walk EXCEPT !.found = Append(@, p), !.seen = @ \cup {p}]

ParseWorkspace(walk, p) == FoldLeft(Add, walk, Folders[p])

\* fs.SkipDir: nothing below p is visited.
SkipDir(walk, p) == [walk EXCEPT !.cut = @ \cup {p}]

\* The callback of WalkDir.  A directory of a skipped name is no project, but is
\* entered like any other.
Visit(root, marked, walk, p) ==
    CASE walk.cut \cap Above[p] # {} \/ ShouldSkip(p) -> walk
      [] OTHER ->
           CASE p \in walk.seen \/ DepthFromRoot(root, p) > Depth -> SkipDir(walk, p)
             [] OTHER ->
                  CASE p \in DOMAIN Folders -> ParseWorkspace(walk, p)
                    [] p \in marked \ DOMAIN Folders -> SkipDir(Add(walk, p), p)
                    [] OTHER -> walk

Walk(root, marked) ==
    LET Callback(walk, p) == Visit(root, marked, walk, p)
    IN FoldLeft(Callback, [found |-> <<>>, seen |-> {}, cut |-> {}], WalkOrder[root])

Discovered == [root \in Path |-> [marked \in SUBSET Path |-> Walk(root, marked).found]]

-----------------------------------------------------------------------------
(* Names.                                                                  *)

\* b, or b with the least number that makes it new.
IsNew(b, n, used) == <<b, n>> \notin used /\ \A m \in 0..n - 1 : <<b, m>> \in used

\* projectFromPath: the root itself goes by its base name.
LabelOf(root, p) == IF p = root THEN Base[p] ELSE Joined[p]

\* UniqueNames: in turn, each new to the names used and to those before it.
Named(root, used, out, p) ==
    LET taken == used \cup NamesOf(out)
        b == LabelOf(root, p)
        n == CHOOSE n \in 0..Cardinality(taken) : IsNew(b, n, taken)
    IN Append(out, [path |-> p, name |-> <<b, n>>])

UniqueNames(root, paths, used) ==
    LET NextName(out, p) == Named(root, used, out, p)
    IN FoldLeft(NextName, <<>>, paths)
=============================================================================
