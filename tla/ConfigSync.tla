----------------------------- MODULE ConfigSync -----------------------------
(***************************************************************************)
(* The configuration in its four copies: config.yaml, App.cfg, the list of *)
(* projects resolved from it, and the list the MCP server works with.      *)
(* add_project and remove_project change them under rebuildMu and write    *)
(* the file; a user edits the file; a change of the file makes             *)
(* watchConfig reload it, and ReloadConfig reads it before it takes the    *)
(* lock.                                                                   *)
(*                                                                         *)
(* Of an entry of `directories` its path, name and auto flag are kept.     *)
(* The directories exist all along; they become repositories, which        *)
(* nothing reports.                                                        *)
(***************************************************************************)
EXTENDS Discovery

CONSTANTS
    UserFile,       \* what the user writes into config.yaml
    NewRepository,  \* directories that become repositories some day
    Unnamed,        \* the name of an entry without one
    MaxRequests, MaxEdits, MaxMishaps   \* calls of the tools, edits, failures and deaths

Name == Label \X Nat        \* <<b, 0>> is b, <<b, n>> is b-n
Entry == [path : Path, name : Name \cup {Unnamed}, auto : BOOLEAN]
Project == [path : Path, name : Name]

PathsOf(s) == {s[i].path : i \in DOMAIN s}
Distinct(s) == \A i, j \in DOMAIN s : i # j => s[i].path # s[j].path /\ s[i].name # s[j].name

None == [read |-> FALSE]    \* no configuration has been read

\* applyDefaults: an entry without a name goes by its base name.
Defaulted(f) == [i \in DOMAIN f |->
    IF f[i].name = Unnamed THEN [f[i] EXCEPT !.name = <<Base[f[i].path], 0>>] ELSE f[i]]

\* A user writes at least one entry.  Nothing makes the names and paths of a file different,
\* and two entries without a name may have one base name.
Unambiguous(dirs) == \A i, j \in DOMAIN dirs :
    i # j /\ ~dirs[i].auto /\ ~dirs[j].auto =>
        dirs[i].path # dirs[j].path /\ dirs[i].name # dirs[j].name
Ambiguous(f) == ~Unambiguous(Defaulted(f))
ASSUME FilesAreWellFormed == \A f \in UserFile : f \in Seq(Entry) /\ f # <<>>
ASSUME NewRepositoriesArePaths == NewRepository \subseteq Path
ASSUME UnnamedIsNoName == Unnamed \notin Name
ASSUME BoundsAreNaturals == MaxRequests \in Nat /\ MaxEdits \in Nat /\ MaxMishaps \in Nat

VARIABLES
    repos,      \* the directories that carry the marker of a project
    file,       \* config.yaml; <<>> also stands for a file that is being written
    up,         \* the daemon runs
    watching,   \* watchConfig has its inotify watch
    event,      \* the file has changed, and watchConfig has not reloaded it yet
    loaded,     \* what ReloadConfig has read and resolved, while it waits for rebuildMu
    cfg,        \* App.cfg.Directories
    projects,   \* App.projects
    served,     \* Server.projects
    shared,     \* projects and served are slices of one array
    op,         \* how far the holder of rebuildMu is: saving config.yaml, serving
    want,       \* the entries the file has when the holder has written it
    due,        \* the entries the user and the tools have asked for so far
    clobbered,  \* a tool has set out from another configuration than the file's
    misnamed,   \* remove_project has hit an entry of another path
    ambiguous,  \* a user has given two explicit entries one name or one path
    missed,     \* a change nobody is told of: of the file before watchConfig was watching,
                \* of a directory at any time
    failed,     \* a tool could not save, and nothing has been reloaded or served since
    unlisted,   \* paths added since the list was last served
    requests, edits, mishaps

fileVars == <<repos, file, event, missed>>
memVars == <<cfg, projects, served, shared, unlisted>>
lockVars == <<op, want>>
lifeVars == <<up, watching>>
askedVars == <<due, clobbered, misnamed, ambiguous>>
boundVars == <<requests, edits, mishaps>>
vars == <<fileVars, memVars, lockVars, lifeVars, loaded, askedVars, failed, boundVars>>

TypeOK ==
    /\ repos \subseteq Path
    /\ file \in Seq(Entry) /\ cfg \in Seq([path : Path, name : Name, auto : BOOLEAN])
    /\ loaded # None => loaded.dirs \in Seq(Entry) \ {<<>>} /\ loaded.projects \in Seq(Project)
    /\ projects \in Seq(Project) /\ served \in Seq(Project)
    /\ up \in BOOLEAN /\ watching \in BOOLEAN /\ event \in BOOLEAN
    /\ shared \in BOOLEAN /\ clobbered \in BOOLEAN /\ misnamed \in BOOLEAN /\ ambiguous \in BOOLEAN
    /\ missed \in BOOLEAN /\ failed \in BOOLEAN
    /\ op \in {"free", "truncate", "write", "serve"}
    /\ due \subseteq Entry /\ want \subseteq Entry
    /\ unlisted \subseteq Path
    /\ requests \in 0..MaxRequests /\ edits \in 0..MaxEdits /\ mishaps \in 0..MaxMishaps

-----------------------------------------------------------------------------
(* What a configuration stands for.                                        *)

\* resolveProjects, the first loop: the explicit entries.
Explicitly(list, d) == IF d.auto THEN list ELSE Append(list, [path |-> d.path, name |-> d.name])

\* The second loop: what the auto roots hold besides.
Listed(list, p) == IF p.path \in PathsOf(list) THEN list ELSE Append(list, p)

ExpandKeepsNames(list, d, marked) ==        \* (Mutant: discovered names are not made unique)
    LET Plain(out, p) == Listed(out, [path |-> p, name |-> <<LabelOf(d.path, p), 0>>])
    IN FoldLeft(Plain, list, Discovered[d.path][marked])
Expand(list, d, marked) ==
    FoldLeft(Listed, list, UniqueNames(d.path, Discovered[d.path][marked], NamesOf(list)))

Resolve(dirs, marked) ==
    LET Expanded(list, d) == IF d.auto THEN Expand(list, d, marked) ELSE list
    IN FoldLeft(Expanded, FoldLeft(Explicitly, <<>>, dirs), dirs)

-----------------------------------------------------------------------------
(* The file.                                                               *)

\* validate: a configuration has at least one directory.
Loadable(f) == f # <<>>

Mishap == mishaps < MaxMishaps /\ mishaps' = mishaps + 1

\* The kernel reports a change of the file to whoever watches it.
FileChanges(f) ==
    /\ file' = f
    /\ event' = (event \/ watching)
    /\ missed' = (missed \/ (up /\ ~watching))
    /\ UNCHANGED repos

\* An editor replaces the file.
UserEdit(f) ==
    /\ edits < MaxEdits /\ edits' = edits + 1
    /\ op # "write" /\ f # file
    /\ FileChanges(f)
    /\ due' = ToSet(Defaulted(f))
    /\ clobbered' = (op = "truncate")
    /\ ambiguous' = (ambiguous \/ Ambiguous(f))
    /\ UNCHANGED <<memVars, lockVars, lifeVars, loaded, misnamed, failed, requests, mishaps>>

\* Somebody clones a repository, or makes a directory one.
MakeRepository(p) ==
    /\ edits < MaxEdits /\ edits' = edits + 1
    /\ p \notin repos /\ repos' = repos \cup {p}
    /\ missed' = (missed \/ up)
    /\ UNCHANGED <<file, event, memVars, lockVars, lifeVars, loaded, askedVars, failed,
                   requests, mishaps>>

-----------------------------------------------------------------------------
(* add_project and remove_project.  Both hold rebuildMu to the end.        *)

Init ==
    /\ repos = {} /\ file \in UserFile
    /\ up = FALSE /\ watching = FALSE /\ event = FALSE /\ loaded = None
    /\ cfg = <<>> /\ projects = <<>> /\ served = <<>> /\ shared = FALSE
    /\ op = "free" /\ want = {}
    /\ due = ToSet(Defaulted(file)) /\ ambiguous = Ambiguous(file)
    /\ clobbered = FALSE /\ misnamed = FALSE
    /\ missed = FALSE /\ failed = FALSE /\ unlisted = {}
    /\ requests = 0 /\ edits = 0 /\ mishaps = 0

Request ==
    /\ up /\ op = "free"
    /\ requests < MaxRequests /\ requests' = requests + 1
    /\ op' = "truncate"
    /\ clobbered' = (clobbered \/ cfg # Defaulted(file) \/ failed)

\* append writes into the array the server reads from, or moves to a larger one.
AddProject(p, b) == \E n \in 0..Len(projects) :
    LET project == [path |-> p, name |-> <<b, n>>]
        d == [path |-> p, name |-> <<b, n>>, auto |-> FALSE]
    IN
    /\ Request
    /\ p \notin PathsOf(projects)
    /\ IsNew(b, n, NamesOf(projects))
    /\ cfg' = Append(cfg, d)
    /\ projects' = Append(projects, project)
    /\ IF shared /\ Len(served) > Len(projects)
       THEN /\ served' = [served EXCEPT ![Len(projects) + 1] = project]
            /\ UNCHANGED shared
       ELSE /\ UNCHANGED served
            /\ shared' \in {shared, FALSE}
    /\ want' = due \cup {d}
    /\ unlisted' = unlisted \cup {p}
    /\ UNCHANGED <<fileVars, lifeVars, loaded, due, misnamed, ambiguous, failed, edits,
                   mishaps>>

\* Removing the i-th element moves the later ones down in the array; a slice that is
\* longer than what is left ends with the last one twice.
Shifted(i) ==
    [k \in DOMAIN served |-> IF k < i \/ k >= Len(projects) THEN served[k] ELSE projects[k + 1]]

\* The entry of the configuration that is removed: the first of that name, if any.
NoEntry(name) == {}     \* (Mutant: the configuration keeps the entry)
EntryOf(name) == {i \in DOMAIN cfg : /\ cfg[i].name = name
                                     /\ \A j \in 1..i - 1 : cfg[j].name # name}

RemoveProject(i) ==
    LET p == projects[i] IN
    /\ Request
    /\ \A j \in 1..i - 1 : projects[j].name # p.name
    /\ projects' = RemoveAt(projects, i)
    /\ served' = IF shared THEN Shifted(i) ELSE served
    /\ \/ EntryOf(p.name) = {} /\ UNCHANGED <<cfg, misnamed>>
       \/ \E k \in EntryOf(p.name) :
             /\ cfg' = RemoveAt(cfg, k)
             /\ misnamed' = (misnamed \/ cfg[k].path # p.path \/ cfg[k].auto)
    /\ want' = due \ {[path |-> p.path, name |-> p.name, auto |-> FALSE]}
    /\ unlisted' = unlisted \ {p.path}
    /\ UNCHANGED <<fileVars, lifeVars, loaded, shared, due, ambiguous, failed, edits,
                   mishaps>>

\* saveConfig: os.WriteFile truncates the file and then writes it; each may fail, and
\* the tool then returns with what it has changed in memory.
SaveFails ==
    /\ op \in {"truncate", "write"} /\ Mishap
    /\ op' = "free" /\ want' = {}
    /\ failed' = TRUE
    /\ UNCHANGED <<fileVars, memVars, lifeVars, loaded, askedVars, requests, edits>>

TruncateConfig ==
    /\ op = "truncate" /\ op' = "write"
    /\ FileChanges(<<>>)
    /\ UNCHANGED <<memVars, want, lifeVars, loaded, askedVars, failed, boundVars>>

WriteConfig ==
    /\ op = "write" /\ op' = "serve"
    /\ FileChanges(cfg)
    /\ due' = want /\ want' = {}
    /\ UNCHANGED <<memVars, lifeVars, loaded, clobbered, misnamed, ambiguous, failed, boundVars>>

\* ReloadProjects hands the server the slice itself; the watcher is restarted with the list.
ServeLater ==           \* (Mutant: the tools leave it to the reload to tell the server)
    /\ op = "serve" /\ op' = "free"
    /\ UNCHANGED <<fileVars, memVars, want, lifeVars, loaded, askedVars, failed, boundVars>>
Serve ==
    /\ op = "serve" /\ op' = "free"
    /\ served' = projects /\ shared' = TRUE /\ unlisted' = {}
    /\ failed' = FALSE
    /\ UNCHANGED <<fileVars, cfg, projects, want, lifeVars, loaded, askedVars, boundVars>>

-----------------------------------------------------------------------------
(* watchConfig and ReloadConfig.                                           *)

\* Run starts watchConfig when the server is ready, some time after Load.
WatchConfig ==
    /\ up /\ ~watching /\ watching' = TRUE
    /\ UNCHANGED <<fileVars, memVars, lockVars, up, loaded, askedVars, failed, boundVars>>

\* Load: the file, with defaults for what it leaves out, and what it resolves to.
Read == loaded' = [read |-> TRUE, dirs |-> Defaulted(file),
                   projects |-> Resolve(Defaulted(file), repos)]

\* 200 ms after the last event: the file is read; changes that come while the
\* reload goes on are reported to the next round.  The projects are resolved before the lock.
LoadConfigUnvalidated ==        \* (Mutant: a configuration without directories is accepted)
    /\ up /\ event /\ loaded = None
    /\ event' = FALSE
    /\ Read /\ missed' = FALSE
    /\ UNCHANGED <<repos, file, memVars, lockVars, lifeVars, askedVars, failed, boundVars>>
CanLoad == up /\ event /\ loaded = None
LoadConfig ==
    /\ CanLoad
    /\ event' = FALSE
    /\ IF Loadable(file) THEN Read /\ missed' = FALSE ELSE UNCHANGED <<loaded, missed>>
    /\ UNCHANGED <<repos, file, memVars, lockVars, lifeVars, askedVars, failed, boundVars>>

\* The rest of ReloadConfig, under rebuildMu.
ApplyDropsEvents ==     \* (Mutant: changes that come during a reload are not reloaded)
    /\ loaded # None /\ op = "free"
    /\ cfg' = loaded.dirs /\ projects' = loaded.projects
    /\ served' = projects' /\ shared' = TRUE /\ unlisted' = {}
    /\ loaded' = None /\ failed' = FALSE /\ event' = FALSE
    /\ UNCHANGED <<repos, file, missed, lockVars, lifeVars, askedVars, boundVars>>
Apply ==
    /\ loaded # None /\ op = "free"
    /\ cfg' = loaded.dirs /\ projects' = loaded.projects
    /\ served' = projects' /\ shared' = TRUE /\ unlisted' = {}
    /\ loaded' = None /\ failed' = FALSE
    /\ UNCHANGED <<fileVars, lockVars, lifeVars, askedVars, boundVars>>

-----------------------------------------------------------------------------
(* The life of the process.                                                *)

Boot ==
    /\ ~up /\ Loadable(file)
    /\ up' = TRUE
    /\ cfg' = Defaulted(file) /\ projects' = Resolve(Defaulted(file), repos) /\ served' = projects'
    /\ shared' = TRUE
    /\ UNCHANGED <<fileVars, unlisted, lockVars, watching, loaded, askedVars, failed, boundVars>>

Die ==
    /\ up /\ Mishap
    /\ up' = FALSE /\ watching' = FALSE /\ event' = FALSE /\ loaded' = None
    /\ cfg' = <<>> /\ projects' = <<>> /\ served' = <<>> /\ shared' = FALSE
    /\ op' = "free" /\ want' = {} /\ missed' = FALSE /\ failed' = FALSE /\ unlisted' = {}
    /\ UNCHANGED <<repos, file, askedVars, requests, edits>>

Tools ==
    \/ \E p \in Path, b \in Label : AddProject(p, b)
    \/ \E i \in DOMAIN projects : RemoveProject(i)
Holder == TruncateConfig \/ WriteConfig \/ Serve
Watch == WatchConfig \/ LoadConfig \/ Apply

Next ==
    \/ \E f \in UserFile : UserEdit(f)
    \/ \E p \in NewRepository : MakeRepository(p)
    \/ Tools \/ Holder \/ SaveFails \/ Watch
    \/ Boot \/ Die

Spec == Init /\ [][Next]_vars

\* The lock is held for a write and a restart of the watcher; timers expire.  The second
\* line is WF_vars(LoadConfig), with what enables the action spelled out.
Fairness ==
    /\ WF_vars(Holder) /\ WF_vars(WatchConfig) /\ SF_vars(Apply)
    /\ []<>~CanLoad \/ []<><<LoadConfig>>_vars

FairSpec == Spec /\ Fairness

-----------------------------------------------------------------------------
(* Properties.                                                             *)

\* Names are what remove_project and rebuild_project go by, and a path is indexed
\* under one of them: whatever is added, removed, discovered and reloaded, no two
\* projects share a name or a path unless two explicit entries of a file a user wrote do.
\* remove_project breaks this when it takes the entry of an auto root for that of a
\* project of the same name.
NamesUnique == ~misnamed /\ ~ambiguous => Distinct(projects)

\* When nothing is going on, the daemon runs what config.yaml says: a reload that
\* read the file before a tool changed it is followed by another one.  It does
\* not hold of an edit made before watchConfig began to watch, nor of a new repository.
Quiet == up /\ watching /\ ~event /\ loaded = None /\ op = "free"
SettledAgrees ==
    Quiet /\ ~missed /\ ~failed /\ Loadable(file) =>
        cfg = Defaulted(file) /\ projects = Resolve(cfg, repos)

\* Edits, add_project, remove_project, reloads and restarts add up: config.yaml has
\* just what was asked for.  It takes a tool that sets out from another
\* configuration than the file's (an edit not reloaded yet, an overtaken reload, a failed
\* save), or two entries of one name or path, to lose any of it.
FileKeepsRequests ==
    ~clobbered /\ ~misnamed /\ ~ambiguous /\ Loadable(file) => ToSet(Defaulted(file)) = due

\* The server lists the projects there are.  While a tool is at work, and when it could
\* not save, its list may repeat one, but although remove_project shifts the array
\* under its readers it lacks only what has been added.
ServesProjects ==
    /\ up /\ op = "free" /\ ~failed => served = projects
    /\ \A p \in ToSet(projects) : p \in ToSet(served) \/ p.path \in unlisted

\* Why SettledAgrees holds: what watchConfig has still to hear of is an event, what it has
\* read is the file unless it has one, and a tool leaves an event behind.
Unheard == event \/ missed
LifeInv == watching \/ event \/ loaded # None \/ op # "free" => up
NowRead == loaded = [read |-> TRUE, dirs |-> Defaulted(file),
                   projects |-> Resolve(Defaulted(file), repos)]
ReadInv == loaded # None /\ ~Unheard /\ Loadable(file) => NowRead
SaveInv == op = "serve" /\ ~Unheard /\ Loadable(file) => loaded # None /\ NowRead
CalmInv ==
    up /\ op = "free" /\ loaded = None /\ ~Unheard /\ ~failed /\ Loadable(file) =>
        cfg = Defaulted(file) /\ projects = Resolve(Defaulted(file), repos)
SyncInv == LifeInv /\ ReadInv /\ SaveInv /\ CalmInv

\* What a user writes into config.yaml takes effect without a restart, unless the
\* file is changed again before, or something has changed of which nobody is told.
EditsTakeEffect == \A f \in UserFile :
    file = f ~> \/ cfg = Defaulted(f) /\ projects = Resolve(cfg, repos)
                \/ file # f \/ ~up \/ missed \/ failed
=============================================================================
