------------------------------- MODULE Watcher -------------------------------
(***************************************************************************)
(* The file watcher (internal/watcher) and its owner in internal/app: a    *)
(* goroutine per Start reads the events of the kernel into a set of        *)
(* pending paths, a timer hands the set over two seconds after the last    *)
(* event, and RebuildIndex and restartWatcher stop and start all that      *)
(* while events, timers and callbacks are under way.                       *)
(*                                                                         *)
(* Stop and Start write w.ctx and w.watcher without w.mu, and run reads    *)
(* them on its way into its select; a nil w.watcher ends the process.      *)
(***************************************************************************)
EXTENDS Naturals, FiniteSets

CONSTANTS
    Dir, Root,      \* directories; Root is the configured one
    File,           \* files
    Parent,         \* where a file is, and a directory other than Root
    Above,          \* a path and the directories it is in, up to Root
    Free,           \* nobody holds w.mu
    MaxStarts,      \* goroutines that run the event loop
    MaxChanges,     \* directories made or moved; files may change for ever
    MaxTimers,      \* orphaned timers, and flushes that wait for w.mu
    MaxMishaps      \* events that overflow the kernel's queue, failed starts, directories
                    \* that cannot be watched or listed

Path == Dir \cup File
Runner == 1..MaxStarts

\* fsnotify.Event: created stands for a Create that is nothing else.
Event == [path : Path, created : BOOLEAN]

Below(d) == {x \in Path : d \in Above[x]}

ASSUME TreeIsRooted ==
    /\ Root \in Dir /\ Dir \cap File = {}
    /\ Parent \in [Path \ {Root} -> Dir]
    /\ Above[Root] = {Root}
    /\ \A x \in Path \ {Root} : Above[x] = {x} \cup Above[Parent[x]]
    /\ \A d \in Dir : Root \in Above[d] /\ Above[d] \subseteq Dir
    /\ \A x \in Path : \A d \in Above[x] : Above[d] \subseteq Above[x]
ASSUME FreeIsNoRunner == Free \notin Runner
ASSUME BoundsAreNaturals ==
    MaxStarts \in Nat /\ MaxChanges \in Nat /\ MaxTimers \in Nat /\ MaxMishaps \in Nat

VARIABLES
    dirs,           \* the directories there are
    stale,          \* files changed since their path was last handed over
    missed,         \* files whose last change is in nobody's hands; directories whose
                    \* event is, or that could not be watched or listed
    cancelled,      \* w.ctx is done
    open,           \* w.watcher is not nil
    watches,        \* directories the kernel watches for it
    queue,          \* events the kernel has for it
    pc, got,        \* per goroutine: where run is, the event it handles
    stray,          \* goroutines of watchers that have been replaced
    mu,             \* the goroutine that holds w.mu for longer than a step, or Free
    pending, timer, \* w.pending; w.timer: nil, armed, fired, or stopped
    orphans,        \* armed timers that w.timer does not refer to any more
    fired,          \* flushes on their way to w.mu
    inflight,       \* paths a flush has taken and not handed over yet
    ctl,            \* how far the owner is with Stop and Start
    panicked,       \* nil pointer dereference: the process is gone
    starts, changes, mishaps

treeVars  == <<dirs, stale, missed>>
fsVars    == <<cancelled, open, watches, queue>>
runVars   == <<pc, got, stray, mu>>
timerVars == <<pending, timer, orphans, fired, inflight>>
vars == <<treeVars, fsVars, runVars, timerVars, ctl, panicked, starts, changes, mishaps>>

TypeOK ==
    /\ dirs \subseteq Dir /\ Root \in dirs
    /\ stale \subseteq File /\ missed \subseteq Path
    /\ cancelled \in BOOLEAN /\ open \in BOOLEAN /\ panicked \in BOOLEAN
    /\ watches \subseteq dirs
    /\ queue \subseteq Event
    /\ pc \in [Runner -> {"none", "loop", "select", "handle", "walk", "arm", "done"}]
    /\ got \in [Runner -> Event]
    /\ stray \subseteq Runner
    /\ mu \in Runner \cup {Free}
    /\ pending \subseteq Path /\ inflight \subseteq Path
    /\ timer \in {"nil", "armed", "fired", "stopped"}
    /\ orphans \in Nat /\ fired \in Nat
    /\ ctl \in {"idle", "cancelled", "closed", "stopped", "rebuilt", "renewed", "cleared"}
    /\ starts \in 0..MaxStarts /\ changes \in 0..MaxChanges /\ mishaps \in 0..MaxMishaps

Created(d) == [path |-> d, created |-> TRUE]
Changed(x) == [path |-> x, created |-> FALSE]
Nothing == Changed(Root)        \* what a goroutine has that handles no event
PathsIn(events) == {e.path : e \in events}

\* New; the owner starts it when the start-up index is done.
Init ==
    /\ dirs = {Root} /\ stale = {} /\ missed = {}
    /\ cancelled = FALSE /\ open = FALSE /\ watches = {} /\ queue = {}
    /\ pc = [r \in Runner |-> "none"] /\ got = [r \in Runner |-> Nothing]
    /\ stray = {} /\ mu = Free
    /\ pending = {} /\ timer = "nil" /\ orphans = 0 /\ fired = 0 /\ inflight = {}
    /\ ctl = "stopped" /\ panicked = FALSE
    /\ starts = 0 /\ changes = 0 /\ mishaps = 0

-----------------------------------------------------------------------------
(* The file system and the kernel.                                         *)

Change == changes < MaxChanges /\ changes' = changes + 1
Mishap == mishaps < MaxMishaps /\ mishaps' = mishaps + 1

\* The kernel queues the event of a change in a directory that is watched, unless its queue
\* is full: then run logs an error.  m is what is missed otherwise.
Send(e, m) ==
    \/ /\ Parent[e.path] \in watches
       /\ queue' = queue \cup {e} /\ missed' = m /\ UNCHANGED mishaps
    \/ /\ Parent[e.path] \in watches /\ Mishap
       /\ missed' = m \cup {e.path} /\ UNCHANGED queue
    \/ /\ Parent[e.path] \notin watches
       /\ missed' = m \cup ({e.path} \cap File) /\ UNCHANGED <<queue, mishaps>>

\* A file is written, created or removed, as often as anybody likes.
Touch(f) ==
    /\ Parent[f] \in dirs
    /\ stale' = stale \cup {f}
    /\ Send(Changed(f), missed \ {f})
    /\ UNCHANGED <<dirs, cancelled, open, watches, runVars, timerVars, ctl, panicked,
                   starts, changes>>

\* A directory is made, or comes from elsewhere with all that X has of it.
MakeDir(d, X) ==
    /\ d \notin dirs /\ Parent[d] \in dirs /\ Change
    /\ \A x \in X : Above[x] \subseteq dirs \cup {d} \cup X
    /\ dirs' = dirs \cup {d} \cup (X \cap Dir)
    /\ stale' = stale \cup (X \cap File)
    /\ Send(Created(d), (missed \ ({d} \cup X)) \cup (X \cap File))
    /\ UNCHANGED <<cancelled, open, watches, runVars, timerVars, ctl, panicked, starts>>

\* A directory is renamed out of the tree.  The event names the directory alone; the
\* watches below it go with it.
MoveAway(d) ==
    LET files == {f \in File : Parent[f] \in dirs} \cap Below(d) IN
    /\ d \in dirs \ {Root} /\ Change
    /\ dirs' = dirs \ Below(d)
    /\ watches' = watches \ Below(d)
    /\ stale' = stale \cup files
    /\ Send(Changed(d), (missed \ (Below(d) \cap Dir)) \cup files)
    /\ UNCHANGED <<cancelled, open, runVars, timerVars, ctl, panicked, starts>>

-----------------------------------------------------------------------------
(* run and handleEvent.                                                    *)

Panic ==
    /\ panicked' = TRUE
    /\ UNCHANGED <<treeVars, fsVars, runVars, timerVars, ctl, starts, changes, mishaps>>

Goto(r, s) == pc' = [pc EXCEPT ![r] = s]

\* Both channels of the select are read from the watcher.
Select(r) ==
    /\ pc[r] = "loop"
    /\ IF open /\ r \notin stray
       THEN /\ Goto(r, "select")
            /\ UNCHANGED <<treeVars, fsVars, got, stray, mu, timerVars, ctl, panicked,
                           starts, changes, mishaps>>
       ELSE Panic

Receive(r) == \E e \in queue :
    /\ pc[r] = "select"
    /\ Goto(r, "handle") /\ got' = [got EXCEPT ![r] = e]
    /\ queue' = queue \ {e}
    /\ UNCHANGED <<treeVars, cancelled, open, watches, stray, mu, timerVars, ctl, panicked,
                   starts, changes, mishaps>>

Leave(r) ==
    /\ pc[r] = "select" /\ cancelled
    /\ Goto(r, "done")
    /\ UNCHANGED <<treeVars, fsVars, got, stray, mu, timerVars, ctl, panicked,
                   starts, changes, mishaps>>

\* The path becomes pending, and the timer is stopped; one that has fired is past stopping.
Note(x) ==
    /\ pending' = pending \cup {x}
    /\ timer' = IF timer = "nil" THEN "nil" ELSE "stopped"
    /\ UNCHANGED <<orphans, fired, inflight>>

\* handleEvent, under w.mu: a watcher that has been stopped takes nothing, a new directory
\* is walked first.
Handle(r) ==
    LET x == got[r].path IN
    /\ pc[r] = "handle" /\ mu = Free
    /\ \/ /\ cancelled \/ r \in stray
          /\ missed' = missed \cup {x}
          /\ Goto(r, "loop") /\ got' = [got EXCEPT ![r] = Nothing]
          /\ UNCHANGED <<mu, timerVars>>
       \/ /\ ~cancelled /\ r \notin stray /\ got[r].created /\ x \in dirs
          /\ Goto(r, "walk") /\ mu' = r
          /\ UNCHANGED <<got, missed, timerVars>>
       \/ /\ ~cancelled /\ r \notin stray /\ ~(got[r].created /\ x \in dirs)
          /\ Note(x)
          /\ Goto(r, "arm") /\ mu' = r /\ got' = [got EXCEPT ![r] = Nothing]
          /\ UNCHANGED missed
    /\ UNCHANGED <<dirs, stale, fsVars, stray, ctl, panicked, starts, changes, mishaps>>

\* The directories addRecursive comes to: each is watched before it is listed, so that one
\* made meanwhile is walked or reported; files that were there before are neither.
WatchedAlone(d) == {d} \cap dirs    \* (Mutant: sub-directories are not walked)
WatchedAnyway(d) == Below(d) \cap Dir   \* (Mutant: the error of a directory that is gone is ignored)
Watched(d) == Below(d) \cap dirs

\* One that cannot be watched is skipped with all that is below it, of one that cannot be
\* listed what is below; both are logged.
AddRecursive(d) ==
    LET D == Watched(d) IN
    \/ watches' = watches \cup D /\ missed' = missed \ D /\ UNCHANGED mishaps
    \/ \E s \in D : \E skipped \in {Below(s), Below(s) \ {s}} :
          /\ Mishap
          /\ watches' = watches \cup (D \ skipped)
          /\ missed' = (missed \ (D \ skipped)) \cup {s}

Walk(r) ==
    /\ pc[r] = "walk"
    /\ IF open
       THEN /\ AddRecursive(got[r].path)
            /\ Note(got[r].path)
            /\ Goto(r, "arm") /\ got' = [got EXCEPT ![r] = Nothing]
            /\ UNCHANGED <<dirs, stale, cancelled, open, queue, stray, mu, ctl, panicked,
                           starts, changes>>
       ELSE Panic

\* handleEvent ends: a new timer has two seconds to go.
ArmIfNone(r) ==         \* (Mutant: a timer that was there is stopped and not replaced)
    /\ pc[r] = "arm"
    /\ timer' = IF timer = "nil" THEN "armed" ELSE timer
    /\ Goto(r, "loop") /\ mu' = Free
    /\ UNCHANGED <<treeVars, fsVars, got, stray, pending, orphans, fired, inflight, ctl,
                   panicked, starts, changes, mishaps>>
Arm(r) ==
    /\ pc[r] = "arm"
    /\ timer' = "armed"
    /\ Goto(r, "loop") /\ mu' = Free
    /\ UNCHANGED <<treeVars, fsVars, got, stray, pending, orphans, fired, inflight, ctl,
                   panicked, starts, changes, mishaps>>

-----------------------------------------------------------------------------
(* The timers, flush and the callback.                                     *)

TimerFires ==
    /\ \/ timer = "armed" /\ orphans + fired < MaxTimers /\ timer' = "fired" /\ UNCHANGED orphans
       \/ orphans > 0 /\ orphans' = orphans - 1 /\ UNCHANGED timer
    /\ fired' = fired + 1
    /\ UNCHANGED <<treeVars, fsVars, runVars, pending, inflight, ctl, panicked,
                   starts, changes, mishaps>>

\* w.timer is forgotten, also one that an event has armed since.
FlushLosesPaths ==      \* (Mutant: the pending set is replaced before it is copied)
    /\ fired > 0 /\ mu = Free
    /\ fired' = fired - 1
    /\ pending' = {} /\ timer' = "nil"
    /\ orphans' = IF timer = "armed" THEN orphans + 1 ELSE orphans
    /\ UNCHANGED <<treeVars, fsVars, runVars, inflight, ctl, panicked, starts, changes, mishaps>>
Flush ==
    /\ fired > 0 /\ mu = Free
    /\ fired' = fired - 1
    /\ inflight' = inflight \cup pending /\ pending' = {}
    /\ timer' = "nil"
    /\ orphans' = IF timer = "armed" THEN orphans + 1 ELSE orphans
    /\ UNCHANGED <<treeVars, fsVars, runVars, ctl, panicked, starts, changes, mishaps>>

\* onChange takes App.rebuildMu, which the owner holds from Stop to Start.
OnChange(x) ==
    /\ x \in inflight /\ ctl = "idle"
    /\ inflight' = inflight \ {x}
    /\ stale' = stale \ {x}
    /\ missed' = IF x \in File THEN missed \ {x} ELSE missed
    /\ UNCHANGED <<dirs, fsVars, runVars, pending, timer, orphans, fired, ctl, panicked,
                   starts, changes, mishaps>>

-----------------------------------------------------------------------------
(* Stop and Start, under App.rebuildMu.                                    *)

StopCancels ==
    /\ ctl = "idle" /\ starts < MaxStarts
    /\ ctl' = "cancelled" /\ cancelled' = TRUE
    /\ UNCHANGED <<treeVars, open, watches, queue, runVars, timerVars, panicked,
                   starts, changes, mishaps>>

\* Close ends the selects on the watcher's channels.
StopCloses ==
    /\ ctl = "cancelled" /\ ctl' = "closed"
    /\ open' = FALSE /\ watches' = {} /\ queue' = {}
    /\ missed' = missed \cup PathsIn(queue)
    /\ pc' = [r \in Runner |-> IF pc[r] = "select" THEN "done" ELSE pc[r]]
    /\ UNCHANGED <<dirs, stale, cancelled, got, stray, mu, timerVars, panicked,
                   starts, changes, mishaps>>

\* Stop and Start clear what is pending, and stop the timer that w.timer refers to.
ClearsSilently ==       \* (Mutant: the timer is stopped and w.pending kept)
    /\ mu = Free
    /\ timer' = "nil"
    /\ UNCHANGED <<missed, pending, orphans, fired, inflight>>
ClearPending ==
    /\ mu = Free
    /\ pending' = {} /\ missed' = missed \cup pending
    /\ timer' = "nil"
    /\ UNCHANGED <<orphans, fired, inflight>>

StopDiscards ==
    /\ ctl = "closed" /\ ctl' = "stopped"
    /\ ClearPending
    /\ UNCHANGED <<dirs, stale, fsVars, runVars, panicked, starts, changes, mishaps>>

\* RebuildIndex reads every file there is between Stop and Start.
Reindex ==
    /\ ctl = "stopped" /\ starts > 0 /\ ctl' = "rebuilt"
    /\ stale' = {} /\ missed' = missed \ File
    /\ UNCHANGED <<dirs, fsVars, runVars, timerVars, panicked, starts, changes, mishaps>>

\* Start, of the same watcher: a context that is not done yet ...
StartRenews ==
    /\ ctl \in {"stopped", "rebuilt"} /\ starts < MaxStarts /\ ctl' = "renewed"
    /\ cancelled' = FALSE
    /\ UNCHANGED <<treeVars, open, watches, queue, runVars, timerVars, panicked,
                   starts, changes, mishaps>>

\* ... or of a new one, as restartWatcher does: nothing reaches the old one any more.
StartReplaces ==
    /\ ctl = "stopped" /\ starts < MaxStarts /\ ctl' = "cleared"
    /\ cancelled' = FALSE
    /\ stray' = {r \in Runner : pc[r] # "none"}
    /\ orphans' = 0 /\ fired' = 0 /\ pending' = {} /\ timer' = "nil"
    /\ missed' = missed \cup pending
    /\ UNCHANGED <<dirs, stale, open, watches, queue, pc, got, mu, inflight, panicked,
                   starts, changes, mishaps>>

StartClears ==
    /\ ctl = "renewed" /\ ctl' = "cleared"
    /\ ClearPending
    /\ UNCHANGED <<dirs, stale, fsVars, runVars, panicked, starts, changes, mishaps>>

\* The tree is walked, and run starts.
StartWatches ==
    /\ ctl = "cleared" /\ ctl' = "idle"
    /\ open' = TRUE /\ AddRecursive(Root)
    /\ starts' = starts + 1 /\ Goto(starts + 1, "loop")
    /\ UNCHANGED <<dirs, stale, cancelled, queue, got, stray, mu, timerVars, panicked,
                   changes>>

\* NewWatcher fails; RebuildIndex logs it and goes on without a watcher.
StartFails ==
    /\ ctl = "cleared" /\ Mishap
    /\ ctl' = "idle"
    /\ UNCHANGED <<treeVars, fsVars, runVars, timerVars, panicked, starts, changes>>

-----------------------------------------------------------------------------

Environment ==
    \/ \E f \in File : Touch(f)
    \/ \E d \in Dir \ {Root} : MoveAway(d) \/ \E X \in SUBSET (Below(d) \ {d}) : MakeDir(d, X)

Run(r) == Select(r) \/ Receive(r) \/ Leave(r) \/ Handle(r) \/ Walk(r) \/ Arm(r)

\* The owner, once it has begun to stop the watcher.
Restart == StopCloses \/ StopDiscards \/ StartRenews \/ StartReplaces \/ StartClears
           \/ StartWatches \/ StartFails

Next == ~panicked /\
    (\/ Environment
     \/ \E r \in Runner : Run(r)
     \/ TimerFires \/ Flush \/ \E x \in Path : OnChange(x)
     \/ StopCancels \/ Reindex \/ Restart)

Spec == Init /\ [][Next]_vars

\* Goroutines run, and the index operations between Stop and Start end.  A timer fires if
\* it is left alone; one that events keep stopping and replacing need not.
Fairness ==
    /\ \A r \in Runner : WF_vars(~panicked /\ Run(r))
    /\ WF_vars(~panicked /\ TimerFires) /\ WF_vars(~panicked /\ Flush)
    /\ WF_vars(~panicked /\ \E x \in Path : OnChange(x))
    /\ WF_vars(~panicked /\ Restart)

FairSpec == Spec /\ Fairness

-----------------------------------------------------------------------------
(* Properties.                                                             *)

Held == {r \in Runner : pc[r] \in {"handle", "walk"}}
OnItsWay == PathsIn(queue) \cup {got[r].path : r \in Held} \cup pending \cup inflight

\* A changed file is handed over or on its way there, unless it changed where no watch was
\* or its event was dropped by the kernel or by a Stop: no interleaving of the event loop,
\* the timers, the flushes and restarts loses another one.
NothingForgotten == stale \subseteq missed \cup OnItsWay

\* What is pending has a timer that has still to fire or is about to be armed, or a flush
\* that has still to come, although a flush forgets a timer that was armed after its own.
PendingHasTimer == pending # {} =>
    timer = "armed" \/ orphans > 0 \/ fired > 0 \/ \E r \in Runner : pc[r] = "arm"

\* Every directory is watched, or the event of it or of one above it is still to be
\* handled, unless that was dropped or the walk it began could not watch or list one.
Announced == {e.path : e \in {e \in queue : e.created}}
             \cup {got[r].path : r \in {r \in Held : got[r].created}}
DirectoriesAreWatched == open =>
    \A d \in dirs \ watches : Above[d] \cap (Announced \cup missed) # {}

\* What the properties rest on: a start has a goroutine left, goroutines that were not
\* started do nothing, and the directories there are form a tree.
Starting == ctl \in {"renewed", "cleared"} => starts < MaxStarts
NotYet == \A r \in Runner : r > starts => pc[r] = "none"
TreeClosed == \A d \in dirs : Above[d] \subseteq dirs
ShapeInv == TypeOK /\ Starting /\ NotYet /\ TreeClosed

\* Once events leave the timer alone, a change is handed over in the end, or overtaken by a
\* loss; the owner's restarts, orphaned timers and goroutines that outlive their watcher do
\* not block it.  Events less than two seconds apart can put it off for ever.
ChangesAreReported ==
    <>[](\A r \in Runner : pc[r] # "arm") =>
        \A f \in File : f \in stale ~> f \notin stale \/ f \in missed \/ panicked
=============================================================================
