--------------------------- MODULE WatcherProofs ---------------------------
(***************************************************************************)
(* Proofs about Watcher, for any tree of directories and files, any number *)
(* of restarts, changes, lost events and failures: no change is forgotten  *)
(* but where watcher.go drops it, what is pending has a timer, and every   *)
(* directory is watched or announced.                                      *)
(***************************************************************************)
EXTENDS Watcher, TLAPS

\* What a directory holds, and what is above it.
LEMMA AboveFacts ==
    /\ \A x \in Path : x \in Above[x]
    /\ \A x \in Path : \A d \in Above[x] : d \in Path => Above[d] \subseteq Above[x]
    /\ \A d \in Dir : Above[d] \subseteq Dir
    /\ \A d \in Dir \ {Root} : Parent[d] \in Dir /\ Above[d] = {d} \cup Above[Parent[d]]
    /\ \A d \in Dir \ {Root} : Root \notin Below(d)
<1>1. Dir \subseteq Path /\ Root \in Path
    BY TreeIsRooted DEF Path
<1> QED
    BY <1>1, TreeIsRooted DEF Below

-----------------------------------------------------------------------------
(* The shape of the state.                                                 *)

LEMMA PathFacts ==
    /\ Root \in Dir /\ Dir \subseteq Path /\ File \subseteq Path /\ Dir \cap File = {}
    /\ \A x \in Path : Created(x) \in Event /\ Changed(x) \in Event
    /\ \A e \in Event : e.path \in Path
BY TreeIsRooted DEF Path, Event, Created, Changed

\* What the kernel and a walk do to the queue, the watches and what is missed.
LEMMA SendFacts ==
    ASSUME NEW e, NEW m, Send(e, m)
    PROVE  /\ queue \subseteq queue' /\ queue' \subseteq queue \cup {e}
           /\ m \subseteq missed' /\ missed' \subseteq m \cup {e.path}
           /\ mishaps' = mishaps \/ (mishaps < MaxMishaps /\ mishaps' = mishaps + 1)
           /\ e \in queue' \/ e.path \in missed' 
              \/ (e.path \notin File /\ Parent[e.path] \notin watches)
BY DEF Send, Mishap

LEMMA WalkFacts ==
    ASSUME TypeOK, NEW d \in Path, AddRecursive(d)
    PROVE  /\ watches \subseteq watches' /\ watches' \subseteq dirs
           /\ missed \ Watched(d) \subseteq missed' /\ missed' \subseteq missed \cup Watched(d)
           /\ mishaps' = mishaps \/ (mishaps < MaxMishaps /\ mishaps' = mishaps + 1)
           /\ \A e \in Watched(d) \ watches' : Above[e] \cap missed' # {}
<1>1. CASE watches' = watches \cup Watched(d) /\ missed' = missed \ Watched(d) /\ UNCHANGED mishaps
    BY <1>1 DEF Watched, TypeOK
<1>2. ASSUME NEW s \in Watched(d), NEW skipped \in {Below(s), Below(s) \ {s}}, Mishap,
             watches' = watches \cup (Watched(d) \ skipped),
             missed' = (missed \ (Watched(d) \ skipped)) \cup {s}
      PROVE  /\ watches \subseteq watches' /\ watches' \subseteq dirs
             /\ missed \ Watched(d) \subseteq missed' /\ missed' \subseteq missed \cup Watched(d)
             /\ mishaps' = mishaps + 1 /\ mishaps < MaxMishaps
             /\ \A e \in Watched(d) \ watches' : Above[e] \cap missed' # {}
    <2>1. \A e \in skipped : s \in Above[e]
        BY <1>2 DEF Below
    <2>2. s \in missed'
        BY <1>2
    <2>3. \A e \in Watched(d) \ watches' : e \in skipped
        BY <1>2
    <2>4. watches' \subseteq dirs
        BY <1>2 DEF Watched, TypeOK
    <2> QED BY <1>2, <2>1, <2>2, <2>3, <2>4 DEF Mishap
<1> QED
    BY <1>1, <1>2 DEF AddRecursive

LEMMA TypeStep == ShapeInv /\ [Next]_vars => TypeOK'
<1> SUFFICES ASSUME ShapeInv, [Next]_vars PROVE TypeOK'
    OBVIOUS
<1> USE PathFacts, FreeIsNoRunner, BoundsAreNaturals
        DEF ShapeInv, TypeOK, Change, Mishap, Goto, Nothing, treeVars, fsVars, runVars, timerVars
<1>1. ASSUME NEW f \in File, Touch(f) PROVE TypeOK'
    <2>1. Changed(f) \in Event /\ Changed(f).path = f /\ Send(Changed(f), missed \ {f})
        BY <1>1 DEF Touch, Changed
    <2> QED BY <1>1, <2>1, SendFacts DEF Touch
<1>2. ASSUME NEW d \in Dir \ {Root}, NEW X \in SUBSET (Below(d) \ {d}), MakeDir(d, X) PROVE TypeOK'
    <2>1. Created(d) \in Event /\ Created(d).path = d
        BY DEF Created
    <2>2. Send(Created(d), (missed \ ({d} \cup X)) \cup (X \cap File))
        BY <1>2 DEF MakeDir
    <2>3. X \subseteq Path
        BY DEF Below
    <2> QED BY <1>2, <2>1, <2>2, <2>3, SendFacts DEF MakeDir
<1>3. ASSUME NEW d \in Dir \ {Root}, MoveAway(d) PROVE TypeOK'
    <2>1. Changed(d) \in Event /\ Changed(d).path = d
        BY DEF Changed
    <2>2. PICK files \in SUBSET File : /\ Send(Changed(d), (missed \ (Below(d) \cap Dir)) \cup files)
                                     /\ stale' = stale \cup files
        BY <1>3 DEF MoveAway
    <2>3. Root \in dirs'
        BY <1>3, AboveFacts DEF MoveAway
    <2> QED BY <1>3, <2>1, <2>2, <2>3, SendFacts DEF MoveAway
<1>5. ASSUME NEW r \in Runner, Select(r) PROVE TypeOK'
    BY <1>5 DEF Select, Panic
<1>6. ASSUME NEW r \in Runner, Receive(r) PROVE TypeOK'
    BY <1>6 DEF Receive
<1>7. ASSUME NEW r \in Runner, Leave(r) PROVE TypeOK'
    BY <1>7 DEF Leave
<1>8. ASSUME NEW r \in Runner, Handle(r) PROVE TypeOK'
    BY <1>8 DEF Handle, Note
<1>9. ASSUME NEW r \in Runner, Walk(r) PROVE TypeOK'
    <2>1. got[r].path \in Path
        OBVIOUS
    <2>2. CASE open
        <3>1. watches' \subseteq dirs /\ missed' \subseteq Path /\ mishaps' \in 0..MaxMishaps
            BY <1>9, <2>1, <2>2, WalkFacts DEF Walk, Watched
        <3> QED
            BY <1>9, <2>1, <2>2, <3>1 DEF Walk, Note
    <2>3. CASE ~open
        BY <1>9, <2>3 DEF Walk, Panic
    <2> QED
        BY <2>2, <2>3
<1>4. ASSUME NEW r \in Runner, Arm(r) PROVE TypeOK'
    BY <1>4 DEF Arm
<1>10. ASSUME TimerFires PROVE TypeOK'
    BY <1>10 DEF TimerFires
<1>11. ASSUME Flush PROVE TypeOK'
    BY <1>11 DEF Flush
<1>12. ASSUME NEW x \in Path, OnChange(x) PROVE TypeOK'
    BY <1>12 DEF OnChange
<1>13. ASSUME StopCancels PROVE TypeOK'
    BY <1>13 DEF StopCancels
<1>14. ASSUME StopCloses PROVE TypeOK'
    BY <1>14 DEF StopCloses, PathsIn
<1>15. ASSUME StopDiscards PROVE TypeOK'
    BY <1>15 DEF StopDiscards, ClearPending
<1>16. ASSUME Reindex PROVE TypeOK'
    BY <1>16 DEF Reindex
<1>17. ASSUME StartRenews PROVE TypeOK'
    BY <1>17 DEF StartRenews
<1>18. ASSUME StartReplaces PROVE TypeOK'
    BY <1>18 DEF StartReplaces
<1>19. ASSUME StartClears PROVE TypeOK'
    BY <1>19 DEF StartClears, ClearPending
<1>20. ASSUME StartWatches PROVE TypeOK'
    <2>1. starts + 1 \in Runner /\ starts' \in 0..MaxStarts
        BY <1>20 DEF StartWatches, Starting, Runner
    <2>2. watches' \subseteq dirs /\ missed' \subseteq Path /\ mishaps' \in 0..MaxMishaps
        BY <1>20, WalkFacts DEF StartWatches, Watched
    <2> QED
        BY <1>20, <2>1, <2>2 DEF StartWatches
<1>21. ASSUME StartFails PROVE TypeOK'
    BY <1>21 DEF StartFails
<1>22. ASSUME UNCHANGED vars PROVE TypeOK'
    BY <1>22 DEF vars
<1> QED
    BY <1>1, <1>2, <1>3, <1>4, <1>5, <1>6, <1>7, <1>8, <1>9, <1>10, <1>11, <1>12,
       <1>13, <1>14, <1>15, <1>16, <1>17, <1>18, <1>19, <1>20, <1>21, <1>22
    DEF Next, Environment, Run, Restart

\* A directory is made below one there is, and goes with all that is below it.
LEMMA TreeStep == ShapeInv /\ [Next]_vars => TreeClosed'
<1> SUFFICES ASSUME ShapeInv, [Next]_vars PROVE TreeClosed'
    OBVIOUS
<1> USE DEF ShapeInv, TreeClosed
<1>1. dirs \subseteq Dir /\ Dir \subseteq Path
    BY DEF TypeOK, Path
<1>2. ASSUME NEW d \in Dir \ {Root}, NEW X \in SUBSET (Below(d) \ {d}), MakeDir(d, X)
      PROVE  TreeClosed'
    <2>1. /\ dirs' = dirs \cup {d} \cup (X \cap Dir) /\ Parent[d] \in dirs
          /\ \A x \in X : Above[x] \subseteq dirs \cup {d} \cup X
        BY <1>2 DEF MakeDir
    <2>2. \A e \in Dir : Above[e] \subseteq Dir
        BY AboveFacts
    <2>3. Above[d] \subseteq dirs \cup {d}
        BY <2>1, AboveFacts
    <2> QED BY <1>1, <2>1, <2>2, <2>3
<1>3. ASSUME NEW d \in Dir \ {Root}, MoveAway(d) PROVE TreeClosed'
    <2>1. dirs' = dirs \ Below(d)
        BY <1>3 DEF MoveAway
    <2> SUFFICES ASSUME NEW e \in dirs \ Below(d), NEW a \in Above[e] PROVE a \notin Below(d)
        BY <2>1
    <2>2. e \in Path /\ a \in Path
        BY <1>1
    <2>3. a \in Below(d) => d \in Above[e]
        BY <2>2, AboveFacts DEF Below
    <2> QED
        BY <2>2, <2>3 DEF Below
<1>4. CASE UNCHANGED dirs
    BY <1>4
<1>5. CASE TimerFires \/ Flush \/ StopCancels \/ Reindex \/ Restart
           \/ (\E f \in File : Touch(f)) \/ (\E r \in Runner : Run(r))
           \/ (\E x \in Path : OnChange(x)) \/ UNCHANGED vars
    <2>1. UNCHANGED dirs
        BY <1>5 DEF TimerFires, Flush, StopCancels, Reindex, Restart, Touch, Run,
            OnChange, Select, Receive, Leave, Handle, Walk, Arm, Panic, StopCloses, StopDiscards,
            StartRenews, StartReplaces, StartClears, StartWatches, StartFails, treeVars, vars
    <2> QED
        BY <1>4, <2>1
<1> QED
    BY <1>2, <1>3, <1>5 DEF Next, Environment

\* Only a start goes on to the next goroutine, and only if there is one.
LEMMA RunnerStep == ShapeInv /\ [Next]_vars => Starting' /\ NotYet'
<1> SUFFICES ASSUME ShapeInv, [Next]_vars PROVE Starting' /\ NotYet'
    OBVIOUS
<1> USE DEF ShapeInv, TypeOK, Starting, NotYet
<1>1. ASSUME NEW r \in Runner, Run(r) PROVE Starting' /\ NotYet'
    BY <1>1 DEF Run, Select, Receive, Leave, Handle, Walk, Arm, Panic, Goto, runVars
<1>2. CASE StopCloses
    BY <1>2 DEF StopCloses
<1>3. CASE StartRenews \/ StartReplaces \/ StartClears \/ StartFails \/ StopDiscards \/ Reindex
           \/ StopCancels
    BY <1>3 DEF StartRenews, StartReplaces, StartClears, StartFails, StopDiscards, Reindex,
        StopCancels, runVars
<1>4. CASE StartWatches
    BY <1>4, BoundsAreNaturals DEF StartWatches, Goto, Runner
<1>5. CASE Environment \/ TimerFires \/ Flush \/ (\E x \in Path : OnChange(x)) \/ UNCHANGED vars
    <2>1. UNCHANGED <<ctl, starts, pc>>
        BY <1>5 DEF Environment, Touch, MakeDir, MoveAway, TimerFires, Flush, OnChange,
            runVars, vars
    <2> QED
        BY <2>1
<1> QED
    BY <1>1, <1>2, <1>3, <1>4, <1>5 DEF Next, Restart

THEOREM Shape == Spec => []ShapeInv
<1>1. Init => ShapeInv
    <2> SUFFICES ASSUME Init PROVE ShapeInv
        OBVIOUS
    <2>1. TypeOK
        <3>1. Changed(Root) \in Event
            BY PathFacts
        <3>2. got \in [Runner -> Event] /\ dirs \subseteq Dir /\ Root \in dirs
            BY <3>1, PathFacts DEF Init, Nothing
        <3>3. pc \in [Runner -> {"none", "loop", "select", "handle", "walk", "done"}]
            BY DEF Init
        <3>4. starts \in 0..MaxStarts /\ changes \in 0..MaxChanges /\ mishaps \in 0..MaxMishaps
            BY BoundsAreNaturals DEF Init
        <3> QED
            BY <3>2, <3>3, <3>4 DEF Init, TypeOK
    <2> QED
        BY <2>1, TreeIsRooted DEF Init, ShapeInv, Starting, NotYet, TreeClosed
<1>2. ShapeInv /\ [Next]_vars => ShapeInv'
    BY TypeStep, TreeStep, RunnerStep DEF ShapeInv
<1> QED
    BY <1>1, <1>2, PTL DEF Spec

THEOREM TypeCorrect == Spec => []TypeOK
<1> QED
    BY Shape, PTL DEF ShapeInv

-----------------------------------------------------------------------------
(* Timers.                                                                 *)

\* What is pending has a timer to come or a flush on its way.
THEOREM TimersCover == Spec => []PendingHasTimer
<1>1. Init => PendingHasTimer
    BY DEF Init, PendingHasTimer
<1>2. ShapeInv /\ PendingHasTimer /\ [Next]_vars => PendingHasTimer'
    <2> SUFFICES ASSUME ShapeInv, PendingHasTimer, [Next]_vars PROVE PendingHasTimer'
        OBVIOUS
    <2> USE DEF PendingHasTimer, timerVars
    <2>1. orphans \in Nat /\ fired \in Nat /\ pc \in [Runner -> {"none", "loop", "select",
                                                   "handle", "walk", "arm", "done"}]
        BY DEF ShapeInv, TypeOK
    <2>2. ASSUME NEW r \in Runner, Run(r) PROVE PendingHasTimer'
        <3>1. CASE Arm(r)
            BY <3>1 DEF Arm
        <3>2. CASE /\ pc' = [pc EXCEPT ![r] = "arm"]
            BY <2>1, <3>2
        <3>3. CASE UNCHANGED timerVars /\ pc[r] # "arm" /\ \A q \in Runner \ {r} : pc'[q] = pc[q]
            BY <3>3
        <3>4. CASE Select(r) \/ Receive(r) \/ Leave(r)
            <4>1. UNCHANGED timerVars /\ pc[r] # "arm"
                BY <3>4 DEF Select, Receive, Leave, Panic
            <4>2. \A q \in Runner \ {r} : pc'[q] = pc[q]
                BY <2>1, <3>4 DEF Select, Receive, Leave, Panic, Goto, runVars
            <4> QED BY <3>3, <4>1, <4>2
        <3>5. CASE Handle(r)
            <4>1. CASE UNCHANGED timerVars
                BY <2>1, <3>3, <3>5, <4>1 DEF Handle, Goto
            <4>2. CASE Goto(r, "arm")
                BY <3>2, <4>2 DEF Goto
            <4> QED BY <3>5, <4>1, <4>2 DEF Handle
        <3>6. CASE Walk(r)
            <4>1. CASE open
                BY <3>2, <3>6, <4>1 DEF Walk, Goto
            <4>2. CASE ~open
                BY <3>6, <4>2 DEF Walk, Panic, runVars
            <4> QED BY <4>1, <4>2
        <3> QED BY <2>2, <3>1, <3>4, <3>5, <3>6 DEF Run
    <2>3. CASE TimerFires
        BY <2>1, <2>3 DEF TimerFires
    <2>4. CASE Flush
        BY <2>4 DEF Flush
    <2>5. CASE StopCloses
        <3>1. \A q \in Runner : pc[q] = "arm" => pc'[q] = "arm"
            BY <2>1, <2>5 DEF StopCloses
        <3> QED BY <2>5, <3>1 DEF StopCloses
    <2>6. CASE StartWatches
        <3>1. \A q \in Runner : pc[q] = "arm" => pc'[q] = "arm"
            <4>1. ctl = "cleared" /\ starts \in 0..MaxStarts /\ starts < MaxStarts
                BY <2>6 DEF StartWatches, ShapeInv, Starting, TypeOK
            <4>2. starts + 1 \in Runner /\ starts + 1 > starts
                BY <4>1, BoundsAreNaturals DEF Runner
            <4>3. pc[starts + 1] = "none"
                BY <4>2 DEF ShapeInv, NotYet
            <4> QED BY <2>1, <2>6, <4>2, <4>3 DEF StartWatches, Goto
        <3> QED BY <2>6, <3>1 DEF StartWatches
    <2>7. CASE StopDiscards \/ StartRenews \/ StartReplaces \/ StartClears \/ StartFails
        BY <2>7 DEF StopDiscards, StartRenews, StartReplaces, StartClears, StartFails,
            ClearPending, runVars
    <2>8. CASE Environment \/ StopCancels \/ Reindex \/ (\E x \in Path : OnChange(x))
               \/ UNCHANGED vars
        BY <2>8 DEF Environment, Touch, MakeDir, MoveAway, StopCancels, Reindex,
            OnChange, runVars, vars
    <2> QED
        BY <2>2, <2>3, <2>4, <2>5, <2>6, <2>7, <2>8 DEF Next, Restart
<1> QED
    BY <1>1, <1>2, Shape, PTL DEF Spec

-----------------------------------------------------------------------------
(* Changes.                                                                *)

\* The files that are stale and accounted for in no set of their own.
LEMMA ForgottenStep == ShapeInv /\ NothingForgotten /\ [Next]_vars => NothingForgotten'
<1> SUFFICES ASSUME ShapeInv, NothingForgotten, [Next]_vars, NEW g \in stale'
             PROVE  g \in missed' \/ g \in OnItsWay'
    BY DEF NothingForgotten
<1> DEFINE Safe == g \in missed \/ g \in PathsIn(queue) \/ g \in pending \/ g \in inflight
                   \/ \E r \in Runner : pc[r] \in {"handle", "walk"} /\ got[r].path = g
<1>0. /\ Safe <=> g \in missed \/ g \in OnItsWay
      /\ Safe' <=> g \in missed' \/ g \in OnItsWay'
    BY DEF OnItsWay, Held
<1>1. TypeOK /\ stale' \subseteq File
    BY TypeStep DEF ShapeInv, TypeOK
<1>2. g \in File /\ g \notin Dir
    BY <1>1, TreeIsRooted
<1>3. g \in stale => Safe
    BY <1>0 DEF NothingForgotten
<1> HIDE DEF Safe
<1> SUFFICES Safe'
    BY <1>0
<1>a. ASSUME queue \subseteq queue', g \in stale, g \in missed => g \in missed',
             UNCHANGED <<pc, got, pending, inflight>>
      PROVE  Safe'
    BY <1>3, <1>a DEF Safe, PathsIn
<1>4. ASSUME NEW f \in File, Touch(f) PROVE Safe'
    <2>1. /\ Changed(f).path = f /\ Send(Changed(f), missed \ {f}) /\ stale' = stale \cup {f}
          /\ UNCHANGED <<pc, got, pending, inflight>>
        BY <1>4 DEF Touch, Changed, timerVars, runVars
    <2>2. /\ queue \subseteq queue' /\ missed \ {f} \subseteq missed'
          /\ Changed(f) \in queue' \/ f \in missed'
        BY <2>1 DEF Send
    <2>3. CASE g = f
        BY <2>1, <2>2, <2>3 DEF Safe, PathsIn
    <2>4. CASE g # f
        BY <1>a, <2>1, <2>2, <2>4
    <2> QED
        BY <2>3, <2>4
<1>5. ASSUME NEW d \in Dir \ {Root}, NEW X \in SUBSET (Below(d) \ {d}), MakeDir(d, X) PROVE Safe'
    <2>1. /\ Send(Created(d), (missed \ ({d} \cup X)) \cup (X \cap File))
          /\ stale' = stale \cup (X \cap File) /\ UNCHANGED <<pc, got, pending, inflight>>
        BY <1>5 DEF MakeDir, timerVars, runVars
    <2>2. queue \subseteq queue' /\ (missed \ ({d} \cup X)) \cup (X \cap File) \subseteq missed'
        BY <2>1, SendFacts
    <2>3. CASE g \in X
        BY <1>2, <2>2, <2>3 DEF Safe
    <2>4. CASE g \notin X
        BY <1>2, <1>a, <2>1, <2>2, <2>4
    <2> QED
        BY <2>3, <2>4
<1>6. ASSUME NEW d \in Dir \ {Root}, MoveAway(d) PROVE Safe'
    <2>1. PICK files : /\ Send(Changed(d), (missed \ (Below(d) \cap Dir)) \cup files)
                       /\ stale' = stale \cup files
        BY <1>6 DEF MoveAway
    <2>2. queue \subseteq queue' /\ (missed \ (Below(d) \cap Dir)) \cup files \subseteq missed'
        BY <2>1, SendFacts
    <2>3. UNCHANGED <<pc, got, pending, inflight>>
        BY <1>6 DEF MoveAway, timerVars, runVars
    <2>4. CASE g \in files
        BY <2>2, <2>4 DEF Safe
    <2>5. CASE g \notin files
        BY <1>2, <1>a, <2>1, <2>2, <2>3, <2>5
    <2> QED
        BY <2>4, <2>5
<1>8. ASSUME NEW r \in Runner, Run(r) PROVE Safe'
    <2>0. g \in stale /\ Safe
        BY <1>3, <1>8 DEF Run, Select, Receive, Leave, Handle, Walk, Arm, Panic, treeVars
    <2>1. CASE Select(r)
        BY <1>1, <2>0, <2>1 DEF Select, Panic, Goto, Safe, TypeOK, treeVars, fsVars, timerVars, runVars
    <2>2. ASSUME NEW e \in queue, pc[r] = "select", Goto(r, "handle"), got' = [got EXCEPT ![r] = e],
                 queue' = queue \ {e}, UNCHANGED <<missed, pending, inflight>>
          PROVE Safe'
        <3>1. PathsIn(queue) \subseteq PathsIn(queue') \cup {e.path}
            BY <2>2 DEF PathsIn
        <3>2. pc'[r] = "handle" /\ got'[r] = e
            BY <1>1, <2>2 DEF Goto, TypeOK
        <3>3. \A q \in Runner \ {r} : pc'[q] = pc[q] /\ got'[q] = got[q]
            BY <1>1, <2>2 DEF Goto, TypeOK
        <3> QED
            BY <2>0, <2>2, <3>1, <3>2, <3>3 DEF Safe
    <2>3. CASE Receive(r)
        BY <2>2, <2>3 DEF Receive, treeVars, timerVars
    <2>4. CASE Leave(r)
        BY <1>1, <2>0, <2>4 DEF Leave, Goto, Safe, TypeOK, treeVars, fsVars, timerVars, runVars
    <2>5. CASE Handle(r)
        <3>1. UNCHANGED <<queue, inflight>> /\ missed \subseteq missed' /\ pending \subseteq pending'
            BY <2>5 DEF Handle, Note, fsVars, timerVars
        <3>2. \A q \in Runner \ {r} : pc'[q] = pc[q] /\ got'[q] = got[q]
            BY <1>1, <2>5 DEF Handle, Goto, TypeOK
        <3>3. \/ got[r].path \in missed' \/ got[r].path \in pending'
              \/ (pc'[r] = "walk" /\ got'[r] = got[r])
            BY <1>1, <2>5 DEF Handle, Note, Goto, TypeOK
        <3> QED
            BY <2>0, <3>1, <3>2, <3>3 DEF Safe
    <2>6. CASE Walk(r)
        <3>1. CASE open
            <4>1. UNCHANGED <<queue, inflight>> /\ pending' = pending \cup {got[r].path}
                BY <2>6, <3>1 DEF Walk, Note
            <4>2. AddRecursive(got[r].path) /\ got[r].path \in Path
                BY <1>1, <2>6, <3>1, PathFacts DEF Walk, TypeOK
            <4>3. g \in missed => g \in missed'
                BY <1>1, <1>2, <4>2, WalkFacts DEF Watched, TypeOK
            <4>4. \A q \in Runner \ {r} : pc'[q] = pc[q] /\ got'[q] = got[q]
                BY <1>1, <2>6, <3>1 DEF Walk, Goto, TypeOK
            <4> QED
                BY <2>0, <4>1, <4>3, <4>4 DEF Safe
        <3>2. CASE ~open
            BY <2>0, <2>6, <3>2 DEF Walk, Panic, Safe, treeVars, fsVars, timerVars, runVars
        <3> QED
            BY <3>1, <3>2
    <2>7. CASE Arm(r)
        <3>1. UNCHANGED <<missed, queue, pending, inflight, got>> /\ pc[r] = "arm"
            BY <2>7 DEF Arm, treeVars, fsVars
        <3>2. \A q \in Runner \ {r} : pc'[q] = pc[q]
            BY <1>1, <2>7 DEF Arm, Goto, TypeOK
        <3> QED
            BY <2>0, <3>1, <3>2 DEF Safe
    <2> QED
        BY <1>8, <2>1, <2>3, <2>4, <2>5, <2>6, <2>7 DEF Run
<1>9. CASE TimerFires
    BY <1>3, <1>9 DEF TimerFires, Safe, treeVars, fsVars, runVars
<1>10. CASE Flush
    BY <1>3, <1>10 DEF Flush, Safe, treeVars, fsVars, runVars
<1>11. ASSUME NEW x \in Path, OnChange(x) PROVE Safe'
    BY <1>3, <1>11 DEF OnChange, Safe, fsVars, runVars
<1>12. CASE StopCancels
    BY <1>3, <1>12 DEF StopCancels, Safe, treeVars, timerVars, runVars
<1>13. CASE StopCloses
    <2>1. \A q \in Runner : pc[q] \in {"handle", "walk"} => pc'[q] = pc[q]
        BY <1>13 DEF StopCloses
    <2> QED
        BY <1>3, <1>13, <2>1 DEF StopCloses, Safe, timerVars
<1>14. CASE StopDiscards
    BY <1>3, <1>14 DEF StopDiscards, ClearPending, Safe, fsVars, runVars
<1>15. CASE Reindex
    BY <1>15 DEF Reindex
<1>16. CASE StartRenews
    BY <1>3, <1>16 DEF StartRenews, Safe, treeVars, timerVars, runVars
<1>17. CASE StartReplaces
    BY <1>3, <1>17 DEF StartReplaces, Safe
<1>18. CASE StartClears
    BY <1>3, <1>18 DEF StartClears, ClearPending, Safe, fsVars, runVars
<1>19. CASE StartWatches
    <2>1. starts + 1 \in Runner /\ pc[starts + 1] = "none"
        <3>1. ctl = "cleared" /\ starts \in 0..MaxStarts /\ starts < MaxStarts
            BY <1>1, <1>19 DEF StartWatches, ShapeInv, Starting, TypeOK
        <3>2. starts + 1 \in Runner /\ starts + 1 > starts
            BY <3>1, BoundsAreNaturals DEF Runner
        <3> QED
            BY <3>2 DEF ShapeInv, NotYet
    <2>2. \A q \in Runner : pc[q] \in {"handle", "walk"} => pc'[q] = pc[q]
        BY <1>1, <1>19, <2>1 DEF StartWatches, Goto, TypeOK
    <2>3. g \in missed => g \in missed'
        <3>1. AddRecursive(Root) /\ Root \in Path
            BY <1>19, PathFacts DEF StartWatches
        <3> QED BY <1>1, <1>2, <3>1, WalkFacts DEF Watched, TypeOK
    <2> QED
        BY <1>3, <1>19, <2>2, <2>3 DEF StartWatches, Safe, timerVars
<1>20. CASE StartFails
    BY <1>3, <1>20 DEF StartFails, Safe, treeVars, fsVars, timerVars, runVars
<1>21. CASE UNCHANGED vars
    BY <1>3, <1>21 DEF vars, Safe, treeVars, fsVars, timerVars, runVars
<1> QED
    BY <1>4, <1>5, <1>6, <1>8, <1>9, <1>10, <1>11, <1>12, <1>13, <1>14, <1>15,
       <1>16, <1>17, <1>18, <1>19, <1>20, <1>21
    DEF Next, Environment, Restart

\* No interleaving loses a change but where an event is dropped or nobody watches.
THEOREM ChangesAreKept == Spec => []NothingForgotten
<1>1. Init => NothingForgotten
    BY DEF Init, NothingForgotten
<1> QED
    BY <1>1, ForgottenStep, Shape, PTL DEF Spec

-----------------------------------------------------------------------------
(* Directories.                                                            *)

\* Whatever takes a directory out of the announced or the missed ones has watched it, with
\* all there is below it.
LEMMA WatchedStep == ShapeInv /\ DirectoriesAreWatched /\ [Next]_vars => DirectoriesAreWatched'
<1> SUFFICES ASSUME ShapeInv, DirectoriesAreWatched, [Next]_vars, open', NEW e \in dirs' \ watches'
             PROVE  Above[e] \cap (Announced' \cup missed') # {}
    BY DEF DirectoriesAreWatched
<1> DEFINE Known(m) == m \in missed \/ (\E v \in queue : v.created /\ v.path = m)
                       \/ \E r \in Runner : pc[r] \in {"handle", "walk"} /\ got[r].created
                                            /\ got[r].path = m
           Goal == \E m \in Above[e] : Known(m)'
<1>0. /\ \A m : Known(m) <=> m \in Announced \cup missed
      /\ \A m : Known(m)' <=> m \in Announced' \cup missed'
    BY DEF Announced, Held
<1>1. TypeOK /\ dirs' \subseteq Dir /\ Dir \subseteq Path /\ Dir \cap File = {}
    BY TypeStep, TreeIsRooted DEF ShapeInv, TypeOK, Path
<1>2. e \in Dir /\ e \in Path /\ Above[e] \subseteq dirs' /\ Above[e] \subseteq Dir
    BY <1>1, TreeStep DEF TreeClosed
<1>3. open /\ e \in dirs \ watches => \E m \in Above[e] : Known(m)
    BY <1>0 DEF DirectoriesAreWatched
<1> SUFFICES Goal
    BY <1>0
<1> HIDE DEF Known
<1>a. ASSUME open, dirs' = dirs, watches' = watches, \A m \in Dir : Known(m) => Known(m)' PROVE Goal
    BY <1>2, <1>3, <1>a
<1>4. ASSUME NEW f \in File, Touch(f) PROVE Goal
    <2>1. /\ Send(Changed(f), missed \ {f})
          /\ open /\ dirs' = dirs /\ watches' = watches /\ UNCHANGED <<pc, got>>
        BY <1>4 DEF Touch, runVars
    <2>2. queue \subseteq queue' /\ \A m \in Dir : m \in missed => m \in missed'
        BY <1>1, <2>1, SendFacts
    <2> QED
        BY <1>a, <2>1, <2>2 DEF Known
<1>5. ASSUME NEW d \in Dir \ {Root}, NEW X \in SUBSET (Below(d) \ {d}), MakeDir(d, X) PROVE Goal
    <2>1. /\ open /\ d \notin dirs /\ Parent[d] \in dirs /\ dirs' = dirs \cup {d} \cup (X \cap Dir)
          /\ watches' = watches /\ UNCHANGED <<pc, got>>
          /\ Send(Created(d), (missed \ ({d} \cup X)) \cup (X \cap File))
        BY <1>5 DEF MakeDir, runVars
    <2>2. queue \subseteq queue' /\ missed \ ({d} \cup X) \subseteq missed'
        BY <2>1, SendFacts
    <2>3. \A x \in dirs : x \notin {d} \cup X
        <3>1. \A x \in X : x \in Path /\ d \in Above[x]
            BY DEF Below
        <3> QED BY <2>1, <3>1 DEF ShapeInv, TreeClosed
    <2>4. \A m \in dirs : Known(m) => Known(m)'
        BY <2>1, <2>2, <2>3 DEF Known
    <2>5. CASE e \in dirs
        <3>1. Above[e] \subseteq dirs
            BY <2>5 DEF ShapeInv, TreeClosed
        <3> QED
            BY <1>3, <2>1, <2>4, <2>5, <3>1
    <2>6. CASE e \notin dirs /\ Parent[d] \in watches
        <3>1. Created(d).created /\ Created(d).path = d
            BY DEF Created
        <3>2. Created(d) \in queue' \/ d \in missed'
            BY <2>1, <2>6, <3>1 DEF Send
        <3>3. d \in Above[e]
            BY <1>2, <2>1, <2>6, AboveFacts DEF Below
        <3> QED
            BY <3>1, <3>2, <3>3 DEF Known
    <2>7. CASE e \notin dirs /\ Parent[d] \notin watches
        <3>1. PICK m \in Above[Parent[d]] : Known(m)
            BY <1>0, <2>1, <2>7 DEF DirectoriesAreWatched
        <3>2. m \in dirs
            BY <2>1, <3>1 DEF ShapeInv, TreeClosed
        <3>3. m \in Above[d] /\ d \in Above[e] /\ d \in Path
            BY <1>1, <1>2, <2>1, <2>7, <3>1, AboveFacts DEF Below
        <3>4. m \in Above[e]
            BY <1>2, <3>3, AboveFacts
        <3> QED
            BY <2>4, <3>1, <3>2, <3>4
    <2> QED
        BY <2>5, <2>6, <2>7
<1>6. ASSUME NEW d \in Dir \ {Root}, MoveAway(d) PROVE Goal
    <2>1. /\ open /\ dirs' = dirs \ Below(d) /\ watches' = watches \ Below(d)
          /\ UNCHANGED <<pc, got>>
        BY <1>6 DEF MoveAway, runVars
    <2>2. PICK files : Send(Changed(d), (missed \ (Below(d) \cap Dir)) \cup files)
        BY <1>6 DEF MoveAway
    <2>3. queue \subseteq queue' /\ missed \ Below(d) \subseteq missed'
        BY <2>2, SendFacts
    <2>4. \A m \in dirs' : Known(m) => Known(m)'
        BY <2>1, <2>3 DEF Known
    <2> QED
        BY <1>2, <1>3, <2>1, <2>4
<1>8. ASSUME NEW r \in Runner, Run(r) PROVE Goal
    <2>0. open /\ dirs' = dirs
        BY <1>8 DEF Run, Select, Receive, Leave, Handle, Walk, Arm, Panic, treeVars, fsVars
    <2>1. CASE Select(r) \/ Leave(r)
        <3>1. watches' = watches /\ missed' = missed /\ queue' = queue /\ got' = got
            BY <2>1 DEF Select, Leave, Panic, treeVars, fsVars, runVars
        <3>2. \A q \in Runner : pc[q] \in {"handle", "walk"} => pc'[q] = pc[q]
            BY <1>1, <2>1 DEF Select, Leave, Panic, Goto, TypeOK, runVars
        <3> QED
            BY <1>a, <2>0, <3>1, <3>2 DEF Known
    <2>2. ASSUME NEW v \in queue, pc[r] = "select", Goto(r, "handle"), got' = [got EXCEPT ![r] = v],
                 queue' = queue \ {v}, UNCHANGED <<missed, watches>>
          PROVE Goal
        <3>1. pc'[r] = "handle" /\ got'[r] = v
            BY <1>1, <2>2 DEF Goto, TypeOK
        <3>2. \A q \in Runner \ {r} : pc'[q] = pc[q] /\ got'[q] = got[q]
            BY <1>1, <2>2 DEF Goto, TypeOK
        <3>3. \A m \in Dir : Known(m) => Known(m)'
            BY <2>2, <3>1, <3>2 DEF Known
        <3> QED
            BY <1>a, <2>0, <2>2, <3>3
    <2>3. CASE Receive(r)
        BY <2>2, <2>3 DEF Receive, treeVars
    <2>4. CASE Handle(r)
        <3>1. UNCHANGED <<queue, watches>> /\ missed \subseteq missed'
            BY <2>4 DEF Handle, fsVars
        <3>2. \A q \in Runner \ {r} : pc'[q] = pc[q] /\ got'[q] = got[q]
            BY <1>1, <2>4 DEF Handle, Goto, TypeOK
        <3>3. \/ got[r].path \in missed' \/ got[r].path \notin dirs \/ ~got[r].created
              \/ (pc'[r] = "walk" /\ got'[r] = got[r])
            BY <1>1, <2>4 DEF Handle, Goto, TypeOK
        <3>4. \A m \in dirs : Known(m) => Known(m)'
            BY <3>1, <3>2, <3>3 DEF Known
        <3> QED
            BY <1>2, <1>3, <2>0, <3>1, <3>4
    <2>5. CASE Walk(r)
        <3>1. /\ AddRecursive(got[r].path) /\ got[r].path \in Path
              /\ UNCHANGED queue /\ Goto(r, "arm") /\ got' = [got EXCEPT ![r] = Nothing]
            BY <1>1, <2>0, <2>5, PathFacts DEF Walk, TypeOK
        <3>2. \A q \in Runner \ {r} : pc'[q] = pc[q] /\ got'[q] = got[q]
            BY <1>1, <3>1 DEF Goto, TypeOK
        <3>3. /\ watches \subseteq watches' /\ missed \ Watched(got[r].path) \subseteq missed'
              /\ \A x \in Watched(got[r].path) \ watches' : Above[x] \cap missed' # {}
            BY <1>1, <3>1, WalkFacts
        <3>4. PICK m \in Above[e] : Known(m)
            BY <1>3, <2>0, <3>3
        <3>5. m \in dirs /\ m \in Path
            BY <1>1, <1>2, <2>0, <3>4
        <3>6. CASE e \in Watched(got[r].path)
            BY <3>3, <3>6 DEF Known
        <3>7. CASE e \notin Watched(got[r].path)
            <4>1. got[r].path \notin Above[e]
                BY <1>2, <2>0, <3>7 DEF Watched, Below
            <4>2. m \in Below(got[r].path) => got[r].path \in Above[m]
                BY DEF Below
            <4>3. Above[m] \subseteq Above[e]
                BY <1>2, <3>4, <3>5, AboveFacts
            <4>4. m \notin Watched(got[r].path)
                BY <4>1, <4>2, <4>3 DEF Watched
            <4> QED
                BY <3>1, <3>2, <3>3, <3>4, <4>1, <4>4 DEF Known
        <3> QED
            BY <3>6, <3>7
    <2>6. CASE Arm(r)
        <3>1. UNCHANGED <<queue, missed, watches, got>> /\ pc[r] = "arm"
            BY <2>6 DEF Arm, fsVars, treeVars
        <3>2. \A q \in Runner \ {r} : pc'[q] = pc[q]
            BY <1>1, <2>6 DEF Arm, Goto, TypeOK
        <3> QED
            BY <1>a, <2>0, <3>1, <3>2 DEF Known
    <2> QED
        BY <1>8, <2>1, <2>3, <2>4, <2>5, <2>6 DEF Run
<1>9. CASE TimerFires \/ Flush \/ StopCancels
    <2>1. open /\ UNCHANGED <<dirs, watches, missed, queue, pc, got>>
        BY <1>9 DEF TimerFires, Flush, StopCancels, treeVars, fsVars, runVars
    <2> QED
        BY <1>a, <2>1 DEF Known
<1>10. ASSUME NEW x \in Path, OnChange(x) PROVE Goal
    <2>1. open /\ UNCHANGED <<dirs, watches, queue, pc, got>>
        BY <1>10 DEF OnChange, fsVars, runVars
    <2>2. \A m \in Dir : m \in missed => m \in missed'
        BY <1>1, <1>10 DEF OnChange
    <2> QED
        BY <1>a, <2>1, <2>2 DEF Known
<1>11. CASE Reindex
    <2>1. open /\ UNCHANGED <<dirs, watches, queue, pc, got>>
        BY <1>11 DEF Reindex, fsVars, runVars
    <2>2. \A m \in Dir : m \in missed => m \in missed'
        BY <1>1, <1>11 DEF Reindex
    <2> QED
        BY <1>a, <2>1, <2>2 DEF Known
<1>12. CASE StopDiscards \/ StartRenews \/ StartReplaces \/ StartClears \/ StartFails
    <2>1. open /\ UNCHANGED <<dirs, watches, queue, pc, got>> /\ missed \subseteq missed'
        BY <1>12 DEF StopDiscards, StartRenews, StartReplaces, StartClears, StartFails, ClearPending,
            treeVars, fsVars, runVars
    <2> QED
        BY <1>a, <2>1 DEF Known
<1>13. CASE StopCloses
    BY <1>13 DEF StopCloses
<1>14. CASE StartWatches
    <2>1. AddRecursive(Root) /\ Root \in Path /\ UNCHANGED dirs
        BY <1>14, PathFacts DEF StartWatches
    <2>2. Root \in Above[e]
        BY <1>2, TreeIsRooted
    <2>3. e \in Watched(Root)
        BY <1>1, <1>2, <2>1, <2>2 DEF Watched, Below
    <2>4. Above[e] \cap missed' # {}
        BY <1>1, <2>1, <2>3, WalkFacts
    <2> QED BY <2>4 DEF Known
<1>15. CASE UNCHANGED vars
    <2>1. open /\ UNCHANGED <<dirs, watches, missed, queue, pc, got>>
        BY <1>15 DEF vars, treeVars, fsVars, runVars
    <2> QED
        BY <1>a, <2>1 DEF Known
<1> QED
    BY <1>4, <1>5, <1>6, <1>8, <1>9, <1>10, <1>11, <1>12, <1>13, <1>14, <1>15
    DEF Next, Environment, Restart

\* A directory nobody watches has an event to come, or had one that was dropped, or a walk
\* came to it or to one above it and failed there.
THEOREM TreeIsWatched == Spec => []DirectoriesAreWatched
<1>1. Init => DirectoriesAreWatched
    BY DEF Init, DirectoriesAreWatched
<1> QED
    BY <1>1, WatchedStep, Shape, PTL DEF Spec
=============================================================================
