----------------------------- MODULE SearchIndex -----------------------------
(***************************************************************************)
(* What an index operation promises to App, which asks for it, and to      *)
(* whoever searches meanwhile, whichever writes it is made of: it touches  *)
(* nothing but the files it is for; what it makes searchable is what it    *)
(* read, put in the place of nothing; and when it comes to its end without *)
(* giving up, everything it read is there.  What failures and deaths of    *)
(* the process take from that is part of the promise.                      *)
(***************************************************************************)
CONSTANTS File, Content, None

VARIABLES
    disk,       \* the file system
    found,      \* what a search finds of a file
    job,        \* the operation at work
    scope,      \* the files it is for
    hasRead,    \* it has read them,
    read,       \* and this is what it read
    failed,     \* something has failed at some time
    died        \* the process died in an operation at some time

vars == <<disk, found, job, scope, hasRead, read, failed, died>>
jobVars == <<job, scope, hasRead, read>>

Nothing == [f \in File |-> None]

Init ==
    /\ disk \in [File -> Content \cup {None}] /\ found = [f \in File |-> {}]
    /\ job = "none" /\ scope = {} /\ hasRead = FALSE /\ read = Nothing
    /\ failed = FALSE /\ died = FALSE

Edit(f, c) ==
    /\ disk' = [disk EXCEPT ![f] = c]
    /\ UNCHANGED <<found, jobVars, failed, died>>

\* A scan or a rebuild is for all files, the reindexing of a file, or of one that is
\* gone ("drop"), for that one.
Begin(j, S) ==
    /\ job = "none"
    /\ job' = j /\ scope' = S
    /\ UNCHANGED <<disk, found, hasRead, read, failed, died>>

\* What the operation reads it reads once.
Read ==
    /\ job \in {"scan", "rebuild", "file"} /\ ~hasRead
    /\ hasRead' = TRUE
    /\ read' = [f \in File |-> IF f \in scope THEN disk[f] ELSE None]
    /\ UNCHANGED <<disk, found, job, scope, failed, died>>

Withdraw(f) ==
    /\ f \in scope
    /\ found' = [found EXCEPT ![f] = {}]
    /\ UNCHANGED <<disk, jobVars, failed, died>>

\* Two contents of one file can only be found together after a failure.
Publish(f) ==
    /\ hasRead /\ f \in scope /\ read[f] # None
    /\ found[f] = {} \/ failed
    /\ found' = [found EXCEPT ![f] = @ \cup {read[f]}]
    /\ UNCHANGED <<disk, jobVars, failed, died>>

End == job' = "none" /\ scope' = {} /\ hasRead' = FALSE /\ read' = Nothing

\* A scan relies on what earlier operations recorded, the others on nothing.
Reliable == job \in {"rebuild", "file"} \/ ~(failed \/ died)
Finish ==
    /\ \/ /\ hasRead
          /\ Reliable => \A f \in scope : read[f] # None => read[f] \in found[f]
       \/ job = "drop" /\ (failed \/ \A f \in scope : found[f] = {})
    /\ End
    /\ UNCHANGED <<disk, found, failed, died>>

\* Some failures end the operation, of others it takes no notice.
Fail ==
    /\ failed' = TRUE
    /\ End \/ UNCHANGED jobVars
    /\ UNCHANGED <<disk, found, died>>

Die ==
    /\ job # "none" /\ died' = TRUE
    /\ End
    /\ UNCHANGED <<disk, found, failed>>

Next ==
    \/ \E f \in File, c \in Content \cup {None} : Edit(f, c)
    \/ \E j \in {"scan", "rebuild"} : Begin(j, File)
    \/ \E j \in {"file", "drop"}, f \in File : Begin(j, {f})
    \/ \E f \in File : Withdraw(f) \/ Publish(f)
    \/ Read \/ Finish \/ Fail \/ Die

Spec == Init /\ [][Next]_vars
=============================================================================
