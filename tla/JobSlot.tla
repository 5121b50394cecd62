------------------------------ MODULE JobSlot ------------------------------
(***************************************************************************)
(* What the daemon promises about background jobs, whatever they do: there *)
(* is one slot; a new job enters a free slot under an id never given       *)
(* before; a job leaves the slot when it ends or when the process does;    *)
(* the id status queries find in progress.json is that of the latest job,  *)
(* or of an earlier one as long as no write of a later id succeeded; and   *)
(* the only job that ever enters under an old id is the published one,     *)
(* when a restart resumes it, or the latest where none is published.       *)
(***************************************************************************)
EXTENDS Naturals

CONSTANTS Target, NoJob, MaxJobs

JobId == [target : Target, serial : 1..MaxJobs]

VARIABLES
    slot,       \* the job in the slot, or NoJob
    latest,     \* the job that entered last in this process, or NoJob
    published,  \* the job id in progress.json, or NoJob
    clock       \* the serial number issued last

vars == <<slot, latest, published, clock>>

Init == slot = NoJob /\ latest = NoJob /\ published = NoJob /\ clock = 0

Occupy(j) ==
    /\ slot = NoJob
    /\ slot' = j /\ latest' = j
    /\ published' \in {published, j}

Enter(j) == clock < j.serial /\ Occupy(j) /\ clock' = j.serial

Resume ==
    /\ \E j \in {published, latest} \ {NoJob} :
         (j = published \/ published = NoJob) /\ Occupy(j)
    /\ UNCHANGED clock

\* A later write of the progress catches up with the job.
Publish ==
    /\ latest # NoJob /\ published' = latest
    /\ UNCHANGED <<slot, latest, clock>>

\* A process that could not read the file and has had no job writes none.
Forget ==
    /\ latest = NoJob /\ published' = NoJob
    /\ UNCHANGED <<slot, latest, clock>>

\* A job that failed may publish its id with its last word.
Leave ==
    /\ slot # NoJob /\ slot' = NoJob
    /\ published' \in {published, slot}
    /\ UNCHANGED <<latest, clock>>

\* The end of the process.
Die ==
    /\ slot' = NoJob /\ latest' = NoJob
    /\ UNCHANGED <<published, clock>>

Next == (\E j \in JobId : Enter(j)) \/ Resume \/ Publish \/ Forget \/ Leave \/ Die

Spec == Init /\ [][Next]_vars
=============================================================================
