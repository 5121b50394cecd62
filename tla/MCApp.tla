------------------------------- MODULE MCApp -------------------------------
(* Small instances of App for TLC.                                         *)
EXTENDS App, TLC

\* Projects are interchangeable where all are configured, and safety does not tell them apart.
Symmetry == Permutations(Project)

\* Statements of the documentation that the code does not keep; each is
\* checked in a run of its own.

\* rebuild.go:55: a full rebuild "removes the existing index and rebuilds
\* everything" - also one that a restart resumes (rebuild.go:131).
RebuildIndexRebuildsEverything ==
    JobHolds("return") /\ rebuildMu.target = AllProjects
        => projects \subseteq chunks

\* mcp-tools.md:143: get_index_job returns "the status of a previously started
\* rebuild job", so a job reported as done has done its work.
DoneJobIsFinished ==
    progressFile.status = "done" => progressFile.job \notin ActiveJobs

\* mcp-tools.md:187: add_project starts indexing the project it adds; when all
\* is quiet and nothing failed, the project is in the index.
Quiet == daemon = "up" /\ startup = "serving" /\ rebuildMu = NoThread
            /\ ~jobRunning /\ adding = {}
AddedProjectIsIndexed ==
    Quiet /\ stops = 0 /\ failures = 0 => projects \subseteq chunks

\* mcp-tools.md:198: remove_project removes the project from the index.
RemovedLeavesIndex ==
    [][\A p \in projects \ projects' :
        daemon' # "down" /\ daemon # "down" => p \notin chunks']_vars
=============================================================================
