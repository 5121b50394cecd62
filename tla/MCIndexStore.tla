---------------------------- MODULE MCIndexStore ----------------------------
(* Small instances of IndexStore for TLC.                                  *)
EXTENDS IndexStore, TLC

Symmetric == Permutations(File) \cup Permutations(Content)

\* indexing.md:9: when Gnostis starts it scans every configured directory and stores
\* what it finds, so after a scan without errors each file is in the store.
ScanStoresEverything ==
    op = "scan" /\ step = "save" /\ failures = 0 =>
        \A f \in File : walked[f] # None => walked[f] \in chunks[f]
=============================================================================
