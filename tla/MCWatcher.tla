----------------------------- MODULE MCWatcher -----------------------------
(* Watcher with the values TLC checks it for: a directory, and one below   *)
(* it, in the configured one, and a file in the middle one.                *)
EXTENDS Watcher

CONSTANTS root, sub, deep, file

MCDir == {root, sub, deep}
MCFile == {file}
MCParent == [x \in {sub, deep, file} |-> IF x = sub THEN root ELSE sub]
MCAbove == [x \in MCDir \cup MCFile |->
    CASE x = root -> {root} [] x = sub -> {root, sub} [] OTHER -> {root, sub, x}]
=============================================================================
