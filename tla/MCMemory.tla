------------------------------ MODULE MCMemory ------------------------------
(* Memory with the values TLC checks it for.                               *)
EXTENDS Memory

CONSTANTS s1, n1, c1, c2

MCSession == {s1}
MCNote == {n1}
MCContent == {c1, c2}
=============================================================================
