---------------------------- MODULE MCConfigSync ----------------------------
(* ConfigSync with the values TLC checks it for: an auto root with a       *)
(* project, with a directory of a name discovery skips and a repository    *)
(* inside that one, and a directory elsewhere whose base name is that of   *)
(* the project, so that an entry without a name may get that of the other. *)
EXTENDS ConfigSync

CONSTANTS pRoot, pApp, pVendor, pLib, pOther, app, root, vendor

MCPath == {pRoot, pApp, pVendor, pLib, pOther}
MCLabel == {app, root, vendor}
MCBase == [p \in MCPath |-> CASE p = pRoot -> root [] p = pVendor -> vendor [] OTHER -> app]
MCJoined == [p \in MCPath |-> IF p = pLib THEN vendor ELSE MCBase[p]]
MCSkippedNames == {vendor}
MCAbove == [p \in MCPath |-> CASE p \in {pApp, pVendor} -> {pRoot}
                              [] p = pLib -> {pRoot, pVendor}
                              [] OTHER -> {}]
MCWalkOrder == [p \in MCPath |-> CASE p = pRoot -> <<pRoot, pApp, pVendor, pLib>>
                                  [] p = pVendor -> <<pVendor, pLib>>
                                  [] OTHER -> <<p>>]
MCFolders == [p \in {pRoot} |-> <<pApp>>]
MCNewRepository == {pLib}

Explicit(p, name) == [path |-> p, name |-> name, auto |-> FALSE]
AutoRoot == [path |-> pRoot, name |-> <<root, 0>>, auto |-> TRUE]
MCUserFile == {<<AutoRoot, Explicit(pOther, Unnamed)>>, <<Explicit(pApp, <<app, 0>>)>>,
               <<Explicit(pApp, Unnamed), Explicit(pOther, Unnamed)>>}
=============================================================================
