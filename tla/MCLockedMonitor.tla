-------------------------- MODULE MCLockedMonitor --------------------------
(***************************************************************************)
(* LockedMonitor on a node, its two ports and the link between them; the   *)
(* ids of a port and of the link are reused, also for other kinds.         *)
(***************************************************************************)
EXTENDS LockedMonitor

Object(kind, refs) ==
    [kind |-> kind, refs |-> refs, st |-> FirstState[kind], props |-> 0]

Running == [Object("node", {}) EXCEPT !.st = "running"]

LockedIds == 1 .. 4

LockedCatalog == {<<4, Object("link", {2, 3})>>, <<4, Object("device", {})>>,
                  <<4, Object("other", {})>>}

LockedWorlds == {[id \in LockedIds |-> CASE id = 1 -> Running
                                         [] id = 4 -> Object("link", {2, 3})
                                         [] OTHER -> Object("port", {1})]}
=============================================================================
