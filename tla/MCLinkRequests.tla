--------------------------- MODULE MCLinkRequests ---------------------------
(***************************************************************************)
(* LinkRequests on a node with two ports and one id for the link between   *)
(* them.                                                                   *)
(***************************************************************************)
EXTENDS LinkRequests, TLC

Object(kind, refs) ==
    [kind |-> kind, refs |-> refs, st |-> FirstState[kind], props |-> 0]

Node == [Object("node", {}) EXCEPT !.st = "running"]

LinkIds == 1 .. 4

Ports == [id \in LinkIds |-> CASE id = 1 -> Node
                               [] id \in {2, 3} -> Object("port", {1})
                               [] OTHER -> NoObj]

Unlinked == {Ports}

AnyCall == Permutations(Calls)

LinkCatalog == {<<4, Object("link", {2, 3})>>}
=============================================================================
