--------------------------- MODULE MCGraphMirror ---------------------------
(***************************************************************************)
(* GraphMirror on small registries.  Churn: two ids that hold a node and   *)
(* its port, a device, or an object of an interface the monitor ignores,   *)
(* and are reused for another kind.  Linked: a node with two ports and a   *)
(* link between them.                                                      *)
(***************************************************************************)
EXTENDS GraphMirror

Object(kind, refs) ==
    [kind |-> kind, refs |-> refs, st |-> FirstState[kind], props |-> 0]

\* A registry that holds the given objects, pairs <<id, object>>.
Registry(entries) ==
    [id \in Ids |-> IF \E o \in entries : o[1] = id
                    THEN (CHOOSE o \in entries : o[1] = id)[2] ELSE NoObj]

Running(node) == [node EXCEPT !.st = "running"]

-----------------------------------------------------------------------------
ChurnIds == {1, 2}

ChurnCatalog == {<<1, Object("node", {})>>, <<2, Object("port", {1})>>,
                 <<2, Object("node", {})>>, <<2, Object("device", {})>>,
                 <<1, Object("other", {})>>}

ChurnWorlds == {Registry({<<1, Running(Object("node", {}))>>}),
                Registry({<<1, Running(Object("node", {}))>>,
                          <<2, Object("port", {1})>>}),
                Registry({<<1, Object("other", {})>>,
                          <<2, Object("device", {})>>})}

-----------------------------------------------------------------------------
LinkedIds == 1 .. 4

LinkedCatalog == {<<4, Object("link", {2, 3})>>, <<3, Object("port", {1})>>}

LinkedWorlds == {Registry({<<1, Running(Object("node", {}))>>,
                           <<2, Object("port", {1})>>,
                           <<3, Object("port", {1})>>,
                           <<4, Object("link", {2, 3})>>})}
=============================================================================
