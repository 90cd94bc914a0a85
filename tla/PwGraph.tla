------------------------------ MODULE PwGraph ------------------------------
(***************************************************************************)
(* The PipeWire graph as both sides keep it: four maps from global id to   *)
(* object, one per kind, and the events that change them (PwGraph in       *)
(* lib/src/graph.dart, GraphEvent in src/src/event_serializer.hpp).        *)
(*                                                                         *)
(* An object is abstracted to what the graph's properties tell apart: the  *)
(* ids it refers to (a port its node, a link its two ports), its state and *)
(* a version number for the rest of its properties.  An absent map entry   *)
(* is NoObj.                                                               *)
(***************************************************************************)
EXTENDS Naturals, FiniteSets

CONSTANTS
    Ids,        \* PipeWire global ids; an id is reused once it is free
    NoObj       \* no entry under this id

\* The interfaces the registry monitor knows, and one it ignores.
Kinds == {"node", "port", "link", "device"}
AllKinds == Kinds \union {"other"}

\* The state an object has when only its global is known, and the states it
\* may go to after that.
FirstState == [node |-> "creating", port |-> "none", link |-> "init",
               device |-> "none", other |-> "none"]
LaterStates == [node |-> {"running"}, port |-> {}, link |-> {"paused", "active"},
                device |-> {}, other |-> {}]

States == {"creating", "running", "init", "paused", "active", "none"}

Objects == [kind : AllKinds, refs : SUBSET Ids, st : States, props : Nat]

ASSUME NoObjAssumption == NoObj \notin Objects

ObjectMap == [Ids -> Objects \union {NoObj}]

\* A graph is its four maps.  There is no map for the ignored interfaces.
Graphs == [Kinds -> ObjectMap]

EmptyGraph == [k \in Kinds |-> [id \in Ids |-> NoObj]]

Has(g, k, id) == g[k][id] # NoObj

-----------------------------------------------------------------------------
\* Events.  Devices have none.

Upserts == {"NodeAdded", "NodeInfoChanged", "PortAdded", "LinkAdded",
            "LinkStateChanged"}

Removals == {"NodeRemoved", "PortRemoved", "LinkRemoved"}

EventKind == [t \in Upserts \union Removals |->
    CASE t \in {"NodeAdded", "NodeInfoChanged", "NodeRemoved"} -> "node"
      [] t \in {"PortAdded", "PortRemoved"} -> "port"
      [] t \in {"LinkAdded", "LinkStateChanged", "LinkRemoved"} -> "link"]

\* The kinds whose changes reach Dart as events.
EventKinds == {"node", "port", "link"}

\* What the PipeWire thread posts to the isolate: graph events, and errors,
\* which have a type the Dart side does not know.
Events == [type : Upserts, id : Ids, obj : Objects]
             \union [type : Removals \union {"error"}, id : Ids, obj : {NoObj}]

\* The event is about the map entry of kind k under id.
Touches(e, k, id) ==
    /\ e.type \in Upserts \union Removals
    /\ EventKind[e.type] = k
    /\ e.id = id

-----------------------------------------------------------------------------
\* PwGraph.applyEvent and its helpers.

WithObject(g, k, id, obj) == [g EXCEPT ![k] = [@ EXCEPT ![id] = obj]]

\* Mutant: only the map of the nodes is erased from.
WithoutNode(g, k, id) ==
    IF k = "node" THEN [g EXCEPT ![k] = [@ EXCEPT ![id] = NoObj]] ELSE g

WithoutObject(g, k, id) == [g EXCEPT ![k] = [@ EXCEPT ![id] = NoObj]]

\* Mutant: a LinkStateChanged does not reach the graph.
ApplyAllButLinkStates(g, e) ==
    IF e.type = "LinkStateChanged" THEN g
    ELSE IF e.type \in Upserts THEN WithObject(g, EventKind[e.type], e.id, e.obj)
    ELSE IF e.type \in Removals THEN WithoutObject(g, EventKind[e.type], e.id)
    ELSE g

\* No helper touches another map: removing a node leaves its ports.
ApplyEvent(g, e) ==
    IF e.type \in Upserts THEN WithObject(g, EventKind[e.type], e.id, e.obj)
    ELSE IF e.type \in Removals THEN WithoutObject(g, EventKind[e.type], e.id)
    ELSE g

-----------------------------------------------------------------------------
\* PwGraph.portsForNode and linksForNode.

PortsForNode(g, node) ==
    {p \in Ids : Has(g, "port", p) /\ node \in g["port"][p].refs}

LinksForNode(g, node) ==
    {l \in Ids : /\ Has(g, "link", l)
                 /\ g["link"][l].refs \intersect PortsForNode(g, node) # {}}

-----------------------------------------------------------------------------
\* What the references of a port and of a link lead to.
RefKind == [port |-> "node", link |-> "port"]

\* Every port is on a node of the graph, every link joins two of its ports.
Integrity(g) ==
    \A k \in DOMAIN RefKind, id \in Ids :
        Has(g, k, id) => \A r \in g[k][id].refs : Has(g, RefKind[k], r)
=============================================================================
