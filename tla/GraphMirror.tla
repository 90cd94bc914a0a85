---------------------------- MODULE GraphMirror ----------------------------
(***************************************************************************)
(* The path of a graph change from the PipeWire daemon to PwClient.graph:  *)
(*                                                                         *)
(*   daemon --wire--> RegistryMonitor --port--> Dart isolate               *)
(*          <-requests-                <-snapshot-                         *)
(*                                                                         *)
(* The native side learns of an object from a registry global, binds it    *)
(* and receives its infos; the Dart side copies the native maps once in    *)
(* PwClient.connect (and again in refreshGraph) and otherwise applies the  *)
(* events the native side posted.  Posting never waits, so the copy and    *)
(* the events in flight overlap.                                           *)
(*                                                                         *)
(* The module starts where connect() has its registry listener in place    *)
(* and the daemon has answered get_registry with one global per object.    *)
(***************************************************************************)
EXTENDS RegistryMonitor

CONSTANTS
    InitialWorlds,  \* what the daemon's registry may hold at first
    Catalog,        \* pairs <<id, object>> the daemon may add later
    IterateFails,   \* pw_loop_iterate may return an error during connect()
    MaxChanges,     \* bound on the daemon's changes to its registry
    MaxRefresh      \* bound on the calls of refreshGraph

ASSUME ConstantsAssumption ==
    /\ IsFiniteSet(Ids)
    /\ InitialWorlds \subseteq ObjectMap
    /\ Catalog \subseteq Ids \X Objects
    /\ IterateFails \in BOOLEAN
    /\ MaxChanges \in Nat
    /\ MaxRefresh \in Nat

VARIABLES
    \* the daemon
    world,      \* its registry
    gen,        \* how often each id has been given out
    bound,      \* ids of the objects the client has bound
    wire,       \* sent to the client, oldest first
    changes,    \* number of changes so far
    lasting,    \* history: ids of the objects there since connect() began
    \* PwDartClientImpl::connect
    conn,       \* "registered", "round1", "round2", "up"
    syncSeq,    \* sync_seq_
    syncDone,   \* sync_done_
    \* the Dart isolate
    dart,       \* "connecting", "connected", "returned", "listening"
    graph,      \* PwClient._graph
    snap,       \* what getGraphSnapshot returned and is not yet in graph
    refreshes   \* number of refreshGraph calls so far

daemonVars == <<world, gen, bound, changes, lasting>>
connVars == <<conn, syncSeq, syncDone>>
dartVars == <<dart, graph, snap, refreshes>>
vars == <<monitorVars, requests, port, daemonVars, wire, connVars, dartVars>>

\* The messages of the daemon.
Globals == [op : {"global"}, id : Ids, gen : Nat, obj : Objects]
Removes == [op : {"global_remove"}, id : Ids]
Infos == [op : {"info"}, id : Ids, kind : AllKinds, st : States,
          refs : SUBSET Ids, props : Nat, hasProps : BOOLEAN]
Dones == [op : {"done"}, seq : Nat]
Errors == [op : {"error"}, id : Ids]
Messages == Globals \union Removes \union Infos \union Dones \union Errors

Global(id, g, obj) == [op |-> "global", id |-> id, gen |-> g, obj |-> obj]

Info(id, obj, withProps) ==
    [op |-> "info", id |-> id, kind |-> obj.kind, st |-> obj.st,
     refs |-> obj.refs, props |-> obj.props, hasProps |-> withProps]

-----------------------------------------------------------------------------
\* The daemon, as the code above it relies on it: messages stay in order, an
\* object is announced after those it refers to and removed before them, a
\* bind is answered with an info, a sync with a done, in the order of the
\* requests.

Present(w) == {id \in Ids : w[id] # NoObj}

\* The orders in which the objects of a registry may be announced.
Announcements(w) ==
    {s \in [1 .. Cardinality(Present(w)) -> Present(w)] :
        \A i, j \in DOMAIN s :
            /\ s[i] = s[j] => i = j
            /\ s[j] \in w[s[i]].refs => j < i}

\* The object can be in a registry that otherwise is w: a port's node and a
\* link's ports are there.
Rooted(w, obj) ==
    \A r \in obj.refs :
        /\ w[r] # NoObj
        /\ w[r].kind = (IF obj.kind = "link" THEN "port" ELSE "node")

ASSUME WorldsAssumption ==
    \A w \in InitialWorlds : \A id \in Present(w) : Rooted(w, w[id])

\* The state is one that objects of its kind may have: ports and devices have
\* none.
PossibleState(obj) == obj.st \in {FirstState[obj.kind]} \union LaterStates[obj.kind]

ASSUME StatesAssumption ==
    /\ \A w \in InitialWorlds : \A id \in Present(w) : PossibleState(w[id])
    /\ \A entry \in Catalog : PossibleState(entry[2])

DaemonAdd(id, obj) ==
    /\ changes < MaxChanges
    /\ world[id] = NoObj
    /\ Rooted(world, obj)
    /\ world' = [world EXCEPT ![id] = obj]
    /\ gen' = [gen EXCEPT ![id] = @ + 1]
    /\ wire' = Append(wire, Global(id, gen[id] + 1, obj))
    /\ changes' = changes + 1
    /\ UNCHANGED <<bound, lasting, monitorVars, requests, port, connVars, dartVars>>

DaemonRemove(id) ==
    /\ changes < MaxChanges
    /\ world[id] # NoObj
    /\ \A other \in Present(world) : id \notin world[other].refs
    /\ world' = [world EXCEPT ![id] = NoObj]
    /\ bound' = bound \ {id}
    /\ wire' = Append(wire, [op |-> "global_remove", id |-> id])
    /\ changes' = changes + 1
    /\ lasting' = lasting \ {id}
    /\ UNCHANGED <<gen, monitorVars, requests, port, connVars, dartVars>>

\* An object changes its state or its properties; those who bound it are
\* told, with the properties when they changed.
DaemonChange(id, newSt, newProps) ==
    LET old == world[id]
        new == [old EXCEPT !.st = newSt, !.props = newProps]
    IN /\ changes < MaxChanges
       /\ old # NoObj
       /\ newSt \in {old.st} \union LaterStates[old.kind]
       /\ newProps \in {old.props, old.props + 1}
       /\ new # old
       /\ world' = [world EXCEPT ![id] = new]
       /\ wire' = IF id \in bound
                  THEN Append(wire, Info(id, new, newProps # old.props))
                  ELSE wire
       /\ changes' = changes + 1
       /\ UNCHANGED <<gen, bound, lasting, monitorVars, requests, port,
                      connVars, dartVars>>

\* A bind is answered with the first info, or refused when the object is gone
\* or the id was given to another since the client saw it.
DaemonBind ==
    /\ requests # <<>>
    /\ LET r == Head(requests) IN
       /\ r.op = "bind"
       /\ IF world[r.id] # NoObj /\ gen[r.id] = r.gen
          THEN /\ bound' = bound \union {r.id}
               /\ wire' = Append(wire, Info(r.id, world[r.id], TRUE))
          ELSE /\ wire' = Append(wire, [op |-> "error", id |-> r.id])
               /\ UNCHANGED bound
    /\ requests' = Tail(requests)
    /\ UNCHANGED <<world, gen, changes, lasting, monitorVars, port, connVars,
                   dartVars>>

DaemonSync ==
    /\ requests # <<>>
    /\ Head(requests).op = "sync"
    /\ wire' = Append(wire, [op |-> "done", seq |-> Head(requests).seq])
    /\ requests' = Tail(requests)
    /\ UNCHANGED <<daemonVars, monitorVars, port, connVars, dartVars>>

-----------------------------------------------------------------------------
\* The client's loop handles a message: inside pw_loop_iterate on the caller's
\* thread during the two rounds of connect(), then inside pw_main_loop_run on
\* the PipeWire thread.

Receive(op) ==
    /\ conn \in {"round1", "round2", "up"}
    /\ wire # <<>>
    /\ Head(wire).op = op
    /\ wire' = Tail(wire)
    /\ UNCHANGED <<daemonVars, dartVars>>

ReceiveGlobal ==
    /\ Receive("global")
    /\ LET m == Head(wire) IN
          OnGlobal(m.id, m.gen, m.obj) \/ OnUnknownGlobal(m.obj)
    /\ UNCHANGED connVars

\* Mutant: removals during connect() are left for later.
ReceiveGlobalRemoveWhenUp ==
    /\ Receive("global_remove")
    /\ LET id == Head(wire).id IN
          IF conn = "up" THEN OnGlobalRemove(id) \/ OnUnknownRemove(id)
                         ELSE UNCHANGED <<monitorVars, requests, port>>
    /\ UNCHANGED connVars

ReceiveGlobalRemove ==
    /\ Receive("global_remove")
    /\ LET id == Head(wire).id IN OnGlobalRemove(id) \/ OnUnknownRemove(id)
    /\ UNCHANGED connVars

\* A proxy's listener is gone with the proxy: no handler runs without one.
ReceiveInfo ==
    /\ Receive("info")
    /\ LET m == Head(wire) IN
       IF m.id \notin proxies THEN UNCHANGED <<monitorVars, requests, port>>
       ELSE \/ m.kind = "node" /\ OnNodeInfo(m.id, m)
            \/ m.kind = "port" /\ OnPortInfo(m.id, m)
            \/ m.kind = "link" /\ OnLinkInfo(m.id, m)
            \/ m.kind = "device" /\ OnDeviceInfo(m.id, m)
            \/ OnStaleInfo(m.id, m)
    /\ UNCHANGED connVars

\* on_core_done_event: an answer to an earlier sync is not the one awaited.
ReceiveDone ==
    /\ Receive("done")
    /\ syncDone' = (syncDone \/ Head(wire).seq = syncSeq)
    /\ UNCHANGED <<monitorVars, requests, port, conn, syncSeq>>

ReceiveError ==
    /\ Receive("error")
    /\ OnCoreError(Head(wire).id)
    /\ UNCHANGED connVars

-----------------------------------------------------------------------------
\* connect(): two rounds of sync and wait.  The wait ends when the sync is
\* answered, or when pw_loop_iterate returns an error.

RoundOver == syncDone \/ IterateFails

\* Mutant: sync_done_ keeps its value from the round before.
StartRoundDone(next) ==
    /\ conn' = next
    /\ syncSeq' = syncSeq + 1
    /\ requests' = Append(requests, [op |-> "sync", seq |-> syncSeq + 1])
    /\ UNCHANGED <<syncDone, monitorVars, port, daemonVars, wire, dartVars>>

StartRound(next) ==
    /\ conn' = next
    /\ syncDone' = FALSE
    /\ syncSeq' = syncSeq + 1
    /\ requests' = Append(requests, [op |-> "sync", seq |-> syncSeq + 1])
    /\ UNCHANGED <<monitorVars, port, daemonVars, wire, dartVars>>

StartRound1 == conn = "registered" /\ StartRound("round1")

StartRound2 == conn = "round1" /\ RoundOver /\ StartRound("round2")

\* connected_ is set, the PipeWire thread starts, connect() returns.
FinishConnect ==
    /\ conn = "round2" /\ dart = "connecting"
    /\ RoundOver
    /\ conn' = "up"
    /\ dart' = "connected"
    /\ UNCHANGED <<syncSeq, syncDone, graph, snap, refreshes, monitorVars,
                   requests, port, daemonVars, wire>>

-----------------------------------------------------------------------------
\* The Dart isolate.  It runs one piece of code at a time; the PipeWire thread
\* runs on, also between the copy of the maps and the assignment.

\* PwClient.connect: getGraphSnapshot, the first copy.
TakeFirstSnapshot ==
    /\ dart = "connected"
    /\ snap' = native
    /\ dart' = "returned"
    /\ UNCHANGED <<graph, refreshes, monitorVars, requests, port, daemonVars,
                   wire, connVars>>

\* PwClient.refreshGraph: getGraphSnapshot.
TakeSnapshot ==
    /\ dart = "listening"
    /\ refreshes < MaxRefresh
    /\ refreshes' = refreshes + 1
    /\ snap' = native
    /\ dart' = "returned"
    /\ UNCHANGED <<graph, monitorVars, requests, port, daemonVars, wire, connVars>>

\* Mutant: what is in flight is taken for older than the copy.
AssignGraphAndDrop ==
    /\ dart = "returned"
    /\ graph' = snap
    /\ snap' = EmptyGraph
    /\ dart' = "listening"
    /\ port' = <<>>
    /\ UNCHANGED <<refreshes, monitorVars, requests, daemonVars, wire, connVars>>

\* The copy becomes the graph; in connect, _startListening follows.
AssignGraph ==
    /\ dart = "returned"
    /\ graph' = snap
    /\ snap' = EmptyGraph
    /\ dart' = "listening"
    /\ UNCHANGED <<refreshes, monitorVars, requests, port, daemonVars, wire,
                   connVars>>

\* The listener of _startListening.  An event of an unknown type does not
\* deserialize and is dropped, which is what ApplyEvent does with it.
Deliver ==
    /\ dart = "listening"
    /\ port # <<>>
    /\ graph' = ApplyEvent(graph, Head(port))
    /\ port' = Tail(port)
    /\ UNCHANGED <<dart, snap, refreshes, monitorVars, requests, daemonVars,
                   wire, connVars>>

-----------------------------------------------------------------------------
Init ==
    /\ MonitorInit
    /\ requests = <<>>
    /\ port = <<>>
    /\ world \in InitialWorlds
    /\ gen = [id \in Ids |-> 0]
    /\ bound = {}
    /\ \E order \in Announcements(world) :
          wire = [i \in 1 .. Cardinality(Present(world)) |->
                     Global(order[i], 0, world[order[i]])]
    /\ changes = 0
    /\ lasting = Present(world)
    /\ conn = "registered" /\ syncSeq = 0 /\ syncDone = FALSE
    /\ dart = "connecting"
    /\ graph = EmptyGraph /\ snap = EmptyGraph
    /\ refreshes = 0

Daemon ==
    \/ \E entry \in Catalog : DaemonAdd(entry[1], entry[2])
    \/ \E id \in Ids : DaemonRemove(id)
    \/ \E id \in Ids, newSt \in States, newProps \in 0 .. MaxChanges :
          DaemonChange(id, newSt, newProps)

DaemonAnswer == DaemonBind \/ DaemonSync

Loop == \/ ReceiveGlobal \/ ReceiveGlobalRemove \/ ReceiveInfo
        \/ ReceiveDone \/ ReceiveError

Connect == StartRound1 \/ StartRound2 \/ FinishConnect

Isolate == TakeFirstSnapshot \/ TakeSnapshot \/ AssignGraph \/ Deliver

Next == Daemon \/ DaemonAnswer \/ Loop \/ Connect \/ Isolate

Spec == Init /\ [][Next]_vars

\* Both threads run on, the daemon answers, the isolate returns to its event
\* loop.  Nothing obliges the daemon to change its registry or the program
\* to call refreshGraph.
Fairness ==
    /\ WF_vars(DaemonAnswer)
    /\ WF_vars(Loop)
    /\ WF_vars(Connect)
    /\ WF_vars(TakeFirstSnapshot)
    /\ WF_vars(AssignGraph)
    /\ WF_vars(Deliver)

FairSpec == Spec /\ Fairness

-----------------------------------------------------------------------------
\* Properties

\* The type invariant.
TypeOK ==
    /\ native \in Graphs
    /\ idTypes \in [Ids -> Kinds \union {"none"}]
    /\ proxies \subseteq Ids
    /\ announced \subseteq Kinds \X Ids
    /\ requests \in Seq(Requests)
    /\ port \in Seq(Events)
    /\ world \in ObjectMap
    /\ gen \in [Ids -> Nat]
    /\ bound \subseteq Ids
    /\ wire \in Seq(Messages)
    /\ changes \in 0 .. MaxChanges
    /\ lasting \subseteq Ids
    /\ conn \in {"registered", "round1", "round2", "up"}
    /\ syncSeq \in Nat /\ syncDone \in BOOLEAN
    /\ dart \in {"connecting", "connected", "returned", "listening"}
    /\ graph \in Graphs /\ snap \in Graphs
    /\ refreshes \in 0 .. MaxRefresh

\* The monitor's maps never disagree about an id: it is in one map at most,
\* the one id_types_ names, and exactly the ids there have a proxy.  An id
\* that comes back as another kind of object depends on it, because
\* on_global_remove erases from the map of the remembered kind only.
OneKindPerId ==
    /\ \A k \in Kinds, id \in Ids : Has(native, k, id) <=> idTypes[id] = k
    /\ proxies = {id \in Ids : idTypes[id] # "none"}

\* Every port the native side holds is on a node it holds, and every link
\* joins ports it holds, at every moment a snapshot may be taken.
NativeIntegrity == Integrity(native)

\* A monitor that remembers the types in types has no entry for id once it has
\* handled the first n messages of the wire w.
FreeAfter(w, types, n, id) ==
    \/ \E j \in 1 .. n :
          /\ w[j].op = "global_remove" /\ w[j].id = id
          /\ \A l \in j + 1 .. n : ~ (w[l].op = "global" /\ w[l].id = id)
    \/ /\ types[id] = "none"
       /\ \A l \in 1 .. n : ~ (w[l].op = "global" /\ w[l].id = id)

\* A global never reaches an id the monitor still has an entry for, although
\* the daemon reuses ids while removals are in flight: on_global overwrites
\* the maps, and the proxy of the old object, without looking.
FreshGlobals ==
    /\ \A i \in DOMAIN wire :
          wire[i].op = "global" => FreeAfter(wire, idTypes, i - 1, wire[i].id)
    /\ \A id \in Ids : world[id] = NoObj => FreeAfter(wire, idTypes, Len(wire), id)

\* What _graph is built from: the copy that is about to become it, or itself.
Base == IF dart = "returned" THEN snap ELSE graph

\* The value is the native entry.  A global's placeholder is not posted, so
\* until the object's info is in the entry may be missing instead.
Agrees(val, k, id) ==
    \/ val = native[k][id]
    \/ val = NoObj /\ <<k, id>> \notin announced

\* The event in flight that decides the entry: no later one touches it.
LastWord(i, k, id) ==
    /\ Touches(port[i], k, id)
    /\ \A j \in DOMAIN port : j > i => ~ Touches(port[j], k, id)

\* Whatever the copy and the events in flight overlapped, handling the events
\* that are in flight leaves each entry of _graph as it is on the native
\* side: no node, port or link is lost, resurrected or left at an older value
\* (RegistryMonitor posts under the mutex that get_snapshot_json takes).
Convergence ==
    PostResolved =>
        \A k \in EventKinds, id \in Ids :
            /\ \A i \in DOMAIN port :
                  LastWord(i, k, id) => Agrees(port[i].obj, k, id)
            /\ (\A i \in DOMAIN port : ~ Touches(port[i], k, id))
                  => Agrees(Base[k][id], k, id)

\* When connect() returns, every object that was there when it began and
\* still is has been announced to the monitor, bound, and its info applied:
\* the two rounds of sync are enough for the first snapshot.
InitialSnapshotComplete ==
    conn = "up" =>
        \A id \in lasting :
            world[id].kind \in Kinds => <<world[id].kind, id>> \in announced

\* The daemon's entry for an id and kind.
DaemonEntry(k, id) ==
    IF world[id] # NoObj /\ world[id].kind = k THEN world[id] ELSE NoObj

\* An entry as far as the handlers keep it up to date: on_link_info takes no
\* properties, so those of a link stay as its global had them.
Kept(k, obj) ==
    IF k = "link" /\ obj # NoObj THEN [obj EXCEPT !.props = 0] ELSE obj

\* The map shows the daemon's object, or none where it has none.
EntryInStep(map, k, id) == Kept(k, map[k][id]) = Kept(k, DaemonEntry(k, id))

\* The native maps are the daemon's registry, but for the properties of links.
NativeInStep == \A k \in Kinds, id \in Ids : EntryInStep(native, k, id)

\* So are the nodes, ports and links of PwClient.graph.
GraphInStep == \A k \in EventKinds, id \in Ids : EntryInStep(graph, k, id)

\* portsForNode and linksForNode answer as the daemon's registry would.
QueriesInStep ==
    \A n \in Ids : DaemonEntry("node", n) # NoObj =>
        LET ports == {p \in Ids : /\ DaemonEntry("port", p) # NoObj
                                 /\ n \in world[p].refs}
        IN /\ PortsForNode(graph, n) = ports
           /\ \A l \in Ids :
                 l \in LinksForNode(graph, n) <=>
                     /\ DaemonEntry("link", l) # NoObj
                     /\ \E p \in world[l].refs : n \in world[p].refs

\* Nothing is under way between the daemon and the maps.
NativeIdle == wire = <<>> /\ requests = <<>>

\* Nor between the maps and the graph.
GraphIdle == NativeIdle /\ port = <<>> /\ dart = "listening"

\* Whenever all that was under way has been handled, the maps are the daemon's
\* registry, and _graph shows its nodes, ports and links: whatever objects came,
\* changed and went while binds, infos and copies overlapped, nothing was
\* forgotten but what on_link_info leaves out, a later change of a link's
\* properties.
InStepWhenIdle ==
    /\ NativeIdle => NativeInStep
    /\ GraphIdle /\ PostResolved => GraphInStep /\ QueriesInStep

\* Once the daemon's registry stops changing, the native maps end up equal to
\* it, and stay so; and if posted events arrive, so do PwClient's nodes, ports
\* and links and what PwClient says of a node's ports and links (all but the
\* properties of links).
EventuallyInStep ==
    <>[](NativeInStep /\ (PostResolved => GraphInStep /\ QueriesInStep))

\* The entry is about to go from _graph.
Leaving(k, id) ==
    \E i \in DOMAIN port : port[i].type = RemovalType[k] /\ port[i].id = id

\* The entry is about to come to _graph: on its way, or posted with its info.
Coming(k, id) ==
    /\ Has(native, k, id)
    /\ \/ <<k, id>> \notin announced
       \/ \E i \in DOMAIN port : port[i].type \in Upserts /\ Touches(port[i], k, id)

\* A port or link of _graph that refers to an object _graph does not show
\* does so for a while only, although events older than the copy are replayed
\* on it: either its own removal is in flight, or the object it refers to is
\* there again and will be shown.
DanglingIsPassing ==
    dart = "listening" /\ PostResolved =>
        \A k \in DOMAIN RefKind, id \in Ids :
            Has(graph, k, id) =>
                \A r \in graph[k][id].refs :
                    Has(graph, RefKind[k], r) \/ Leaving(k, id) \/ Coming(RefKind[k], r)
=============================================================================
