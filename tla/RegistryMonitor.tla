-------------------------- MODULE RegistryMonitor --------------------------
(***************************************************************************)
(* The native mirror of the daemon's registry (src/src/registry_monitor.cpp*)
(* and .hpp).  PipeWire calls one handler per registry or proxy event; all *)
(* handlers run on one thread at a time (the caller of connect() first,    *)
(* the PipeWire thread after it) and each holds mutex_ from its first map  *)
(* access to its post_event, as get_snapshot_json does for the whole copy, *)
(* so a handler is one action here.                                        *)
(***************************************************************************)
EXTENDS PwGraph, Sequences

CONSTANTS
    PostResolved    \* Dart_PostCObject_DL points to the Dart VM's function,
                    \* not to the stub of dart_api_dl.cpp

ASSUME PostResolvedAssumption == PostResolved \in BOOLEAN

VARIABLES
    native,     \* nodes_, ports_, links_, devices_
    idTypes,    \* id_types_, "none" where it has no entry
    proxies,    \* keys of proxies_: objects with a bound proxy and a listener
    announced,  \* history: entries whose info has been applied since they
                \* appeared, as pairs <<kind, id>>
    requests,   \* what the client has sent to the daemon, oldest first
    port        \* posted to the isolate's ReceivePort and not yet handled

monitorVars == <<native, idTypes, proxies, announced>>

Requests == [op : {"bind"}, id : Ids, gen : Nat]
               \union [op : {"sync"}, seq : Nat]

MonitorInit ==
    /\ native = EmptyGraph
    /\ idTypes = [id \in Ids |-> "none"]
    /\ proxies = {}
    /\ announced = {}

\* PwDartClientImpl::post_event, through Dart_PostCObject_DL.
PostEvent(e) == port' = IF PostResolved THEN Append(port, e) ELSE port

Upsert(type, id, obj) == [type |-> type, id |-> id, obj |-> obj]
Removal(type, id) == [type |-> type, id |-> id, obj |-> NoObj]

-----------------------------------------------------------------------------
\* Mutant: every interface is taken for a known one.
OnGlobalOfAnyType(id, gen, obj) ==
    /\ requests' = Append(requests, [op |-> "bind", id |-> id, gen |-> gen])
    /\ idTypes' = [idTypes EXCEPT ![id] = obj.kind]
    /\ native' = IF obj.kind \in Kinds THEN WithObject(native, obj.kind, id, obj)
                                       ELSE native
    /\ proxies' = proxies \union {id}
    /\ announced' = announced \ {<<obj.kind, id>>}
    /\ UNCHANGED port

\* Mutant: a node is not entered before its info.
OnGlobalWithoutNodes(id, gen, obj) ==
    /\ obj.kind \in Kinds
    /\ requests' = Append(requests, [op |-> "bind", id |-> id, gen |-> gen])
    /\ idTypes' = [idTypes EXCEPT ![id] = obj.kind]
    /\ native' = IF obj.kind = "node" THEN native
                 ELSE WithObject(native, obj.kind, id,
                                 [obj EXCEPT !.st = FirstState[obj.kind]])
    /\ proxies' = proxies \union {id}
    /\ announced' = announced \ {<<obj.kind, id>>}
    /\ UNCHANGED port

\* on_global, for the four known interfaces: bind a proxy, remember the type,
\* and enter the object as the global's properties show it.  gen is the
\* registry generation the client has seen, which the bind carries.
OnGlobal(id, gen, obj) ==
    /\ obj.kind \in Kinds
    /\ requests' = Append(requests, [op |-> "bind", id |-> id, gen |-> gen])
    /\ idTypes' = [idTypes EXCEPT ![id] = obj.kind]
    /\ native' = WithObject(native, obj.kind, id,
                            [obj EXCEPT !.st = FirstState[obj.kind]])
    /\ proxies' = proxies \union {id}
    /\ announced' = announced \ {<<obj.kind, id>>}
    /\ UNCHANGED port

\* on_global, for any other interface.
OnUnknownGlobal(obj) ==
    /\ obj.kind \notin Kinds
    /\ UNCHANGED <<monitorVars, requests, port>>

RemovalType == [node |-> "NodeRemoved", port |-> "PortRemoved",
                link |-> "LinkRemoved"]

\* Mutant: the removal of what was never announced is not posted.
OnGlobalRemoveSilent(id) ==
    LET kind == idTypes[id] IN
    /\ kind # "none"
    /\ native' = WithoutObject(native, kind, id)
    /\ IF kind \in EventKinds /\ <<kind, id>> \in announced
       THEN PostEvent(Removal(RemovalType[kind], id))
       ELSE UNCHANGED port
    /\ proxies' = proxies \ {id}
    /\ idTypes' = [idTypes EXCEPT ![id] = "none"]
    /\ announced' = announced \ {<<kind, id>>}
    /\ UNCHANGED requests

\* on_global_remove, for an id the monitor knows.
OnGlobalRemove(id) ==
    LET kind == idTypes[id] IN
    /\ kind # "none"
    /\ native' = WithoutObject(native, kind, id)
    /\ IF kind \in EventKinds
       THEN PostEvent(Removal(RemovalType[kind], id))
       ELSE UNCHANGED port
    /\ proxies' = proxies \ {id}
    /\ idTypes' = [idTypes EXCEPT ![id] = "none"]
    /\ announced' = announced \ {<<kind, id>>}
    /\ UNCHANGED requests

\* on_global_remove, for any other id.
OnUnknownRemove(id) ==
    /\ idTypes[id] = "none"
    /\ UNCHANGED <<monitorVars, requests, port>>

-----------------------------------------------------------------------------
\* Info events.  An info without properties (info->props null) leaves the
\* properties alone.

Updated(obj, info) ==
    [obj EXCEPT !.props = IF info.hasProps THEN info.props ELSE @]

\* The part the info handlers share: enter obj, note that its info is in.
Enter(kind, id, obj) ==
    /\ native' = WithObject(native, kind, id, obj)
    /\ announced' = announced \union {<<kind, id>>}
    /\ UNCHANGED <<idTypes, proxies, requests>>

\* Mutant: a change of a known node is not posted.
OnNodeInfoOnce(id, info) ==
    LET old == native["node"][id]
        node == [Updated(old, info) EXCEPT !.st = info.st]
    IN /\ Has(native, "node", id)
       /\ Enter("node", id, node)
       /\ IF old.st = "creating" THEN PostEvent(Upsert("NodeAdded", id, node))
                                 ELSE UNCHANGED port

OnNodeInfo(id, info) ==
    LET old == native["node"][id]
        node == [Updated(old, info) EXCEPT !.st = info.st]
        isNew == old.st = "creating"
    IN /\ Has(native, "node", id)
       /\ Enter("node", id, node)
       /\ PostEvent(Upsert(IF isNew THEN "NodeAdded" ELSE "NodeInfoChanged",
                           id, node))

OnPortInfo(id, info) ==
    LET newPort == Updated(native["port"][id], info)
    IN /\ Has(native, "port", id)
       /\ Enter("port", id, newPort)
       /\ PostEvent(Upsert("PortAdded", id, newPort))

OnLinkInfo(id, info) ==
    LET old == native["link"][id]
        link == [old EXCEPT !.st = info.st, !.refs = info.refs]
    IN /\ Has(native, "link", id)
       /\ Enter("link", id, link)
       /\ PostEvent(Upsert(IF old.st = "init" THEN "LinkAdded"
                                              ELSE "LinkStateChanged",
                           id, link))

OnDeviceInfo(id, info) ==
    /\ Has(native, "device", id)
    /\ Enter("device", id, Updated(native["device"][id], info))
    /\ UNCHANGED port

\* An info handler finds no entry under the id.
OnStaleInfo(id, info) ==
    /\ ~ (info.kind \in Kinds /\ Has(native, info.kind, id))
    /\ UNCHANGED <<monitorVars, requests, port>>

\* The core's error event: posted as an event of type "error".
OnCoreError(id) ==
    /\ PostEvent([type |-> "error", id |-> id, obj |-> NoObj])
    /\ UNCHANGED <<monitorVars, requests>>
=============================================================================
