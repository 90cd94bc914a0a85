------------------------- MODULE GraphMirrorProofs -------------------------
(***************************************************************************)
(* Proofs about GraphMirror, for any set of ids, any registry the daemon   *)
(* may hold and any number of changes and refreshes: types, the monitor's  *)
(* maps, the convergence of PwClient's graph, and the first snapshot.      *)
(***************************************************************************)
EXTENDS GraphMirror, FiniteSetTheorems, TLAPS

-----------------------------------------------------------------------------
\* Types

\* Graphs, events and monitor maps have the types the model names.
LEMMA GraphTypes ==
    ASSUME NEW g \in Graphs, NEW k \in Kinds, NEW id \in Ids
    PROVE  /\ \A obj \in Objects : WithObject(g, k, id, obj) \in Graphs
           /\ WithoutObject(g, k, id) \in Graphs
           /\ EmptyGraph \in Graphs
BY DEF Graphs, ObjectMap, WithObject, WithoutObject, EmptyGraph

\* Each change posts an event of one of the declared kinds.
LEMMA EventKindType ==
    /\ \A t \in Upserts \union Removals : EventKind[t] \in Kinds
    /\ EventKind["NodeAdded"] = "node" /\ EventKind["NodeInfoChanged"] = "node"
    /\ EventKind["PortAdded"] = "port"
    /\ EventKind["LinkAdded"] = "link" /\ EventKind["LinkStateChanged"] = "link"
    /\ EventKind["NodeRemoved"] = "node" /\ EventKind["PortRemoved"] = "port"
    /\ EventKind["LinkRemoved"] = "link"
BY DEF EventKind, Upserts, Removals, Kinds

\* Handling an event keeps the graph a graph.
LEMMA ApplyEventType ==
    ASSUME NEW g \in Graphs, NEW e \in Events
    PROVE  ApplyEvent(g, e) \in Graphs
<1>1. e.id \in Ids /\ (e.type \in Upserts => e.obj \in Objects)
    BY DEF Events, Upserts, Removals
<1>2. CASE e.type \in Upserts
    BY <1>1, <1>2, EventKindType, GraphTypes DEF ApplyEvent
<1>3. CASE e.type \in Removals
    BY <1>1, <1>3, EventKindType, GraphTypes DEF ApplyEvent
<1>4. CASE e.type \notin Upserts \union Removals
    BY <1>4 DEF ApplyEvent
<1> QED BY <1>2, <1>3, <1>4

\* Posting an event keeps the port a sequence of events.
LEMMA PostType ==
    ASSUME port \in Seq(Events), NEW e \in Events, PostEvent(e)
    PROVE  port' \in Seq(Events)
BY DEF PostEvent

-----------------------------------------------------------------------------
\* The handlers, seen from outside: what on_global and on_global_remove do to
\* one entry.

\* on_global (registry_monitor.cpp) keeps the monitor's maps and the port typed.
LEMMA GlobalType ==
    ASSUME TypeOK, NEW id \in Ids, NEW g \in Nat, NEW obj \in Objects,
           OnGlobal(id, g, obj)
    PROVE  /\ native' \in Graphs
           /\ idTypes' \in [Ids -> Kinds \union {"none"}]
           /\ proxies' \subseteq Ids
           /\ announced' \subseteq Kinds \X Ids
           /\ requests' \in Seq(Requests)
           /\ port' \in Seq(Events)
<1>1. [obj EXCEPT !.st = FirstState[obj.kind]] \in Objects
    <2>1. obj.kind \in AllKinds
        BY DEF Objects
    <2>2. FirstState[obj.kind] \in States
        BY <2>1 DEF FirstState, Kinds, AllKinds, States
    <2> QED BY <2>2 DEF Objects
<1>2. native' \in Graphs
    BY <1>1, GraphTypes DEF OnGlobal, TypeOK
<1>3. [op |-> "bind", id |-> id, gen |-> g] \in Requests
    BY DEF Requests
<1> QED
    BY <1>2, <1>3 DEF OnGlobal, TypeOK

\* on_global_remove keeps the monitor's maps and the port typed.
LEMMA RemoveType ==
    ASSUME TypeOK, NEW id \in Ids, OnGlobalRemove(id)
    PROVE  /\ native' \in Graphs
           /\ idTypes' \in [Ids -> Kinds \union {"none"}]
           /\ proxies' \subseteq Ids
           /\ announced' \subseteq Kinds \X Ids
           /\ requests' \in Seq(Requests)
           /\ port' \in Seq(Events)
<1>1. idTypes[id] \in Kinds
    BY DEF OnGlobalRemove, TypeOK
<1>2. native' \in Graphs
    BY <1>1, GraphTypes DEF OnGlobalRemove, TypeOK
<1>3. port' \in Seq(Events)
    <2>1. CASE idTypes[id] \in EventKinds
        <3>1. Removal(RemovalType[idTypes[id]], id) \in Events
            BY <2>1 DEF Removal, RemovalType, Events, Removals, EventKinds
        <3> QED BY <2>1, <3>1, PostType DEF OnGlobalRemove, TypeOK
    <2>2. CASE idTypes[id] \notin EventKinds
        BY <2>2 DEF OnGlobalRemove, TypeOK
    <2> QED BY <2>1, <2>2
<1> QED
    BY <1>1, <1>2, <1>3 DEF OnGlobalRemove, TypeOK

\* The four info handlers have one shape: the entry is there, gets a new
\* object, is announced, and for all kinds but devices the object is posted.
InfoEffect(kind, id, obj) ==
    /\ Has(native, kind, id)
    /\ Enter(kind, id, obj)
    /\ \/ /\ kind = "device"
          /\ UNCHANGED port
       \/ \E type \in Upserts :
             EventKind[type] = kind /\ PostEvent(Upsert(type, id, obj))

\* Each info handler is an InfoEffect: it stores one object and may post it.
LEMMA InfoShape ==
    ASSUME TypeOK, NEW m \in Infos,
           \/ m.kind = "node" /\ OnNodeInfo(m.id, m)
           \/ m.kind = "port" /\ OnPortInfo(m.id, m)
           \/ m.kind = "link" /\ OnLinkInfo(m.id, m)
           \/ m.kind = "device" /\ OnDeviceInfo(m.id, m)
    PROVE  m.kind \in Kinds /\ \E obj \in Objects : InfoEffect(m.kind, m.id, obj)
<1> DEFINE old == native[m.kind][m.id]
<1>1. /\ m.kind \in Kinds /\ m.id \in Ids
      /\ m.st \in States /\ m.refs \subseteq Ids /\ m.props \in Nat
    BY DEF Infos, Kinds
<1>2. Has(native, m.kind, m.id)
    BY DEF OnNodeInfo, OnPortInfo, OnLinkInfo, OnDeviceInfo
<1>3. old \in Objects
    BY <1>1, <1>2 DEF Has, TypeOK, Graphs, ObjectMap
<1>4. Updated(old, m) \in Objects
    BY <1>1, <1>3 DEF Updated, Objects
<1>5. /\ [Updated(old, m) EXCEPT !.st = m.st] \in Objects
      /\ [old EXCEPT !.st = m.st, !.refs = m.refs] \in Objects
    BY <1>1, <1>3, <1>4 DEF Objects
<1>6. {"NodeAdded", "NodeInfoChanged", "PortAdded", "LinkAdded",
       "LinkStateChanged"} = Upserts
    BY DEF Upserts
<1>7. CASE m.kind = "node" /\ OnNodeInfo(m.id, m)
    <2>1. InfoEffect("node", m.id, [Updated(old, m) EXCEPT !.st = m.st])
        BY <1>6, <1>7, EventKindType DEF OnNodeInfo, InfoEffect
    <2> QED BY <1>1, <1>5, <1>7, <2>1
<1>8. CASE m.kind = "port" /\ OnPortInfo(m.id, m)
    <2>1. InfoEffect("port", m.id, Updated(old, m))
        BY <1>6, <1>8, EventKindType DEF OnPortInfo, InfoEffect
    <2> QED BY <1>1, <1>4, <1>8, <2>1
<1>9. CASE m.kind = "link" /\ OnLinkInfo(m.id, m)
    <2>1. InfoEffect("link", m.id, [old EXCEPT !.st = m.st, !.refs = m.refs])
        BY <1>6, <1>9, EventKindType DEF OnLinkInfo, InfoEffect
    <2> QED BY <1>1, <1>5, <1>9, <2>1
<1>10. CASE m.kind = "device" /\ OnDeviceInfo(m.id, m)
    <2>1. InfoEffect("device", m.id, Updated(old, m))
        BY <1>10 DEF OnDeviceInfo, InfoEffect
    <2> QED BY <1>1, <1>4, <1>10, <2>1
<1> QED BY <1>7, <1>8, <1>9, <1>10

\* The node and link info handlers keep the monitor's maps and the port typed.
LEMMA InfoType ==
    ASSUME TypeOK, NEW kind \in Kinds, NEW id \in Ids, NEW obj \in Objects,
           InfoEffect(kind, id, obj)
    PROVE  /\ native' \in Graphs
           /\ idTypes' \in [Ids -> Kinds \union {"none"}]
           /\ proxies' \subseteq Ids
           /\ announced' \subseteq Kinds \X Ids
           /\ requests' \in Seq(Requests)
           /\ port' \in Seq(Events)
<1>1. native' \in Graphs
    BY GraphTypes DEF InfoEffect, Enter, TypeOK
<1>2. \A type \in Upserts : Upsert(type, id, obj) \in Events
    BY DEF Upsert, Events
<1>3. port' \in Seq(Events)
    BY <1>2, PostType DEF InfoEffect, TypeOK
<1> QED
    BY <1>1, <1>3 DEF InfoEffect, Enter, TypeOK

-----------------------------------------------------------------------------
\* Type correctness of the composition

\* The oldest message in flight is one of the declared messages.
LEMMA MessageOf ==
    ASSUME NEW m \in Messages
    PROVE  /\ m.op = "global" => m \in Globals
           /\ m.op = "global_remove" => m \in Removes
           /\ m.op = "info" => m \in Infos
           /\ m.op = "error" => m \in Errors
           /\ m.op # "done" => m.id \in Ids
BY DEF Messages, Globals, Removes, Infos, Dones, Errors

MonitorTypes ==
    /\ native \in Graphs
    /\ idTypes \in [Ids -> Kinds \union {"none"}]
    /\ proxies \subseteq Ids
    /\ announced \subseteq Kinds \X Ids
    /\ requests \in Seq(Requests)
    /\ port \in Seq(Events)

\* What receiving a message does to the monitor, by the kind of message.
LEMMA LoopCases ==
    ASSUME TypeOK, Loop
    PROVE  /\ wire \in Seq(Messages) /\ wire # <<>>
           /\ Head(wire) \in Messages /\ wire' = Tail(wire)
           /\ UNCHANGED <<daemonVars, dartVars>>
           /\ \/ /\ Head(wire).op = "global"
                 /\ OnGlobal(Head(wire).id, Head(wire).gen, Head(wire).obj)
              \/ /\ Head(wire).op = "global"
                 /\ Head(wire).obj.kind \notin Kinds
                 /\ UNCHANGED <<monitorVars, requests, port>>
              \/ /\ Head(wire).op = "global_remove"
                 /\ OnGlobalRemove(Head(wire).id)
              \/ /\ Head(wire).op = "global_remove"
                 /\ idTypes[Head(wire).id] = "none"
                 /\ UNCHANGED <<monitorVars, requests, port>>
              \/ /\ Head(wire).op = "info" /\ Head(wire).kind \in Kinds
                 /\ \E obj \in Objects :
                       InfoEffect(Head(wire).kind, Head(wire).id, obj)
              \/ /\ Head(wire).op \in {"info", "done"}
                 /\ UNCHANGED <<monitorVars, requests, port>>
              \/ /\ Head(wire).op = "error"
                 /\ OnCoreError(Head(wire).id)
<1>1. wire \in Seq(Messages) /\ wire # <<>> /\ wire' = Tail(wire)
      /\ UNCHANGED <<daemonVars, dartVars>>
    BY DEF TypeOK, Loop, Receive, ReceiveGlobal, ReceiveGlobalRemove,
           ReceiveInfo, ReceiveDone, ReceiveError
<1>2. Head(wire) \in Messages
    BY <1>1
<1>3. CASE ReceiveGlobal
    BY <1>1, <1>2, <1>3 DEF ReceiveGlobal, Receive, OnUnknownGlobal
<1>4. CASE ReceiveGlobalRemove
    BY <1>1, <1>2, <1>4 DEF ReceiveGlobalRemove, Receive, OnUnknownRemove
<1>5. CASE ReceiveInfo
    <2>1. Head(wire).op = "info" /\ Head(wire) \in Infos
        BY <1>2, <1>5, MessageOf DEF ReceiveInfo, Receive
    <2>2. CASE UNCHANGED <<monitorVars, requests, port>>
        BY <1>1, <1>2, <2>1, <2>2
    <2>3. CASE ~ UNCHANGED <<monitorVars, requests, port>>
        <3>1. LET m == Head(wire) IN
                 \/ m.kind = "node" /\ OnNodeInfo(m.id, m)
                 \/ m.kind = "port" /\ OnPortInfo(m.id, m)
                 \/ m.kind = "link" /\ OnLinkInfo(m.id, m)
                 \/ m.kind = "device" /\ OnDeviceInfo(m.id, m)
            BY <1>5, <2>3 DEF ReceiveInfo, OnStaleInfo
        <3> QED BY <1>1, <1>2, <2>1, <3>1, InfoShape
    <2> QED BY <2>2, <2>3
<1>6. CASE ReceiveDone
    BY <1>1, <1>2, <1>6 DEF ReceiveDone, Receive
<1>7. CASE ReceiveError
    BY <1>1, <1>2, <1>7 DEF ReceiveError, Receive
<1> QED
    BY <1>3, <1>4, <1>5, <1>6, <1>7 DEF Loop

\* Handling a message on the PipeWire loop keeps everything typed.
LEMMA LoopTypes ==
    ASSUME TypeOK, Loop
    PROVE  MonitorTypes' /\ wire' \in Seq(Messages)
<1> DEFINE m == Head(wire)
<1>1. wire' \in Seq(Messages) /\ m \in Messages
    BY LoopCases
<1>2. CASE m.op = "global" /\ OnGlobal(m.id, m.gen, m.obj)
    <2>1. m.id \in Ids /\ m.gen \in Nat /\ m.obj \in Objects
        BY <1>1, <1>2, MessageOf DEF Globals
    <2> QED BY <1>1, <1>2, <2>1, GlobalType DEF MonitorTypes
<1>3. CASE m.op = "global_remove" /\ OnGlobalRemove(m.id)
    BY <1>1, <1>3, MessageOf, RemoveType DEF MonitorTypes
<1>4. CASE /\ m.op = "info" /\ m.kind \in Kinds
           /\ \E obj \in Objects : InfoEffect(m.kind, m.id, obj)
    BY <1>1, <1>4, MessageOf, InfoType DEF MonitorTypes
<1>5. CASE m.op = "error" /\ OnCoreError(m.id)
    <2>1. m.id \in Ids
        BY <1>1, <1>5, MessageOf
    <2>2. [type |-> "error", id |-> m.id, obj |-> NoObj] \in Events
        BY <2>1 DEF Events
    <2> QED
        BY <1>1, <1>5, <2>2, PostType
        DEF OnCoreError, MonitorTypes, monitorVars, TypeOK
<1>6. CASE UNCHANGED <<monitorVars, requests, port>>
    BY <1>1, <1>6 DEF MonitorTypes, monitorVars, TypeOK
<1> QED
    BY <1>1, <1>2, <1>3, <1>4, <1>5, <1>6, LoopCases

\* The client starts well typed.
LEMMA TypeInit == Init => TypeOK
<1> SUFFICES ASSUME Init PROVE TypeOK
    OBVIOUS
<1> DEFINE n == Cardinality(Present(world))
<1>1. Present(world) \subseteq Ids /\ IsFiniteSet(Present(world)) /\ n \in Nat
    BY ConstantsAssumption, FS_Subset, FS_CardinalityType DEF Present
<1>2. world \in ObjectMap
    BY ConstantsAssumption DEF Init
<1>3. PICK order \in Announcements(world) :
         wire = [i \in 1 .. n |-> Global(order[i], 0, world[order[i]])]
    BY DEF Init
<1>4. \A i \in 1 .. n : order[i] \in Ids /\ world[order[i]] \in Objects
    BY <1>1, <1>2, <1>3 DEF Announcements, Present, ObjectMap
<1>5. \A i \in 1 .. n : Global(order[i], 0, world[order[i]]) \in Messages
    BY <1>4 DEF Global, Messages, Globals
<1>6. wire \in Seq(Messages)
    BY <1>1, <1>3, <1>5
<1>7. EmptyGraph \in Graphs
    BY DEF EmptyGraph, Graphs, ObjectMap
<1>8. /\ gen \in [Ids -> Nat] /\ idTypes \in [Ids -> Kinds \union {"none"}]
      /\ requests \in Seq(Requests) /\ port \in Seq(Events)
      /\ changes \in 0 .. MaxChanges /\ refreshes \in 0 .. MaxRefresh
    BY ConstantsAssumption DEF Init, MonitorInit
<1> QED
    BY <1>1, <1>2, <1>6, <1>7, <1>8 DEF Init, MonitorInit, TypeOK

\* A message the daemon sends leaves a sequence of messages in flight.
LEMMA AppendTypes ==
    /\ \A s \in Seq(Messages), m \in Messages : Append(s, m) \in Seq(Messages)
    /\ \A s \in Seq(Requests), r \in Requests : Append(s, r) \in Seq(Requests)
OBVIOUS

\* Every step of the daemon, the loop and the Dart side keeps every type.
LEMMA TypeInd == TypeOK /\ [Next]_vars => TypeOK'
<1> SUFFICES ASSUME TypeOK, [Next]_vars PROVE TypeOK'
    OBVIOUS
<1> USE ConstantsAssumption
<1>1. ASSUME NEW entry \in Catalog, DaemonAdd(entry[1], entry[2]) PROVE TypeOK'
    <2> DEFINE id == entry[1]  obj == entry[2]
    <2>1. id \in Ids /\ obj \in Objects
        OBVIOUS
    <2>2. Global(id, gen[id] + 1, obj) \in Messages
        BY <2>1 DEF Global, Messages, Globals, TypeOK
    <2>3. /\ world' \in ObjectMap /\ gen' \in [Ids -> Nat]
          /\ wire' \in Seq(Messages) /\ changes' \in 0 .. MaxChanges
        BY <1>1, <2>1, <2>2 DEF DaemonAdd, TypeOK, ObjectMap
    <2> QED
        BY <1>1, <2>3 DEF DaemonAdd, TypeOK, monitorVars, connVars, dartVars
<1>2. ASSUME NEW id \in Ids, DaemonRemove(id) PROVE TypeOK'
    <2>1. [op |-> "global_remove", id |-> id] \in Messages
        BY DEF Messages, Removes
    <2>2. /\ world' \in ObjectMap /\ wire' \in Seq(Messages)
          /\ changes' \in 0 .. MaxChanges
        BY <1>2, <2>1 DEF DaemonRemove, TypeOK, ObjectMap
    <2> QED
        BY <1>2, <2>2 DEF DaemonRemove, TypeOK, monitorVars, connVars, dartVars
<1>3. ASSUME NEW id \in Ids, NEW newSt \in States,
             NEW newProps \in 0 .. MaxChanges, DaemonChange(id, newSt, newProps)
      PROVE  TypeOK'
    <2> DEFINE new == [world[id] EXCEPT !.st = newSt, !.props = newProps]
    <2>1. world[id] \in Objects
        BY <1>3 DEF DaemonChange, TypeOK, ObjectMap
    <2>2. new \in Objects
        <3>1. newProps \in Nat
            OBVIOUS
        <3> QED BY <2>1, <3>1 DEF Objects
    <2>3. \A b \in BOOLEAN : Info(id, new, b) \in Messages
        BY <2>2 DEF Info, Messages, Infos, Objects
    <2>4. wire' \in Seq(Messages)
        <3>1. \/ wire' = wire
              \/ \E b \in BOOLEAN : wire' = Append(wire, Info(id, new, b))
            BY <1>3 DEF DaemonChange
        <3>2. wire \in Seq(Messages)
            BY DEF TypeOK
        <3> QED BY <2>3, <3>1, <3>2, AppendTypes
    <2>5. world' = [world EXCEPT ![id] = new] /\ changes' \in 0 .. MaxChanges
        BY <1>3 DEF DaemonChange, TypeOK
    <2>6. world' \in ObjectMap
        BY <2>2, <2>5 DEF TypeOK, ObjectMap
    <2> QED
        BY <1>3, <2>4, <2>5, <2>6
        DEF DaemonChange, TypeOK, monitorVars, connVars, dartVars
<1>4. CASE DaemonBind
    <2>1. Head(requests) \in Requests /\ requests' \in Seq(Requests)
        BY <1>4 DEF DaemonBind, TypeOK
    <2>2. Head(requests).id \in Ids
        BY <1>4, <2>1 DEF DaemonBind, Requests
    <2>3. [op |-> "error", id |-> Head(requests).id] \in Messages
        BY <2>2 DEF Messages, Errors
    <2>4. world[Head(requests).id] # NoObj
             => Info(Head(requests).id, world[Head(requests).id], TRUE) \in Messages
        <3>1. world[Head(requests).id] # NoObj
                 => world[Head(requests).id] \in Objects
            BY <2>2 DEF TypeOK, ObjectMap
        <3> QED BY <2>2, <3>1 DEF Info, Messages, Infos, Objects
    <2>5. /\ bound' \in {bound, bound \union {Head(requests).id}}
          /\ \/ wire' = Append(wire, [op |-> "error", id |-> Head(requests).id])
             \/ /\ world[Head(requests).id] # NoObj
                /\ wire' = Append(wire, Info(Head(requests).id,
                                             world[Head(requests).id], TRUE))
        BY <1>4 DEF DaemonBind
    <2>6. bound' \subseteq Ids /\ wire' \in Seq(Messages)
        <3>1. wire \in Seq(Messages) /\ bound \subseteq Ids
            BY DEF TypeOK
        <3>2. wire' \in Seq(Messages)
            BY <2>3, <2>4, <2>5, <3>1, AppendTypes
        <3> QED BY <2>2, <2>5, <3>1, <3>2
    <2> QED
        BY <1>4, <2>1, <2>6 DEF DaemonBind, TypeOK, monitorVars, connVars, dartVars
<1>5. CASE DaemonSync
    <2>1. Head(requests) \in Requests /\ requests' \in Seq(Requests)
        BY <1>5 DEF DaemonSync, TypeOK
    <2>2. [op |-> "done", seq |-> Head(requests).seq] \in Messages
        BY <1>5, <2>1 DEF DaemonSync, Requests, Messages, Dones
    <2> QED
        BY <1>5, <2>1, <2>2
        DEF DaemonSync, TypeOK, monitorVars, daemonVars, connVars, dartVars
<1>6. CASE Loop
    <2>1. /\ conn' = conn /\ syncSeq' = syncSeq /\ syncDone' \in BOOLEAN
        BY <1>6
        DEF Loop, ReceiveGlobal, ReceiveGlobalRemove, ReceiveInfo, ReceiveDone,
            ReceiveError, connVars, TypeOK
    <2> QED
        BY <1>6, <2>1, LoopTypes, LoopCases
        DEF TypeOK, MonitorTypes, daemonVars, dartVars
<1>7. ASSUME NEW next \in {"round1", "round2"}, StartRound(next) PROVE TypeOK'
    <2>1. [op |-> "sync", seq |-> syncSeq + 1] \in Requests
        BY DEF Requests, TypeOK
    <2>2. requests' \in Seq(Requests)
        BY <1>7, <2>1, AppendTypes DEF StartRound, TypeOK
    <2>3. syncSeq' \in Nat /\ conn' \in {"registered", "round1", "round2", "up"}
        BY <1>7 DEF StartRound, TypeOK
    <2>4. syncDone' \in BOOLEAN
        BY <1>7 DEF StartRound
    <2> QED
        BY <1>7, <2>2, <2>3, <2>4
        DEF StartRound, TypeOK, monitorVars, daemonVars, dartVars
<1>8. CASE FinishConnect
    BY <1>8 DEF FinishConnect, TypeOK, monitorVars, daemonVars
<1>9. CASE TakeFirstSnapshot \/ TakeSnapshot
    BY <1>9 DEF TakeFirstSnapshot, TakeSnapshot, TypeOK, monitorVars,
                daemonVars, connVars
<1>10. CASE AssignGraph
    <2>1. EmptyGraph \in Graphs
        BY DEF EmptyGraph, Graphs, ObjectMap
    <2> QED
        BY <1>10, <2>1 DEF AssignGraph, TypeOK, monitorVars, daemonVars, connVars
<1>11. CASE Deliver
    <2>1. Head(port) \in Events /\ port' \in Seq(Events)
        BY <1>11 DEF Deliver, TypeOK
    <2>2. graph' \in Graphs
        BY <1>11, <2>1, ApplyEventType DEF Deliver, TypeOK
    <2> QED
        BY <1>11, <2>1, <2>2 DEF Deliver, TypeOK, monitorVars, daemonVars, connVars
<1>12. CASE UNCHANGED vars
    BY <1>12 DEF vars, TypeOK, monitorVars, daemonVars, connVars, dartVars
<1> QED
    BY <1>1, <1>2, <1>3, <1>4, <1>5, <1>6, <1>7, <1>8, <1>9, <1>10, <1>11, <1>12
    DEF Next, Daemon, DaemonAnswer, Connect, Isolate, StartRound1, StartRound2

\* Every variable of the mirror keeps its type, in the native maps, the wire,
\* the events in flight and PwClient's graph.
THEOREM TypeCorrect == Spec => []TypeOK
BY TypeInit, TypeInd, PTL DEF Spec

-----------------------------------------------------------------------------
\* A global never reaches an id that is still taken

\* The first announcements name each id once, and id_types_ knows none yet.
LEMMA FreshInit == Init => FreshGlobals
<1> SUFFICES ASSUME Init PROVE FreshGlobals
    OBVIOUS
<1> DEFINE n == Cardinality(Present(world))
<1>1. n \in Nat
    BY ConstantsAssumption, FS_Subset, FS_CardinalityType DEF Present
<1>2. PICK order \in Announcements(world) :
         wire = [i \in 1 .. n |-> Global(order[i], 0, world[order[i]])]
    BY DEF Init
<1>3. /\ order \in [1 .. n -> Present(world)]
      /\ \A i, j \in 1 .. n : order[i] = order[j] => i = j
    BY DEF Announcements
<1>4. DOMAIN wire = 1 .. n /\ \A i \in 1 .. n : wire[i].id = order[i]
    BY <1>2 DEF Global
<1>5. Len(wire) = n
    BY <1>1, <1>2
<1>6. \A id \in Ids : idTypes[id] = "none"
    BY DEF Init, MonitorInit
<1>7. ASSUME NEW i \in DOMAIN wire
      PROVE  FreeAfter(wire, idTypes, i - 1, wire[i].id)
    <2>1. wire[i].id \in Ids
        BY <1>3, <1>4 DEF Present
    <2>2. \A l \in 1 .. i - 1 : wire[l].id # wire[i].id
        BY <1>1, <1>3, <1>4
    <2> QED BY <1>6, <2>1, <2>2 DEF FreeAfter
<1>8. ASSUME NEW id \in Ids, world[id] = NoObj
      PROVE  FreeAfter(wire, idTypes, Len(wire), id)
    <2>1. \A l \in 1 .. n : wire[l].id # id
        BY <1>3, <1>4, <1>8 DEF Present
    <2> QED BY <1>5, <1>6, <2>1 DEF FreeAfter
<1> QED BY <1>7, <1>8 DEF FreshGlobals

\* The daemon sends a message: a global only for an id it had free.
LEMMA FreshAppend ==
    ASSUME TypeOK, FreshGlobals, NEW m \in Messages,
           wire' = Append(wire, m), idTypes' = idTypes,
           m.op = "global" => world[m.id] = NoObj /\ world'[m.id] # NoObj,
           \A id \in Ids : world'[id] = NoObj =>
               \/ world[id] = NoObj
               \/ m.op = "global_remove" /\ m.id = id
    PROVE  FreshGlobals'
<1> DEFINE n == Len(wire)
<1>1. /\ n \in Nat /\ DOMAIN wire = 1 .. n
      /\ Len(wire') = n + 1 /\ DOMAIN wire' = 1 .. n + 1
      /\ wire'[n + 1] = m /\ \A j \in 1 .. n : wire'[j] = wire[j]
    BY DEF TypeOK
<1>2. \A k \in 0 .. n, id \in Ids :
         FreeAfter(wire, idTypes, k, id) => FreeAfter(wire', idTypes', k, id)
    BY <1>1 DEF FreeAfter
<1>3. ASSUME NEW id \in Ids, FreeAfter(wire, idTypes, n, id),
             ~ (m.op = "global" /\ m.id = id)
      PROVE  FreeAfter(wire', idTypes', n + 1, id)
    BY <1>1, <1>3 DEF FreeAfter
<1>4. ASSUME NEW id \in Ids, m.op = "global_remove", m.id = id
      PROVE  FreeAfter(wire', idTypes', n + 1, id)
    BY <1>1, <1>4 DEF FreeAfter
<1>5. ASSUME NEW i \in DOMAIN wire', wire'[i].op = "global"
      PROVE  FreeAfter(wire', idTypes', i - 1, wire'[i].id)
    <2>1. CASE i = n + 1
        <3>1. m.id \in Ids /\ world[m.id] = NoObj
            BY <1>1, <1>5, <2>1, MessageOf
        <3>2. FreeAfter(wire, idTypes, n, m.id)
            BY <3>1 DEF FreshGlobals
        <3>3. FreeAfter(wire', idTypes', n, m.id)
            BY <1>1, <1>2, <3>1, <3>2
        <3>4. i - 1 = n /\ wire'[i] = m
            BY <1>1, <2>1
        <3> QED BY <3>3, <3>4
    <2>2. CASE i # n + 1
        <3>1. i \in 1 .. n /\ wire'[i] = wire[i]
            BY <1>1, <2>2
        <3>2. wire[i] \in Messages
            BY <1>1, <3>1 DEF TypeOK
        <3>3. FreeAfter(wire, idTypes, i - 1, wire[i].id) /\ wire[i].id \in Ids
            BY <1>1, <1>5, <3>1, <3>2, MessageOf DEF FreshGlobals
        <3> QED BY <1>1, <1>2, <3>1, <3>3
    <2> QED BY <2>1, <2>2
<1>6. ASSUME NEW id \in Ids, world'[id] = NoObj
      PROVE  FreeAfter(wire', idTypes', n + 1, id)
    <2>1. CASE m.op = "global_remove" /\ m.id = id
        BY <1>4, <2>1
    <2>2. CASE ~ (m.op = "global_remove" /\ m.id = id)
        <3>1. FreeAfter(wire, idTypes, n, id)
            BY <1>6, <2>2 DEF FreshGlobals
        <3> QED BY <1>3, <1>6, <3>1
    <2> QED BY <2>1, <2>2
<1> QED BY <1>1, <1>5, <1>6 DEF FreshGlobals

\* The client handles a message: an id whose removal it handled is free.
LEMMA FreshTail ==
    ASSUME TypeOK, FreshGlobals, wire # <<>>, wire' = Tail(wire),
           world' = world,
           \A id \in Ids :
               (\/ Head(wire).op = "global_remove" /\ Head(wire).id = id
                \/ /\ idTypes[id] = "none"
                   /\ ~ (Head(wire).op = "global" /\ Head(wire).id = id))
                  => idTypes'[id] = "none"
    PROVE  FreshGlobals'
<1> DEFINE n == Len(wire)
<1>1. /\ n \in Nat /\ n >= 1 /\ DOMAIN wire = 1 .. n
      /\ Len(wire') = n - 1 /\ DOMAIN wire' = 1 .. n - 1
      /\ Head(wire) = wire[1]
      /\ \A j \in 1 .. n - 1 : wire'[j] = wire[j + 1]
    BY DEF TypeOK
<1>2. ASSUME NEW k \in 0 .. n - 1, NEW id \in Ids,
             FreeAfter(wire, idTypes, k + 1, id)
      PROVE  FreeAfter(wire', idTypes', k, id)
    <2>1. CASE \E j \in 2 .. k + 1 :
                  /\ wire[j].op = "global_remove" /\ wire[j].id = id
                  /\ \A l \in j + 1 .. k + 1 :
                        ~ (wire[l].op = "global" /\ wire[l].id = id)
        <3>1. PICK j \in 2 .. k + 1 :
                  /\ wire[j].op = "global_remove" /\ wire[j].id = id
                  /\ \A l \in j + 1 .. k + 1 :
                        ~ (wire[l].op = "global" /\ wire[l].id = id)
            BY <2>1
        <3>2. j - 1 \in 1 .. k /\ wire'[j - 1] = wire[j]
            BY <1>1
        <3>3. \A l \in j .. k : wire'[l] = wire[l + 1] /\ l + 1 \in j + 1 .. k + 1
            BY <1>1
        <3>4. (j - 1) + 1 = j
            OBVIOUS
        <3>5. \A l \in (j - 1) + 1 .. k :
                 ~ (wire'[l].op = "global" /\ wire'[l].id = id)
            BY <3>1, <3>3, <3>4
        <3>6. wire'[j - 1].op = "global_remove" /\ wire'[j - 1].id = id
            BY <3>1, <3>2
        <3> QED BY <3>2, <3>5, <3>6 DEF FreeAfter
    <2>2. CASE /\ wire[1].op = "global_remove" /\ wire[1].id = id
               /\ \A l \in 2 .. k + 1 :
                     ~ (wire[l].op = "global" /\ wire[l].id = id)
        <3>1. \A l \in 1 .. k : wire'[l] = wire[l + 1] /\ l + 1 \in 2 .. k + 1
            BY <1>1
        <3>2. idTypes'[id] = "none"
            BY <1>1, <2>2
        <3>3. \A l \in 1 .. k : ~ (wire'[l].op = "global" /\ wire'[l].id = id)
            BY <2>2, <3>1
        <3> QED BY <3>2, <3>3 DEF FreeAfter
    <2>3. CASE /\ idTypes[id] = "none"
               /\ \A l \in 1 .. k + 1 :
                     ~ (wire[l].op = "global" /\ wire[l].id = id)
        <3>1. \A l \in 1 .. k : wire'[l] = wire[l + 1] /\ l + 1 \in 1 .. k + 1
            BY <1>1
        <3>2. idTypes'[id] = "none"
            BY <1>1, <2>3
        <3> QED BY <2>3, <3>1, <3>2 DEF FreeAfter
    <2>4. CASE \E j \in 1 .. k + 1 :
                  /\ wire[j].op = "global_remove" /\ wire[j].id = id
                  /\ \A l \in j + 1 .. k + 1 :
                        ~ (wire[l].op = "global" /\ wire[l].id = id)
        <3>1. PICK j \in 1 .. k + 1 :
                  /\ wire[j].op = "global_remove" /\ wire[j].id = id
                  /\ \A l \in j + 1 .. k + 1 :
                        ~ (wire[l].op = "global" /\ wire[l].id = id)
            BY <2>4
        <3>2. CASE j = 1
            <4>1. j + 1 = 2
                BY <3>2
            <4> QED BY <2>2, <3>1, <3>2, <4>1
        <3>3. CASE j # 1
            <4>1. j \in 2 .. k + 1
                BY <3>3
            <4> QED BY <2>1, <3>1, <4>1
        <3> QED BY <3>2, <3>3
    <2> QED BY <1>2, <2>3, <2>4 DEF FreeAfter
<1>3. ASSUME NEW i \in DOMAIN wire', wire'[i].op = "global"
      PROVE  FreeAfter(wire', idTypes', i - 1, wire'[i].id)
    <2>1. i + 1 \in 1 .. n /\ wire'[i] = wire[i + 1] /\ wire[i + 1] \in Messages
        BY <1>1 DEF TypeOK
    <2>2. FreeAfter(wire, idTypes, (i + 1) - 1, wire[i + 1].id)
        BY <1>1, <1>3, <2>1 DEF FreshGlobals
    <2>3. (i + 1) - 1 = (i - 1) + 1 /\ i - 1 \in 0 .. n - 1 /\ wire[i + 1].id \in Ids
        BY <1>1, <1>3, <2>1, MessageOf
    <2>4. FreeAfter(wire, idTypes, (i - 1) + 1, wire[i + 1].id)
        BY <2>2, <2>3
    <2> QED BY <1>2, <2>1, <2>3, <2>4
<1>4. ASSUME NEW id \in Ids, world'[id] = NoObj
      PROVE  FreeAfter(wire', idTypes', Len(wire'), id)
    <2>1. FreeAfter(wire, idTypes, (n - 1) + 1, id)
        BY <1>1, <1>4 DEF FreshGlobals
    <2> QED BY <1>1, <1>2, <2>1
<1> QED BY <1>3, <1>4 DEF FreshGlobals

\* What a handler may do to id_types_.
LEMMA LoopIdTypes ==
    ASSUME TypeOK, Loop
    PROVE  /\ world' = world
           /\ \A id \in Ids :
                 (\/ Head(wire).op = "global_remove" /\ Head(wire).id = id
                  \/ /\ idTypes[id] = "none"
                     /\ ~ (Head(wire).op = "global" /\ Head(wire).id = id))
                    => idTypes'[id] = "none"
<1> USE DEF TypeOK, monitorVars, daemonVars
<1>1. world' = world
    BY LoopCases
<1>2. idTypes \in [Ids -> Kinds \union {"none"}]
    OBVIOUS
<1> QED
    BY <1>1, <1>2, LoopCases
    DEF OnGlobal, OnGlobalRemove, InfoEffect, Enter, OnCoreError

\* Every step keeps the next global of an id free of an older one.
LEMMA FreshInd == TypeOK /\ FreshGlobals /\ [Next]_vars => FreshGlobals'
<1> SUFFICES ASSUME TypeOK, FreshGlobals, [Next]_vars PROVE FreshGlobals'
    OBVIOUS
<1>1. ASSUME NEW entry \in Catalog, DaemonAdd(entry[1], entry[2])
      PROVE  FreshGlobals'
    <2> DEFINE id == entry[1]  obj == entry[2]
    <2>1. id \in Ids /\ obj \in Objects
        BY ConstantsAssumption
    <2>2. /\ Global(id, gen[id] + 1, obj) \in Messages
          /\ Global(id, gen[id] + 1, obj).op = "global"
          /\ Global(id, gen[id] + 1, obj).id = id
        BY <2>1 DEF Global, Messages, Globals, TypeOK
    <2>3. /\ wire' = Append(wire, Global(id, gen[id] + 1, obj))
          /\ idTypes' = idTypes /\ world[id] = NoObj
          /\ world' = [world EXCEPT ![id] = obj]
        BY <1>1 DEF DaemonAdd, monitorVars
    <2>4. world'[id] # NoObj /\ \A x \in Ids : world'[x] = NoObj => world[x] = NoObj
        BY <2>1, <2>3, NoObjAssumption DEF TypeOK, ObjectMap
    <2> QED BY <2>2, <2>3, <2>4, FreshAppend
<1>2. ASSUME NEW id \in Ids, DaemonRemove(id) PROVE FreshGlobals'
    <2> DEFINE m == [op |-> "global_remove", id |-> id]
    <2>1. m \in Messages /\ m.op = "global_remove" /\ m.id = id
        BY DEF Messages, Removes
    <2>2. /\ wire' = Append(wire, m) /\ idTypes' = idTypes
          /\ world' = [world EXCEPT ![id] = NoObj]
        BY <1>2 DEF DaemonRemove, monitorVars
    <2>3. \A x \in Ids : x # id => world'[x] = world[x]
        BY <2>2 DEF TypeOK, ObjectMap
    <2> HIDE DEF m
    <2> QED BY <2>1, <2>2, <2>3, FreshAppend
<1>3. ASSUME NEW id \in Ids, NEW newSt \in States,
             NEW newProps \in 0 .. MaxChanges, DaemonChange(id, newSt, newProps)
      PROVE  FreshGlobals'
    <2> DEFINE new == [world[id] EXCEPT !.st = newSt, !.props = newProps]
    <2>1. world[id] \in Objects /\ newProps \in Nat
        BY <1>3, ConstantsAssumption DEF DaemonChange, TypeOK, ObjectMap
    <2>2. new \in Objects
        BY <2>1 DEF Objects
    <2>3. /\ world' = [world EXCEPT ![id] = new] /\ idTypes' = idTypes
          /\ \/ wire' = wire
             \/ \E b \in BOOLEAN : wire' = Append(wire, Info(id, new, b))
        BY <1>3 DEF DaemonChange, monitorVars
    <2>4. \A x \in Ids : world'[x] = NoObj => world[x] = NoObj
        BY <2>1, <2>2, <2>3, NoObjAssumption DEF TypeOK, ObjectMap
    <2>5. CASE wire' = wire
        BY <2>3, <2>4, <2>5 DEF FreshGlobals, FreeAfter
    <2>6. ASSUME NEW b \in BOOLEAN, wire' = Append(wire, Info(id, new, b))
          PROVE  FreshGlobals'
        <3>1. /\ Info(id, new, b) \in Messages
              /\ Info(id, new, b).op = "info"
            BY <2>2 DEF Info, Messages, Infos, Objects
        <3> QED BY <2>3, <2>4, <2>6, <3>1, FreshAppend
    <2> QED BY <2>3, <2>5, <2>6
<1>4. CASE DaemonBind
    <2>1. Head(requests).id \in Ids
        BY <1>4 DEF DaemonBind, Requests, TypeOK
    <2>2. \E m \in Messages : m.op \in {"info", "error"} /\ wire' = Append(wire, m)
        <3>1. CASE wire' = Append(wire, [op |-> "error", id |-> Head(requests).id])
            <4>1. [op |-> "error", id |-> Head(requests).id] \in Messages
                BY <2>1 DEF Messages, Errors
            <4> QED BY <3>1, <4>1
        <3>2. CASE /\ world[Head(requests).id] # NoObj
                   /\ wire' = Append(wire, Info(Head(requests).id,
                                                world[Head(requests).id], TRUE))
            <4>1. world[Head(requests).id] \in Objects
                BY <2>1, <3>2 DEF TypeOK, ObjectMap
            <4> DEFINE m == Info(Head(requests).id, world[Head(requests).id], TRUE)
            <4>2. m \in Messages /\ m.op = "info"
                BY <2>1, <4>1 DEF Info, Messages, Infos, Objects
            <4> QED BY <3>2, <4>2
        <3> QED BY <1>4, <3>1, <3>2 DEF DaemonBind
    <2>3. world' = world /\ idTypes' = idTypes
        BY <1>4 DEF DaemonBind, monitorVars
    <2> QED BY <2>2, <2>3, FreshAppend
<1>5. CASE DaemonSync
    <2> DEFINE m == [op |-> "done", seq |-> Head(requests).seq]
    <2>1. m \in Messages /\ m.op = "done"
        BY <1>5 DEF DaemonSync, TypeOK, Requests, Messages, Dones
    <2>2. wire' = Append(wire, m) /\ world' = world /\ idTypes' = idTypes
        BY <1>5 DEF DaemonSync, monitorVars, daemonVars
    <2> HIDE DEF m
    <2> QED BY <2>1, <2>2, FreshAppend
<1>6. CASE Loop
    BY <1>6, LoopCases, LoopIdTypes, FreshTail
<1>7. CASE UNCHANGED <<wire, world, idTypes>>
    BY <1>7 DEF FreshGlobals, FreeAfter
<1> QED
    BY <1>1, <1>2, <1>3, <1>4, <1>5, <1>6, <1>7
    DEF Next, Daemon, DaemonAnswer, Connect, Isolate, StartRound1, StartRound2,
        StartRound, FinishConnect, TakeFirstSnapshot, TakeSnapshot, AssignGraph,
        Deliver, vars, monitorVars, daemonVars

-----------------------------------------------------------------------------
\* One kind per id

\* A global at the head of the messages finds its id unknown to id_types_.
LEMMA FreshHead ==
    ASSUME TypeOK, FreshGlobals, wire # <<>>, Head(wire).op = "global"
    PROVE  idTypes[Head(wire).id] = "none"
<1>1. 1 \in DOMAIN wire /\ Head(wire) = wire[1]
    BY DEF TypeOK
<1>2. FreeAfter(wire, idTypes, 1 - 1, wire[1].id)
    BY <1>1 DEF FreshGlobals
<1> QED BY <1>1, <1>2 DEF FreeAfter

\* Initially no id is known, so none has two kinds.
LEMMA KindInit == Init => OneKindPerId
BY DEF Init, MonitorInit, OneKindPerId, Has, EmptyGraph, Kinds

\* Every step keeps each id in the one map id_types_ names.
LEMMA KindInd ==
    TypeOK /\ FreshGlobals /\ OneKindPerId /\ [Next]_vars => OneKindPerId'
<1> SUFFICES ASSUME TypeOK, FreshGlobals, OneKindPerId, [Next]_vars
             PROVE  OneKindPerId'
    OBVIOUS
<1> DEFINE m == Head(wire)
<1>t. /\ native \in [Kinds -> [Ids -> Objects \union {NoObj}]]
      /\ idTypes \in [Ids -> Kinds \union {"none"}]
      /\ "none" \notin Kinds
    BY DEF TypeOK, Graphs, ObjectMap, Kinds
<1>1. CASE Loop /\ m.op = "global" /\ OnGlobal(m.id, m.gen, m.obj)
    <2> DEFINE id == m.id  kind == m.obj.kind
               new == [m.obj EXCEPT !.st = FirstState[kind]]
    <2>1. id \in Ids /\ kind \in Kinds /\ new \in Objects
        <3>1. m \in Globals
            BY <1>1, LoopCases, MessageOf
        <3>2. FirstState[kind] \in States /\ kind \in Kinds
            BY <1>1 DEF OnGlobal, FirstState, Kinds, States
        <3> QED BY <3>1, <3>2 DEF Globals, Objects
    <2>2. idTypes[id] = "none"
        BY <1>1, FreshHead, LoopCases
    <2>3. /\ native' = [native EXCEPT ![kind] = [@ EXCEPT ![id] = new]]
          /\ idTypes' = [idTypes EXCEPT ![id] = kind]
          /\ proxies' = proxies \union {id}
        BY <1>1 DEF OnGlobal, WithObject
    <2>4. new # NoObj
        BY <2>1, NoObjAssumption
    <2> HIDE DEF new, kind, id
    <2> QED
        BY <1>t, <2>1, <2>2, <2>3, <2>4 DEF OneKindPerId, Has
<1>2. CASE Loop /\ m.op = "global_remove" /\ OnGlobalRemove(m.id)
    <2> DEFINE id == m.id
    <2>1. id \in Ids
        BY <1>2, LoopCases, MessageOf
    <2>2. /\ idTypes[id] # "none" /\ idTypes[id] \in Kinds
          /\ native' = [native EXCEPT ![idTypes[id]] = [@ EXCEPT ![id] = NoObj]]
          /\ idTypes' = [idTypes EXCEPT ![id] = "none"]
          /\ proxies' = proxies \ {id}
        BY <1>2, <1>t, <2>1 DEF OnGlobalRemove, WithoutObject
    <2> HIDE DEF id
    <2> QED
        BY <1>t, <2>1, <2>2 DEF OneKindPerId, Has
<1>3. CASE /\ Loop /\ m.op = "info" /\ m.kind \in Kinds
           /\ \E obj \in Objects : InfoEffect(m.kind, m.id, obj)
    <2> DEFINE id == m.id  kind == m.kind
    <2>1. PICK obj \in Objects : InfoEffect(kind, id, obj)
        BY <1>3
    <2>2. id \in Ids /\ kind \in Kinds /\ obj # NoObj
        BY <1>3, LoopCases, MessageOf, NoObjAssumption
    <2>3. /\ native[kind][id] # NoObj
          /\ native' = [native EXCEPT ![kind] = [@ EXCEPT ![id] = obj]]
          /\ UNCHANGED <<idTypes, proxies>>
        BY <2>1 DEF InfoEffect, Enter, WithObject, Has
    <2> HIDE DEF id, kind
    <2> QED
        BY <1>t, <2>2, <2>3 DEF OneKindPerId, Has
<1>4. CASE UNCHANGED monitorVars
    BY <1>4 DEF OneKindPerId, Has, monitorVars
<1>5. CASE Loop
    BY <1>1, <1>2, <1>3, <1>4, <1>5, LoopCases DEF OnCoreError, monitorVars
<1> QED
    BY <1>4, <1>5
    DEF Next, Daemon, DaemonAnswer, DaemonAdd, DaemonRemove, DaemonChange,
        DaemonBind, DaemonSync, Connect, Isolate, StartRound1, StartRound2,
        StartRound, FinishConnect, TakeFirstSnapshot, TakeSnapshot, AssignGraph,
        Deliver, vars, monitorVars

-----------------------------------------------------------------------------
\* Convergence

\* Nothing is posted or handled: what agreed must still agree.
LEMMA ConvKeep ==
    ASSUME Convergence, port' = port, Base' = Base,
           \A k \in EventKinds, id \in Ids, val \in Objects \union {NoObj} :
               Agrees(val, k, id) => Agrees(val, k, id)',
           TypeOK
    PROVE  Convergence'
<1>1. \A i \in DOMAIN port : port[i].obj \in Objects \union {NoObj}
    BY DEF TypeOK, Events
<1>2. \A k \in EventKinds, id \in Ids : Base[k][id] \in Objects \union {NoObj}
    BY DEF TypeOK, Base, Graphs, ObjectMap, EventKinds, Kinds
<1>3. \A i, k, id : LastWord(i, k, id)' <=> LastWord(i, k, id)
    BY DEF LastWord
<1> QED
    BY <1>1, <1>2, <1>3 DEF Convergence

\* An event is posted: it must agree where it touches, and nothing else may
\* have changed.
LEMMA ConvPost ==
    ASSUME TypeOK, Convergence, PostResolved, NEW e \in Events,
           port' = Append(port, e), Base' = Base,
           \A k \in EventKinds, id \in Ids :
               Touches(e, k, id) => Agrees(e.obj, k, id)',
           \A k \in EventKinds, id \in Ids :
               ~ Touches(e, k, id) =>
                   /\ native'[k][id] = native[k][id]
                   /\ <<k, id>> \in announced' => <<k, id>> \in announced
    PROVE  Convergence'
<1>n. PICK n \in Nat : n = Len(port)
    BY DEF TypeOK
<1>1. /\ DOMAIN port = 1 .. n /\ DOMAIN port' = 1 .. n + 1
      /\ port'[n + 1] = e
      /\ \A i \in 1 .. n : port'[i] = port[i]
    BY <1>n DEF TypeOK
<1> SUFFICES ASSUME NEW k \in EventKinds, NEW id \in Ids
             PROVE  /\ \A i \in 1 .. n + 1 : LastWord(i, k, id)'
                           => Agrees(port[i].obj, k, id)'
                    /\ (\A i \in 1 .. n + 1 : ~ Touches(port'[i], k, id))
                           => Agrees(Base[k][id], k, id)'
    BY <1>1 DEF Convergence
<1>2. CASE Touches(e, k, id)
    <2>1. \A i \in 1 .. n : ~ LastWord(i, k, id)'
        BY <1>1, <1>2 DEF LastWord
    <2>2. \A i \in 1 .. n + 1 : i \notin 1 .. n => i = n + 1
        OBVIOUS
    <2>3. Agrees(port[n + 1].obj, k, id)'
        BY <1>1, <1>2
    <2>4. n + 1 \in 1 .. n + 1 /\ Touches(port'[n + 1], k, id)
        BY <1>1, <1>2
    <2> QED BY <2>1, <2>2, <2>3, <2>4
<1>3. CASE ~ Touches(e, k, id)
    <2>1. \A val : Agrees(val, k, id) => Agrees(val, k, id)'
        BY <1>3 DEF Agrees
    <2>2. ~ LastWord(n + 1, k, id)'
        BY <1>1, <1>3 DEF LastWord
    <2>3. \A i \in 1 .. n : LastWord(i, k, id)' => LastWord(i, k, id)
        BY <1>1 DEF LastWord
    <2>4. \A i \in 1 .. n : LastWord(i, k, id)' => Agrees(port[i].obj, k, id)'
        <3>1. SUFFICES ASSUME NEW i \in 1 .. n, LastWord(i, k, id)'
                       PROVE  Agrees(port[i].obj, k, id)'
            OBVIOUS
        <3>2. Agrees(port[i].obj, k, id)
            BY <1>1, <2>3, <3>1 DEF Convergence
        <3> QED BY <1>1, <1>3, <3>2 DEF Agrees
    <2>5. (\A i \in 1 .. n + 1 : ~ Touches(port'[i], k, id))
             => Agrees(Base[k][id], k, id)'
        <3>1. SUFFICES ASSUME \A i \in 1 .. n + 1 : ~ Touches(port'[i], k, id)
                       PROVE  Agrees(Base[k][id], k, id)'
            OBVIOUS
        <3>2. \A i \in 1 .. n : ~ Touches(port[i], k, id)
            BY <1>1, <3>1
        <3>3. Agrees(Base[k][id], k, id)
            BY <1>1, <3>2 DEF Convergence
        <3> QED BY <1>3, <3>3 DEF Agrees
    <2>6. \A i \in 1 .. n + 1 : i \notin 1 .. n => i = n + 1
        OBVIOUS
    <2> QED BY <2>2, <2>4, <2>5, <2>6
<1> QED BY <1>2, <1>3

\* The oldest event is handled.
LEMMA ConvDeliver ==
    ASSUME TypeOK, Convergence, PostResolved, Deliver
    PROVE  Convergence'
<1>n. PICK n \in Nat : n = Len(port)
    BY DEF TypeOK
<1> DEFINE e == Head(port)
<1>1. /\ n >= 1 /\ DOMAIN port = 1 .. n /\ DOMAIN port' = 1 .. n - 1
      /\ e = port[1] /\ e \in Events
      /\ \A i \in 1 .. n - 1 : port'[i] = port[i + 1]
    BY <1>n DEF Deliver, TypeOK
<1>2. /\ Base = graph /\ Base' = graph' /\ graph' = ApplyEvent(graph, e)
      /\ native' = native /\ announced' = announced
    BY DEF Deliver, Base, monitorVars
<1>3. ASSUME NEW k \in EventKinds, NEW id \in Ids
      PROVE  graph'[k][id] = IF Touches(e, k, id) THEN e.obj ELSE graph[k][id]
    <2>1. graph \in [Kinds -> [Ids -> Objects \union {NoObj}]] /\ k \in Kinds
        BY DEF TypeOK, Graphs, ObjectMap, EventKinds, Kinds
    <2>2. e.id \in Ids
        BY <1>1 DEF Events
    <2>3. CASE e.type \in Upserts
        BY <1>2, <2>1, <2>2, <2>3, EventKindType
        DEF ApplyEvent, WithObject, Touches
    <2>4. CASE e.type \in Removals
        <3>1. e.obj = NoObj /\ e.type \notin Upserts
            BY <1>1, <2>4 DEF Events, Upserts, Removals
        <3> QED
            BY <1>2, <2>1, <2>2, <2>4, <3>1, EventKindType
            DEF ApplyEvent, WithoutObject, Touches
    <2>5. CASE e.type \notin Upserts \union Removals
        BY <1>2, <2>5 DEF ApplyEvent, Touches
    <2> QED BY <2>3, <2>4, <2>5
<1> HIDE DEF e
<1> SUFFICES ASSUME NEW k \in EventKinds, NEW id \in Ids
             PROVE  /\ \A i \in 1 .. n - 1 : LastWord(i, k, id)'
                           => Agrees(port[i].obj, k, id)'
                    /\ (\A i \in 1 .. n - 1 : ~ Touches(port'[i], k, id))
                           => Agrees(Base[k][id], k, id)'
    BY <1>1 DEF Convergence
<1>4. ASSUME NEW i \in 1 .. n - 1, LastWord(i, k, id)'
      PROVE  Agrees(port[i].obj, k, id)'
    <2>1. /\ i + 1 \in 1 .. n /\ Touches(port[i + 1], k, id)
          /\ \A j \in 1 .. n - 1 : j > i => ~ Touches(port'[j], k, id)
        BY <1>1, <1>4 DEF LastWord
    <2>2. ASSUME NEW j \in 1 .. n, j > i + 1
          PROVE  ~ Touches(port[j], k, id)
        <3>1. j - 1 \in 1 .. n - 1 /\ j - 1 > i /\ (j - 1) + 1 = j
            BY <2>2
        <3> QED BY <1>1, <2>1, <3>1
    <2>3. LastWord(i + 1, k, id)
        BY <1>1, <2>1, <2>2 DEF LastWord
    <2>4. Agrees(port[i + 1].obj, k, id)
        BY <1>1, <2>1, <2>3 DEF Convergence
    <2> QED BY <1>1, <1>2, <2>4 DEF Agrees
<1>5. ASSUME \A i \in 1 .. n - 1 : ~ Touches(port'[i], k, id)
      PROVE  Agrees(Base[k][id], k, id)'
    <2>1. ASSUME NEW j \in 1 .. n, j # 1 PROVE ~ Touches(port[j], k, id)
        <3>1. j - 1 \in 1 .. n - 1 /\ (j - 1) + 1 = j
            BY <2>1
        <3> QED BY <1>1, <1>5, <3>1
    <2>2. CASE Touches(e, k, id)
        <3>1. LastWord(1, k, id)
            BY <1>1, <2>1, <2>2 DEF LastWord
        <3>2. Agrees(e.obj, k, id)
            BY <1>1, <3>1 DEF Convergence
        <3> QED BY <1>2, <1>3, <2>2, <3>2 DEF Agrees
    <2>3. CASE ~ Touches(e, k, id)
        <3>1. \A j \in 1 .. n : ~ Touches(port[j], k, id)
            BY <1>1, <2>1, <2>3
        <3>2. Agrees(Base[k][id], k, id)
            BY <1>1, <3>1 DEF Convergence
        <3> QED BY <1>2, <1>3, <2>3, <3>2 DEF Agrees
    <2> QED BY <2>2, <2>3
<1> QED BY <1>4, <1>5

\* Initially nothing is posted and the graph is built from the maps as they are.
LEMMA ConvInit == Init => Convergence
<1> SUFFICES ASSUME Init PROVE Convergence
    OBVIOUS
<1>1. DOMAIN port = {} /\ Base = native
    BY DEF Init, MonitorInit, Base
<1> QED BY <1>1 DEF Convergence, Agrees

\* A message is handled.
LEMMA ConvLoop ==
    ASSUME TypeOK, FreshGlobals, OneKindPerId, Convergence, PostResolved, Loop
    PROVE  Convergence'
<1> DEFINE m == Head(wire)
<1>t. /\ native \in [Kinds -> [Ids -> Objects \union {NoObj}]]
      /\ idTypes \in [Ids -> Kinds \union {"none"}]
      /\ EventKinds \subseteq Kinds /\ "none" \notin Kinds
      /\ "device" \notin EventKinds
    BY DEF TypeOK, Graphs, ObjectMap, Kinds, EventKinds
<1>b. Base' = Base
    BY LoopCases DEF Base, dartVars
<1>1. CASE m.op = "global" /\ OnGlobal(m.id, m.gen, m.obj)
    <2> DEFINE id0 == m.id  kind == m.obj.kind
               new == [m.obj EXCEPT !.st = FirstState[kind]]
    <2>1. id0 \in Ids /\ kind \in Kinds
        BY <1>1, LoopCases, MessageOf DEF OnGlobal
    <2>2. \A k \in Kinds : native[k][id0] = NoObj
        BY <1>1, <1>t, <2>1, FreshHead, LoopCases DEF OneKindPerId, Has
    <2>3. /\ native' = [native EXCEPT ![kind] = [@ EXCEPT ![id0] = new]]
          /\ announced' = announced \ {<<kind, id0>>}
          /\ port' = port
        BY <1>1 DEF OnGlobal, WithObject
    <2> HIDE DEF new, kind, id0
    <2>4. ASSUME NEW k \in EventKinds, NEW id \in Ids, NEW val, Agrees(val, k, id)
          PROVE  Agrees(val, k, id)'
        <3>1. CASE k = kind /\ id = id0
            BY <1>t, <2>1, <2>2, <2>3, <2>4, <3>1 DEF Agrees
        <3>2. CASE ~ (k = kind /\ id = id0)
            <4>1. native'[k][id] = native[k][id]
                BY <1>t, <2>1, <2>3, <3>2
            <4> QED BY <2>3, <2>4, <4>1 DEF Agrees
        <3> QED BY <3>1, <3>2
    <2> QED BY <1>b, <2>3, <2>4, ConvKeep
<1>2. CASE m.op = "global_remove" /\ OnGlobalRemove(m.id)
    <2> DEFINE id0 == m.id  kind == idTypes[id0]
    <2>1. id0 \in Ids /\ kind \in Kinds
        BY <1>2, <1>t, LoopCases, MessageOf DEF OnGlobalRemove
    <2>2. /\ native' = [native EXCEPT ![kind] = [@ EXCEPT ![id0] = NoObj]]
          /\ announced' = announced \ {<<kind, id0>>}
        BY <1>2 DEF OnGlobalRemove, WithoutObject
    <2>3. \A k \in EventKinds, id \in Ids : ~ (k = kind /\ id = id0) =>
             /\ native'[k][id] = native[k][id]
             /\ <<k, id>> \in announced' => <<k, id>> \in announced
        BY <1>t, <2>1, <2>2
    <2>4. CASE kind \in EventKinds
        <3> DEFINE removal == Removal(RemovalType[kind], id0)
        <3>0. /\ removal \in Events /\ removal.obj = NoObj
              /\ \A k, id : Touches(removal, k, id) <=> k = kind /\ id = id0
              /\ port' = Append(port, removal)
            <4>1. removal \in Events /\ removal.obj = NoObj
                BY <2>1, <2>4, EventKindType
                DEF Removal, RemovalType, Events, Removals, EventKinds
            <4>2. \A k, id : Touches(removal, k, id) <=> k = kind /\ id = id0
                BY <2>1, <2>4, EventKindType
                DEF Removal, RemovalType, Removals, EventKinds, Touches
            <4> QED BY <1>2, <2>4, <4>1, <4>2 DEF OnGlobalRemove, PostEvent
        <3> HIDE DEF removal
        <3>1. PICK e \in Events : e = removal
            BY <3>0
        <3>2. /\ e.obj = NoObj /\ port' = Append(port, e)
              /\ \A k, id : Touches(e, k, id) <=> k = kind /\ id = id0
            BY <3>0, <3>1
        <3>3. native'[kind][id0] = NoObj
            BY <1>t, <2>1, <2>2
        <3>4. \A k \in EventKinds, id \in Ids :
                 Touches(e, k, id) => Agrees(e.obj, k, id)'
            BY <3>2, <3>3 DEF Agrees
        <3> HIDE DEF kind, id0
        <3> QED BY <1>b, <2>3, <3>2, <3>4, ConvPost
    <2>5. CASE kind \notin EventKinds
        <3>1. port' = port
            BY <1>2, <2>5 DEF OnGlobalRemove
        <3>2. \A k \in EventKinds, id \in Ids, val \in Objects \union {NoObj} :
                 Agrees(val, k, id) => Agrees(val, k, id)'
            BY <2>3, <2>5 DEF Agrees
        <3> QED BY <1>b, <3>1, <3>2, ConvKeep
    <2> QED BY <2>4, <2>5
<1>3. CASE /\ m.op = "info" /\ m.kind \in Kinds
           /\ \E obj \in Objects : InfoEffect(m.kind, m.id, obj)
    <2> DEFINE id0 == m.id  kind == m.kind
    <2>1. PICK obj \in Objects : InfoEffect(kind, id0, obj)
        BY <1>3
    <2>2. id0 \in Ids /\ kind \in Kinds
        BY <1>3, LoopCases, MessageOf
    <2>3. /\ native' = [native EXCEPT ![kind] = [@ EXCEPT ![id0] = obj]]
          /\ announced' = announced \union {<<kind, id0>>}
        BY <2>1 DEF InfoEffect, Enter, WithObject
    <2>4. \A k \in EventKinds, id \in Ids : ~ (k = kind /\ id = id0) =>
             /\ native'[k][id] = native[k][id]
             /\ <<k, id>> \in announced' <=> <<k, id>> \in announced
        BY <1>t, <2>2, <2>3
    <2>5. CASE kind = "device" /\ port' = port
        <3>1. \A k \in EventKinds, id \in Ids, val \in Objects \union {NoObj} :
                 Agrees(val, k, id) => Agrees(val, k, id)'
            BY <1>t, <2>4, <2>5 DEF Agrees
        <3> QED BY <1>b, <2>5, <3>1, ConvKeep
    <2>6. ASSUME NEW type \in Upserts, EventKind[type] = kind,
                 PostEvent(Upsert(type, id0, obj))
          PROVE  Convergence'
        <3> DEFINE upsert == Upsert(type, id0, obj)
        <3>0. /\ upsert \in Events /\ upsert.obj = obj
              /\ \A k, id : Touches(upsert, k, id) <=> k = kind /\ id = id0
              /\ port' = Append(port, upsert)
            BY <2>2, <2>6 DEF Upsert, Events, Touches, PostEvent
        <3> HIDE DEF upsert
        <3>1. PICK e \in Events : e = upsert
            BY <3>0
        <3>2. /\ e.obj = obj /\ port' = Append(port, e)
              /\ \A k, id : Touches(e, k, id) <=> k = kind /\ id = id0
            BY <3>0, <3>1
        <3>3. native'[kind][id0] = obj
            BY <1>t, <2>2, <2>3
        <3>4. \A k \in EventKinds, id \in Ids :
                 Touches(e, k, id) => Agrees(e.obj, k, id)'
            BY <3>2, <3>3 DEF Agrees
        <3> HIDE DEF kind, id0
        <3> QED BY <1>b, <2>4, <3>2, <3>4, ConvPost
    <2> QED BY <2>1, <2>5, <2>6 DEF InfoEffect
<1>4. CASE m.op = "error" /\ OnCoreError(m.id)
    <2> DEFINE e == [type |-> "error", id |-> m.id, obj |-> NoObj]
    <2>1. /\ e \in Events /\ \A k, id : ~ Touches(e, k, id)
        BY <1>4, LoopCases, MessageOf DEF Events, Touches, Upserts, Removals
    <2>2. /\ port' = Append(port, e)
          /\ native' = native /\ announced' = announced
        BY <1>4 DEF OnCoreError, PostEvent, monitorVars
    <2> HIDE DEF e
    <2> QED BY <1>b, <2>1, <2>2, ConvPost
<1>5. CASE UNCHANGED <<monitorVars, requests, port>>
    <2>1. \A k, id, val : Agrees(val, k, id) => Agrees(val, k, id)'
        BY <1>5 DEF Agrees, monitorVars
    <2> QED BY <1>b, <1>5, <2>1, ConvKeep
<1> QED
    BY <1>1, <1>2, <1>3, <1>4, <1>5, LoopCases

\* Every step keeps the graph equal to the maps once the events are handled.
LEMMA ConvInd ==
    TypeOK /\ FreshGlobals /\ OneKindPerId /\ Convergence /\ [Next]_vars
        => Convergence'
<1> SUFFICES ASSUME TypeOK, FreshGlobals, OneKindPerId, Convergence,
                    [Next]_vars, PostResolved
             PROVE  Convergence'
    BY DEF Convergence
<1>1. CASE Loop
    BY <1>1, ConvLoop
<1>2. CASE Deliver
    BY <1>2, ConvDeliver
<1>3. CASE TakeFirstSnapshot \/ TakeSnapshot
    <2>1. /\ Base' = native /\ native' = native
          /\ announced' = announced /\ port' = port
        BY <1>3 DEF TakeFirstSnapshot, TakeSnapshot, Base, monitorVars
    <2>2. \A k, id, val : Agrees(val, k, id)' <=> Agrees(val, k, id)
        BY <2>1 DEF Agrees
    <2>3. \A k \in EventKinds, id \in Ids : Agrees(Base[k][id], k, id)'
        BY <2>1 DEF Agrees
    <2>4. \A i, k, id : LastWord(i, k, id)' <=> LastWord(i, k, id)
        BY <2>1 DEF LastWord
    <2> QED BY <2>1, <2>2, <2>3, <2>4 DEF Convergence
<1>4. CASE UNCHANGED <<native, announced, port>> /\ Base' = Base
    <2>1. \A k, id, val : Agrees(val, k, id) => Agrees(val, k, id)'
        BY <1>4 DEF Agrees
    <2> QED BY <1>4, <2>1, ConvKeep
<1>5. CASE AssignGraph
    BY <1>4, <1>5 DEF AssignGraph, Base, monitorVars
<1>6. CASE FinishConnect
    BY <1>4, <1>6 DEF FinishConnect, Base, monitorVars
<1>7. CASE UNCHANGED <<monitorVars, port, dartVars>>
    BY <1>4, <1>7 DEF Base, monitorVars, dartVars
<1> QED
    BY <1>1, <1>2, <1>3, <1>5, <1>6, <1>7
    DEF Next, Daemon, DaemonAnswer, DaemonAdd, DaemonRemove, DaemonChange,
        DaemonBind, DaemonSync, Connect, Isolate, StartRound1, StartRound2,
        StartRound, vars

\* The inductive invariant.
IndInv == TypeOK /\ FreshGlobals /\ OneKindPerId /\ Convergence

\* The four invariants together are preserved by every step.
LEMMA Inductive == Spec => []IndInv
<1>1. Init => IndInv
    BY TypeInit, FreshInit, KindInit, ConvInit DEF IndInv
<1>2. IndInv /\ [Next]_vars => IndInv'
    BY TypeInd, FreshInd, KindInd, ConvInd DEF IndInv
<1> QED BY <1>1, <1>2, PTL DEF Spec

\* Reused ids never meet: a registry global finds no entry under its id in
\* the monitor (on_global overwrites without looking).
THEOREM Fresh_Globals == Spec => []FreshGlobals
<1>1. IndInv => FreshGlobals
    BY DEF IndInv
<1> QED BY <1>1, Inductive, PTL

\* id_types_, proxies_ and the four maps always agree on which ids are known
\* and as what.
THEOREM One_Kind_Per_Id == Spec => []OneKindPerId
<1>1. IndInv => OneKindPerId
    BY DEF IndInv
<1> QED BY <1>1, Inductive, PTL

\* PwClient's graph is never off course: whatever snapshots and events
\* overlapped, handling what is in flight makes its nodes, ports and links
\* the native ones.
THEOREM Graph_Converges == Spec => []Convergence
<1>1. IndInv => Convergence
    BY DEF IndInv
<1> QED BY <1>1, Inductive, PTL

-----------------------------------------------------------------------------
\* The first snapshot: the two rounds of sync in connect() are enough for it,
\* unless pw_loop_iterate returns an error; then connect() goes on without
\* waiting, and the property is false.

\* The syncs of connect() are numbered by its rounds, and no answer is ahead.
SyncsOfRounds ==
    /\ syncSeq = CASE conn = "registered" -> 0
                   [] conn = "round1" -> 1
                   [] OTHER -> 2
    /\ conn = "registered" => ~ syncDone
    /\ \A i \in DOMAIN requests :
          requests[i].op = "sync" => requests[i].seq <= syncSeq
    /\ \A i \in DOMAIN wire : wire[i].op = "done" => wire[i].seq <= syncSeq

\* An object there since connect() began is the first of its id, and stays.
LastingStays ==
    \A id \in lasting :
        /\ world[id] # NoObj /\ gen[id] = 0
        /\ \A i \in DOMAIN wire : ~ (wire[i].op = "global_remove" /\ wire[i].id = id)

\* Its global is on its way, and the first round waits for it.
GlobalAhead(k, id) ==
    /\ conn \in {"registered", "round1"} /\ ~ syncDone
    /\ \E i \in DOMAIN wire :
          /\ wire[i].op = "global" /\ wire[i].id = id
          /\ wire[i].gen = 0 /\ wire[i].obj.kind = k
          /\ \A j \in DOMAIN wire : j < i => wire[j].op # "done"

\* The second round is not over, nor is its end on its way.
Open == conn = "round1" \/ (conn = "round2" /\ ~ syncDone)

EndsRound2(m) == conn = "round2" /\ m.op \in {"sync", "done"} /\ m.seq = 2

\* Its bind is on its way, and the second round waits for it.
BindAhead(k, id) ==
    /\ Open /\ idTypes[id] = k
    /\ \E i \in DOMAIN requests :
          /\ requests[i].op = "bind" /\ requests[i].id = id /\ requests[i].gen = 0
          /\ \A j \in DOMAIN requests : j < i => ~ EndsRound2(requests[j])
    /\ \A j \in DOMAIN wire : ~ EndsRound2(wire[j])

\* Its info is on its way, and the second round waits for it.
InfoAhead(k, id) ==
    /\ Open /\ idTypes[id] = k
    /\ \E i \in DOMAIN wire :
          /\ wire[i].op = "info" /\ wire[i].id = id /\ wire[i].kind = k
          /\ \A j \in DOMAIN wire : j < i => ~ EndsRound2(wire[j])

\* Its info is in.
InfoIn(k, id) == idTypes[id] = k /\ <<k, id>> \in announced

Awaited(k, id) ==
    GlobalAhead(k, id) \/ BindAhead(k, id) \/ InfoAhead(k, id) \/ InfoIn(k, id)

\* Whatever was there when connect() began is on one of the stages that its
\* two rounds wait for.
FirstInv ==
    /\ SyncsOfRounds
    /\ LastingStays
    /\ \A id \in lasting : world[id].kind \in Kinds => Awaited(world[id].kind, id)

\* The stages end before the PipeWire thread starts.
LEMMA AwaitedWhenUp == TypeOK /\ FirstInv => InitialSnapshotComplete
<1> SUFFICES ASSUME TypeOK, FirstInv, conn = "up", NEW id \in lasting,
                    world[id].kind \in Kinds
             PROVE  <<world[id].kind, id>> \in announced
    BY DEF InitialSnapshotComplete
<1>1. Awaited(world[id].kind, id)
    BY DEF FirstInv
<1> QED
    BY <1>1 DEF Awaited, GlobalAhead, BindAhead, InfoAhead, InfoIn, Open

-----------------------------------------------------------------------------
\* The syncs

\* What tells of a change of the registry.
Told == {"global", "global_remove", "info"}

\* A change of the registry is told by one message at most.
LEMMA DaemonTells ==
    ASSUME Daemon
    PROVE  wire' = wire \/ \E m : wire' = Append(wire, m) /\ m.op \in Told
<1>1. ASSUME NEW entry \in Catalog, DaemonAdd(entry[1], entry[2])
      PROVE  \E m : wire' = Append(wire, m) /\ m.op \in Told
    <2>1. \A g : Global(entry[1], g, entry[2]).op \in Told
        BY DEF Global, Told
    <2> QED BY <1>1, <2>1 DEF DaemonAdd
<1>2. ASSUME NEW id \in Ids, DaemonRemove(id)
      PROVE  \E m : wire' = Append(wire, m) /\ m.op \in Told
    BY <1>2 DEF DaemonRemove, Told
<1>3. ASSUME NEW id \in Ids, NEW newSt \in States,
             NEW newProps \in 0 .. MaxChanges, DaemonChange(id, newSt, newProps)
      PROVE  wire' = wire \/ \E m : wire' = Append(wire, m) /\ m.op \in Told
    <2>1. \A obj, b : Info(id, obj, b).op \in Told
        BY DEF Info, Told
    <2> QED BY <1>3, <2>1 DEF DaemonChange
<1> QED BY <1>1, <1>2, <1>3 DEF Daemon

\* A daemon that answers, a loop that handles an answer and connect() that
\* starts a round keep the numbers of the syncs.
LEMMA SyncsStep == TypeOK /\ SyncsOfRounds /\ [Next]_vars => SyncsOfRounds'
<1> SUFFICES ASSUME TypeOK, SyncsOfRounds, [Next]_vars PROVE SyncsOfRounds'
    OBVIOUS
<1>t. /\ wire \in Seq(Messages) /\ requests \in Seq(Requests)
      /\ conn \in {"registered", "round1", "round2", "up"} /\ syncSeq \in Nat
    BY DEF TypeOK
<1>s. \A i \in DOMAIN requests : requests[i].op = "sync" => requests[i].seq \in Nat
    BY <1>t DEF Requests
<1>d. \A i \in DOMAIN wire : wire[i].op = "done" => wire[i].seq \in Nat
    BY <1>t DEF Messages, Globals, Removes, Infos, Dones, Errors
<1>1. ASSUME NEW m, wire' = Append(wire, m), m.op # "done", requests' = requests,
             UNCHANGED connVars
      PROVE  SyncsOfRounds'
    <2>1. \A i \in DOMAIN wire' : wire'[i] = m \/ \E j \in DOMAIN wire : wire'[i] = wire[j]
        BY <1>1, <1>t
    <2> QED BY <1>1, <2>1 DEF SyncsOfRounds, connVars
<1>2. CASE Daemon
    <2>1. requests' = requests /\ UNCHANGED connVars
        BY <1>2 DEF Daemon, DaemonAdd, DaemonRemove, DaemonChange
    <2>2. wire' = wire \/ \E m : wire' = Append(wire, m) /\ m.op # "done"
        BY <1>2, DaemonTells DEF Told
    <2>3. CASE wire' = wire
        BY <2>1, <2>3 DEF SyncsOfRounds, connVars
    <2> QED BY <1>1, <2>1, <2>2, <2>3
<1>3. CASE DaemonAnswer
    <2> DEFINE r == Head(requests)
    <2>1. requests # <<>> /\ requests' = Tail(requests) /\ UNCHANGED connVars
        BY <1>3 DEF DaemonAnswer, DaemonBind, DaemonSync
    <2>2. r = requests[1] /\ 1 \in DOMAIN requests
        BY <1>t, <2>1
    <2>3. \A i \in DOMAIN requests' : \E j \in DOMAIN requests : requests'[i] = requests[j]
        <3>1. \A i \in DOMAIN requests' : i + 1 \in DOMAIN requests
                                          /\ requests'[i] = requests[i + 1]
            BY <1>t, <2>1
        <3> QED BY <3>1
    <2>4. \E m : /\ wire' = Append(wire, m)
                 /\ m.op = "done" => r.op = "sync" /\ m.seq = r.seq
        <3>1. CASE DaemonBind
            BY <3>1 DEF DaemonBind, Info
        <3>2. CASE DaemonSync
            BY <3>2 DEF DaemonSync
        <3> QED BY <1>3, <3>1, <3>2 DEF DaemonAnswer
    <2>5. PICK m : /\ wire' = Append(wire, m)
                   /\ m.op = "done" => r.op = "sync" /\ m.seq = r.seq
        BY <2>4
    <2>6. \A i \in DOMAIN wire' : wire'[i] = m \/ \E j \in DOMAIN wire : wire'[i] = wire[j]
        BY <1>t, <2>5
    <2> QED BY <2>1, <2>2, <2>3, <2>5, <2>6 DEF SyncsOfRounds, connVars
<1>4. CASE Loop
    <2>1. wire # <<>> /\ wire' = Tail(wire)
        BY <1>4, LoopCases
    <2>2. \A i \in DOMAIN wire' : \E j \in DOMAIN wire : wire'[i] = wire[j]
        <3>1. \A i \in DOMAIN wire' : i + 1 \in DOMAIN wire /\ wire'[i] = wire[i + 1]
            BY <1>t, <2>1
        <3> QED BY <3>1
    <2>3. requests' = requests \/ \E r : requests' = Append(requests, r) /\ r.op = "bind"
        BY <1>4, LoopCases DEF OnGlobal, OnGlobalRemove, InfoEffect, Enter, OnCoreError, monitorVars
    <2>4. \A i \in DOMAIN requests' : \/ requests'[i].op = "bind"
                                      \/ \E j \in DOMAIN requests : requests'[i] = requests[j]
        BY <1>t, <2>3
    <2>5. conn' = conn /\ syncSeq' = syncSeq /\ conn # "registered"
        BY <1>4
        DEF Loop, ReceiveGlobal, ReceiveGlobalRemove, ReceiveInfo, ReceiveDone,
            ReceiveError, Receive, connVars
    <2> QED BY <2>2, <2>4, <2>5 DEF SyncsOfRounds
<1>5. ASSUME NEW next, StartRound(next), syncSeq \in {0, 1},
             next = IF syncSeq = 0 THEN "round1" ELSE "round2"
      PROVE  SyncsOfRounds'
    <2>1. /\ conn' = next /\ syncSeq' = syncSeq + 1 /\ syncDone' = FALSE /\ wire' = wire
          /\ requests' = Append(requests, [op |-> "sync", seq |-> syncSeq + 1])
        BY <1>5 DEF StartRound
    <2>2. \A i \in DOMAIN requests' : \/ requests'[i].seq = syncSeq + 1
                                      \/ \E j \in DOMAIN requests : requests'[i] = requests[j]
        BY <1>t, <2>1
    <2>3. \A i \in DOMAIN requests' :
             requests'[i].op = "sync" => requests'[i].seq <= syncSeq + 1
        BY <1>s, <1>t, <2>2 DEF SyncsOfRounds
    <2>4. \A i \in DOMAIN wire : wire[i].op = "done" => wire[i].seq <= syncSeq + 1
        BY <1>d, <1>t DEF SyncsOfRounds
    <2> QED BY <1>5, <2>1, <2>3, <2>4 DEF SyncsOfRounds
<1>6. CASE StartRound1
    BY <1>5, <1>6 DEF StartRound1, SyncsOfRounds
<1>7. CASE StartRound2
    BY <1>5, <1>7 DEF StartRound2, SyncsOfRounds
<1>8. CASE FinishConnect
    BY <1>8 DEF FinishConnect, SyncsOfRounds
<1>9. CASE UNCHANGED <<wire, requests, connVars>>
    BY <1>9 DEF SyncsOfRounds, connVars
<1> QED
    BY <1>2, <1>3, <1>4, <1>6, <1>7, <1>8, <1>9
    DEF Next, Connect, Isolate, TakeFirstSnapshot, TakeSnapshot, AssignGraph,
        Deliver, vars, monitorVars, daemonVars

-----------------------------------------------------------------------------
\* The objects there since connect() began

\* Messages that do not remove them leave them there.
LEMMA LastingStep ==
    TypeOK /\ LastingStays /\ [Next]_vars =>
        /\ LastingStays'
        /\ \A id \in lasting' : id \in lasting /\ world'[id].kind = world[id].kind
<1> SUFFICES ASSUME TypeOK, LastingStays, [Next]_vars
             PROVE  /\ LastingStays'
                    /\ \A id \in lasting' :
                          id \in lasting /\ world'[id].kind = world[id].kind
    OBVIOUS
<1>t. /\ wire \in Seq(Messages) /\ lasting \subseteq Ids
      /\ world \in [Ids -> Objects \union {NoObj}] /\ gen \in [Ids -> Nat]
    BY DEF TypeOK, ObjectMap
<1>1. ASSUME lasting' \subseteq lasting,
             \A id \in lasting' :
                /\ world'[id] # NoObj /\ world'[id].kind = world[id].kind
                /\ gen'[id] = gen[id],
             \/ wire' = wire
             \/ wire # <<>> /\ wire' = Tail(wire)
             \/ \E m : /\ wire' = Append(wire, m)
                       /\ m.op = "global_remove" => m.id \notin lasting'
      PROVE  /\ LastingStays'
             /\ \A id \in lasting' :
                   id \in lasting /\ world'[id].kind = world[id].kind
    <2>1. CASE wire' = wire
        BY <1>1, <2>1 DEF LastingStays
    <2>2. CASE wire # <<>> /\ wire' = Tail(wire)
        <3>1. \A i \in DOMAIN wire' : i + 1 \in DOMAIN wire /\ wire'[i] = wire[i + 1]
            BY <1>t, <2>2
        <3> QED BY <1>1, <3>1 DEF LastingStays
    <2>3. CASE \E m : /\ wire' = Append(wire, m)
                      /\ m.op = "global_remove" => m.id \notin lasting'
        <3>1. PICK m : /\ wire' = Append(wire, m)
                       /\ m.op = "global_remove" => m.id \notin lasting'
            BY <2>3
        <3>2. \A i \in DOMAIN wire' : wire'[i] = m \/ \E j \in DOMAIN wire : wire'[i] = wire[j]
            BY <1>t, <3>1
        <3> QED BY <1>1, <3>1, <3>2 DEF LastingStays
    <2> QED BY <1>1, <2>1, <2>2, <2>3
<1>2. ASSUME NEW entry \in Catalog, DaemonAdd(entry[1], entry[2])
      PROVE  /\ LastingStays'
             /\ \A id \in lasting' :
                   id \in lasting /\ world'[id].kind = world[id].kind
    <2> DEFINE id0 == entry[1]  m == Global(id0, gen[id0] + 1, entry[2])
    <2>1. id0 \in Ids
        BY ConstantsAssumption
    <2>2. /\ world[id0] = NoObj /\ lasting' = lasting
          /\ world' = [world EXCEPT ![id0] = entry[2]]
          /\ gen' = [gen EXCEPT ![id0] = @ + 1]
          /\ wire' = Append(wire, m)
        BY <1>2 DEF DaemonAdd
    <2>3. m.op = "global"
        BY DEF Global
    <2>4. id0 \notin lasting
        BY <2>2 DEF LastingStays
    <2> HIDE DEF m, id0
    <2>5. \A id \in lasting : world'[id] = world[id] /\ gen'[id] = gen[id]
        BY <1>t, <2>2, <2>4
    <2> QED BY <1>1, <2>2, <2>3, <2>5 DEF LastingStays
<1>3. ASSUME NEW id0 \in Ids, DaemonRemove(id0)
      PROVE  /\ LastingStays'
             /\ \A id \in lasting' :
                   id \in lasting /\ world'[id].kind = world[id].kind
    <2> DEFINE m == [op |-> "global_remove", id |-> id0]
    <2>1. /\ lasting' = lasting \ {id0} /\ gen' = gen
          /\ world' = [world EXCEPT ![id0] = NoObj]
          /\ wire' = Append(wire, m) /\ m.id = id0
        BY <1>3 DEF DaemonRemove
    <2>2. \A id \in lasting' : world'[id] = world[id]
        BY <1>t, <2>1
    <2> HIDE DEF m
    <2> QED BY <1>1, <2>1, <2>2 DEF LastingStays
<1>4. ASSUME NEW id0 \in Ids, NEW newSt \in States,
             NEW newProps \in 0 .. MaxChanges, DaemonChange(id0, newSt, newProps)
      PROVE  /\ LastingStays'
             /\ \A id \in lasting' :
                   id \in lasting /\ world'[id].kind = world[id].kind
    <2> DEFINE new == [world[id0] EXCEPT !.st = newSt, !.props = newProps]
    <2>1. world[id0] \in Objects /\ newProps \in Nat
        BY <1>4, <1>t, ConstantsAssumption DEF DaemonChange
    <2>2. new \in Objects /\ new.kind = world[id0].kind
        BY <2>1 DEF Objects
    <2>3. /\ lasting' = lasting /\ gen' = gen /\ world' = [world EXCEPT ![id0] = new]
          /\ \/ wire' = wire
             \/ \E b \in BOOLEAN : wire' = Append(wire, Info(id0, new, b))
        BY <1>4 DEF DaemonChange
    <2>4. \A b \in BOOLEAN : Info(id0, new, b).op = "info"
        BY DEF Info
    <2> HIDE DEF new
    <2>5. \A id \in lasting : world'[id] # NoObj /\ world'[id].kind = world[id].kind
        BY <1>t, <2>2, <2>3, NoObjAssumption DEF LastingStays
    <2> QED BY <1>1, <2>3, <2>4, <2>5
<1>5. CASE DaemonAnswer
    <2>1. UNCHANGED <<world, gen, lasting>>
        BY <1>5 DEF DaemonAnswer, DaemonBind, DaemonSync, daemonVars
    <2>2. \E m : wire' = Append(wire, m) /\ m.op # "global_remove"
        <3>1. CASE DaemonBind
            BY <3>1 DEF DaemonBind, Info
        <3>2. CASE DaemonSync
            BY <3>2 DEF DaemonSync
        <3> QED BY <1>5, <3>1, <3>2 DEF DaemonAnswer
    <2> QED BY <1>1, <2>1, <2>2 DEF LastingStays
<1>6. CASE Loop
    <2>1. UNCHANGED <<world, gen, lasting>> /\ wire # <<>> /\ wire' = Tail(wire)
        BY <1>6, LoopCases DEF daemonVars
    <2> QED BY <1>1, <2>1 DEF LastingStays
<1>7. CASE UNCHANGED <<wire, world, gen, lasting>>
    BY <1>1, <1>7 DEF LastingStays
<1> QED
    BY <1>2, <1>3, <1>4, <1>5, <1>6, <1>7
    DEF Next, Daemon, Connect, Isolate, StartRound1, StartRound2, StartRound,
        FinishConnect, TakeFirstSnapshot, TakeSnapshot, AssignGraph, Deliver,
        vars, daemonVars

-----------------------------------------------------------------------------
\* The stages

\* More on the wire is behind what is awaited.
LEMMA AwaitedSent ==
    ASSUME TypeOK, NEW k, NEW id, Awaited(k, id),
           NEW m, wire' = Append(wire, m), ~ EndsRound2(m),
           UNCHANGED <<requests, idTypes, announced, conn, syncDone>>
    PROVE  Awaited(k, id)'
<1>n. PICK n \in Nat : n = Len(wire)
    BY DEF TypeOK
<1>1. /\ DOMAIN wire = 1 .. n /\ DOMAIN wire' = 1 .. n + 1
      /\ wire'[n + 1] = m /\ \A i \in 1 .. n : wire'[i] = wire[i]
    BY <1>n DEF TypeOK
<1>2. \A x : EndsRound2(x)' <=> EndsRound2(x)
    BY DEF EndsRound2
<1>3. \A i \in 1 .. n, j \in 1 .. n + 1 : j < i => j \in 1 .. n
    OBVIOUS
<1>4. 1 .. n + 1 = 1 .. n \union {n + 1}
    OBVIOUS
<1>5. CASE GlobalAhead(k, id)
    <2>1. GlobalAhead(k, id)'
        BY <1>1, <1>3, <1>4, <1>5 DEF GlobalAhead
    <2> QED BY <2>1 DEF Awaited
<1>6. CASE BindAhead(k, id)
    <2>1. \A j \in DOMAIN wire' : ~ EndsRound2(wire'[j])
        BY <1>1, <1>4, <1>6 DEF BindAhead
    <2>2. BindAhead(k, id)'
        BY <1>2, <1>6, <2>1 DEF BindAhead, Open, EndsRound2
    <2> QED BY <2>2 DEF Awaited
<1>7. CASE InfoAhead(k, id)
    <2>1. InfoAhead(k, id)'
        BY <1>1, <1>2, <1>3, <1>4, <1>7 DEF InfoAhead, Open, EndsRound2
    <2> QED BY <2>1 DEF Awaited
<1>8. CASE InfoIn(k, id)
    BY <1>8 DEF InfoIn, Awaited
<1> QED BY <1>5, <1>6, <1>7, <1>8 DEF Awaited

\* The daemon takes a request: a bind that is awaited becomes an info that is.
LEMMA AwaitedAnswered ==
    ASSUME TypeOK, NEW k, NEW id, Awaited(k, id), requests # <<>>,
           requests' = Tail(requests), NEW m, wire' = Append(wire, m),
           \/ Head(requests).op = "sync" /\ m.op = "done" /\ m.seq = Head(requests).seq
           \/ /\ Head(requests).op = "bind" /\ m.op \in {"info", "error"}
              /\ Head(requests).id = id /\ Head(requests).gen = 0 =>
                    m.op = "info" /\ m.id = id /\ m.kind = k,
           UNCHANGED <<idTypes, announced, conn, syncDone>>
    PROVE  Awaited(k, id)'
<1>n. PICK n \in Nat : n = Len(wire)
    BY DEF TypeOK
<1>q. PICK q \in Nat : q = Len(requests)
    BY DEF TypeOK
<1> DEFINE r == Head(requests)
<1>1. /\ DOMAIN wire = 1 .. n /\ DOMAIN wire' = 1 .. n + 1
      /\ wire'[n + 1] = m /\ \A i \in 1 .. n : wire'[i] = wire[i]
    BY <1>n DEF TypeOK
<1>2. /\ q >= 1 /\ DOMAIN requests = 1 .. q /\ DOMAIN requests' = 1 .. q - 1
      /\ r = requests[1] /\ \A i \in 1 .. q - 1 : requests'[i] = requests[i + 1]
    BY <1>q DEF TypeOK
<1> HIDE DEF r
<1>3. \A x : EndsRound2(x)' <=> EndsRound2(x)
    BY DEF EndsRound2
<1>4. \A i \in 1 .. n, j \in 1 .. n + 1 : j < i => j \in 1 .. n
    OBVIOUS
<1>5. 1 .. n + 1 = 1 .. n \union {n + 1}
    OBVIOUS
<1>6. CASE GlobalAhead(k, id)
    <2>1. GlobalAhead(k, id)'
        BY <1>1, <1>4, <1>5, <1>6 DEF GlobalAhead
    <2> QED BY <2>1 DEF Awaited
<1>7. CASE BindAhead(k, id)
    <2>1. PICK i \in 1 .. q :
             /\ requests[i].op = "bind" /\ requests[i].id = id /\ requests[i].gen = 0
             /\ \A j \in 1 .. q : j < i => ~ EndsRound2(requests[j])
        BY <1>2, <1>7 DEF BindAhead
    <2>2. CASE i = 1
        <3>1. m.op = "info" /\ m.id = id /\ m.kind = k
            BY <1>2, <2>1, <2>2 DEF r
        <3>2. n + 1 \in DOMAIN wire'
            BY <1>1
        <3>3. \A j \in DOMAIN wire' : j < n + 1 => ~ EndsRound2(wire'[j])
            BY <1>1, <1>7 DEF BindAhead
        <3>4. Open /\ idTypes[id] = k
            BY <1>7 DEF BindAhead
        <3>5. InfoAhead(k, id)'
            BY <1>1, <1>3, <3>1, <3>2, <3>3, <3>4 DEF InfoAhead, Open, EndsRound2
        <3> QED BY <3>5 DEF Awaited
    <2>3. CASE i # 1
        <3>1. i - 1 \in 1 .. q - 1 /\ (i - 1) + 1 = i
            BY <2>3
        <3>2. requests'[i - 1] = requests[i]
            BY <1>2, <3>1
        <3>3. ASSUME NEW j \in 1 .. q - 1, j < i - 1 PROVE ~ EndsRound2(requests'[j])
            <4>1. j + 1 \in 1 .. q /\ j + 1 < i
                BY <3>3
            <4> QED BY <1>2, <2>1, <4>1
        <3>4. ~ EndsRound2(r)
            <4>1. 1 \in 1 .. q /\ 1 < i
                BY <1>2, <2>3
            <4> QED BY <1>2, <2>1, <4>1
        <3>5. ~ EndsRound2(m)
            BY <3>4 DEF EndsRound2, r
        <3>6. \A j \in DOMAIN wire' : ~ EndsRound2(wire'[j])
            BY <1>1, <1>5, <1>7, <3>5 DEF BindAhead
        <3>7. Open /\ idTypes[id] = k
            BY <1>7 DEF BindAhead
        <3>8. Open'
            BY <3>7 DEF Open
        <3>9. BindAhead(k, id)'
            BY <1>2, <1>3, <2>1, <3>1, <3>2, <3>3, <3>6, <3>7, <3>8 DEF BindAhead
        <3> QED BY <3>9 DEF Awaited
    <2> QED BY <2>2, <2>3
<1>8. CASE InfoAhead(k, id)
    <2>1. InfoAhead(k, id)'
        BY <1>1, <1>3, <1>4, <1>5, <1>8 DEF InfoAhead, Open, EndsRound2
    <2> QED BY <2>1 DEF Awaited
<1>9. CASE InfoIn(k, id)
    BY <1>9 DEF InfoIn, Awaited
<1> QED BY <1>6, <1>7, <1>8, <1>9 DEF Awaited

\* A handler keeps what is known of an object that is not removed.
LEMMA KnownHandled ==
    ASSUME TypeOK, FreshGlobals, Loop, NEW k \in Kinds, NEW id \in Ids,
           ~ (Head(wire).op = "global_remove" /\ Head(wire).id = id),
           idTypes[id] = k
    PROVE  idTypes'[id] = k /\ (<<k, id>> \in announced => <<k, id>> \in announced')
<1> DEFINE m == Head(wire)
<1>t. /\ idTypes \in [Ids -> Kinds \union {"none"}] /\ "none" \notin Kinds
    BY DEF TypeOK, Kinds
<1>0. m \in Messages /\ wire # <<>>
    BY LoopCases
<1>1. CASE m.op = "global" /\ OnGlobal(m.id, m.gen, m.obj)
    <2>1. idTypes[m.id] = "none" /\ m.id \in Ids
        BY <1>0, <1>1, FreshHead, MessageOf
    <2>2. /\ idTypes' = [idTypes EXCEPT ![m.id] = m.obj.kind]
          /\ announced' = announced \ {<<m.obj.kind, m.id>>}
        BY <1>1 DEF OnGlobal
    <2>3. m.id # id
        BY <1>t, <2>1
    <2> QED BY <1>t, <2>1, <2>2, <2>3
<1>2. CASE m.op = "global_remove" /\ OnGlobalRemove(m.id)
    <2>1. m.id # id /\ m.id \in Ids
        BY <1>0, <1>2, MessageOf
    <2>2. /\ idTypes' = [idTypes EXCEPT ![m.id] = "none"]
          /\ announced' = announced \ {<<idTypes[m.id], m.id>>}
        BY <1>2 DEF OnGlobalRemove
    <2> QED BY <1>t, <2>1, <2>2
<1>3. CASE \E obj \in Objects : InfoEffect(m.kind, m.id, obj)
    BY <1>3 DEF InfoEffect, Enter
<1>4. CASE OnCoreError(m.id)
    BY <1>4 DEF OnCoreError, monitorVars
<1>5. CASE UNCHANGED monitorVars
    BY <1>5 DEF monitorVars
<1> QED
    BY <1>1, <1>2, <1>3, <1>4, <1>5, LoopCases

\* The global of an object of a known kind has it bound.
LEMMA GlobalHandled ==
    ASSUME TypeOK, Loop, Head(wire).op = "global", Head(wire).obj.kind \in Kinds
    PROVE  /\ idTypes'[Head(wire).id] = Head(wire).obj.kind
           /\ requests' = Append(requests, [op |-> "bind", id |-> Head(wire).id,
                                            gen |-> Head(wire).gen])
<1> DEFINE m == Head(wire)
<1>1. OnGlobal(m.id, m.gen, m.obj) /\ m.id \in Ids
    BY LoopCases, MessageOf
<1>2. idTypes \in [Ids -> Kinds \union {"none"}]
    BY DEF TypeOK
<1> QED BY <1>1, <1>2 DEF OnGlobal

\* An info of an object that is known is applied.
LEMMA InfoHandled ==
    ASSUME TypeOK, OneKindPerId, Loop, Head(wire).op = "info",
           Head(wire).kind \in Kinds, Head(wire).id \in Ids,
           idTypes[Head(wire).id] = Head(wire).kind
    PROVE  <<Head(wire).kind, Head(wire).id>> \in announced'
<1> DEFINE m == Head(wire)
<1>1. ReceiveInfo
    BY DEF Loop, Receive, ReceiveGlobal, ReceiveGlobalRemove, ReceiveDone,
           ReceiveError
<1>2. m.id \in proxies /\ Has(native, m.kind, m.id)
    BY DEF OneKindPerId, Kinds
<1>3. \/ OnNodeInfo(m.id, m) /\ m.kind = "node"
      \/ OnPortInfo(m.id, m) /\ m.kind = "port"
      \/ OnLinkInfo(m.id, m) /\ m.kind = "link"
      \/ OnDeviceInfo(m.id, m) /\ m.kind = "device"
    BY <1>1, <1>2 DEF ReceiveInfo, OnStaleInfo
<1> QED
    BY <1>3 DEF OnNodeInfo, OnPortInfo, OnLinkInfo, OnDeviceInfo, Enter

\* A handler sends one request at most.
LEMMA OneRequest ==
    ASSUME TypeOK, Loop
    PROVE  requests' = requests \/ \E r : requests' = Append(requests, r)
<1> DEFINE m == Head(wire)
<1>1. CASE OnGlobal(m.id, m.gen, m.obj)
    BY <1>1 DEF OnGlobal
<1>2. CASE OnGlobalRemove(m.id)
    BY <1>2 DEF OnGlobalRemove
<1>3. CASE \E obj \in Objects : InfoEffect(m.kind, m.id, obj)
    BY <1>3 DEF InfoEffect, Enter
<1>4. CASE OnCoreError(m.id)
    BY <1>4 DEF OnCoreError, monitorVars
<1>5. CASE UNCHANGED <<monitorVars, requests, port>>
    BY <1>5
<1> QED
    BY <1>1, <1>2, <1>3, <1>4, <1>5, LoopCases

\* How the answer to the sync of a round ends it.
LEMMA DoneSeen ==
    ASSUME Loop
    PROVE  /\ conn' = conn /\ syncSeq' = syncSeq /\ conn # "registered"
           /\ \/ syncDone' = syncDone
              \/ /\ Head(wire).op = "done"
                 /\ syncDone' = (syncDone \/ Head(wire).seq = syncSeq)
BY DEF Loop, ReceiveGlobal, ReceiveGlobalRemove, ReceiveInfo, ReceiveDone,
       ReceiveError, Receive, connVars

\* The client handles a message: what was awaited is, or its next stage is.
LEMMA AwaitedHandled ==
    ASSUME TypeOK, FreshGlobals, OneKindPerId, SyncsOfRounds, Loop,
           NEW k \in Kinds, NEW id \in Ids, Awaited(k, id),
           ~ (Head(wire).op = "global_remove" /\ Head(wire).id = id)
    PROVE  Awaited(k, id)'
<1> DEFINE m == Head(wire)
<1>n. PICK n \in Nat : n = Len(wire)
    BY DEF TypeOK
<1>q. PICK q \in Nat : q = Len(requests)
    BY DEF TypeOK
<1>0. wire # <<>> /\ wire' = Tail(wire)
    BY LoopCases
<1>1. /\ n >= 1 /\ DOMAIN wire = 1 .. n /\ DOMAIN wire' = 1 .. n - 1
      /\ m = wire[1] /\ \A i \in 1 .. n - 1 : wire'[i] = wire[i + 1]
    BY <1>0, <1>n DEF TypeOK
<1>2. /\ DOMAIN requests = 1 .. q /\ DOMAIN requests \subseteq DOMAIN requests'
      /\ \A i \in 1 .. q : requests'[i] = requests[i]
      /\ \A i \in DOMAIN requests' : i \in 1 .. q \/ i = q + 1
    <2>1. CASE requests' = requests
        BY <1>q, <2>1 DEF TypeOK
    <2>2. ASSUME NEW r, requests' = Append(requests, r)
          PROVE  /\ DOMAIN requests' = 1 .. q + 1 /\ DOMAIN requests = 1 .. q
                 /\ \A i \in 1 .. q : requests'[i] = requests[i]
        BY <1>q, <2>2 DEF TypeOK
    <2>3. \A i \in 1 .. q + 1 : i \in 1 .. q \/ i = q + 1
        OBVIOUS
    <2>4. 1 .. q \subseteq 1 .. q + 1
        OBVIOUS
    <2> QED BY <2>1, <2>2, <2>3, <2>4, OneRequest
<1>3. \A x : EndsRound2(x)' <=> EndsRound2(x)
    BY DoneSeen DEF EndsRound2
<1>4. ASSUME ~ EndsRound2(m), Open PROVE Open'
    BY <1>4, DoneSeen DEF Open, EndsRound2, SyncsOfRounds
<1> HIDE DEF m
<1>5. CASE GlobalAhead(k, id)
    <2>1. PICK i \in 1 .. n :
             /\ wire[i].op = "global" /\ wire[i].id = id
             /\ wire[i].gen = 0 /\ wire[i].obj.kind = k
             /\ \A j \in 1 .. n : j < i => wire[j].op # "done"
        BY <1>1, <1>5 DEF GlobalAhead
    <2>2. CASE i = 1
        <3> DEFINE r == [op |-> "bind", id |-> id, gen |-> 0]
        <3>1. idTypes'[id] = k /\ requests' = Append(requests, r)
            BY <1>1, <2>1, <2>2, GlobalHandled DEF m
        <3>2. conn = "round1" /\ conn' = "round1"
            BY <1>5, DoneSeen DEF GlobalAhead
        <3>3. q + 1 \in DOMAIN requests' /\ requests'[q + 1] = r
            BY <1>q, <3>1 DEF TypeOK
        <3>4. BindAhead(k, id)'
            BY <3>1, <3>2, <3>3 DEF BindAhead, Open, EndsRound2
        <3> QED BY <3>4 DEF Awaited
    <2>3. CASE i # 1
        <3>1. i - 1 \in 1 .. n - 1 /\ (i - 1) + 1 = i /\ 1 < i /\ 1 \in 1 .. n
            BY <2>3
        <3>2. ASSUME NEW j \in 1 .. n - 1, j < i - 1 PROVE wire'[j].op # "done"
            <4>1. j + 1 \in 1 .. n /\ j + 1 < i
                BY <3>2
            <4> QED BY <1>1, <2>1, <4>1
        <3>3. wire'[i - 1] = wire[i] /\ m.op # "done"
            BY <1>1, <2>1, <3>1
        <3>4. conn' = conn /\ syncDone' = syncDone
            BY <3>3, DoneSeen DEF m
        <3>5. GlobalAhead(k, id)'
            BY <1>1, <1>5, <2>1, <3>1, <3>2, <3>3, <3>4 DEF GlobalAhead
        <3> QED BY <3>5 DEF Awaited
    <2> QED BY <2>2, <2>3
<1>6. CASE BindAhead(k, id)
    <2>1. PICK i \in 1 .. q :
             /\ requests[i].op = "bind" /\ requests[i].id = id /\ requests[i].gen = 0
             /\ \A j \in 1 .. q : j < i => ~ EndsRound2(requests[j])
        BY <1>2, <1>6 DEF BindAhead
    <2>2. \A j \in DOMAIN requests' : j < i => ~ EndsRound2(requests'[j])
        <3>1. \A j \in DOMAIN requests' : j < i => j \in 1 .. q
            BY <1>2
        <3> QED BY <1>2, <2>1, <3>1
    <2>3. ~ EndsRound2(m) /\ \A j \in DOMAIN wire' : ~ EndsRound2(wire'[j])
        <3>1. \A j \in 1 .. n - 1 : j + 1 \in 1 .. n
            OBVIOUS
        <3>2. 1 \in 1 .. n
            BY <1>1
        <3> QED BY <1>1, <1>6, <3>1, <3>2 DEF BindAhead
    <2>4. Open' /\ idTypes'[id] = k
        BY <1>4, <1>6, <2>3, KnownHandled DEF BindAhead
    <2>5. BindAhead(k, id)'
        BY <1>2, <1>3, <2>1, <2>2, <2>3, <2>4 DEF BindAhead
    <2> QED BY <2>5 DEF Awaited
<1>7. CASE InfoAhead(k, id)
    <2>1. PICK i \in 1 .. n :
             /\ wire[i].op = "info" /\ wire[i].id = id /\ wire[i].kind = k
             /\ \A j \in 1 .. n : j < i => ~ EndsRound2(wire[j])
        BY <1>1, <1>7 DEF InfoAhead
    <2>2. CASE i = 1
        <3>1. m.op = "info" /\ m.id = id /\ m.kind = k /\ idTypes[id] = k
            BY <1>1, <1>7, <2>1, <2>2 DEF InfoAhead
        <3>2. idTypes'[id] = k /\ <<k, id>> \in announced'
            BY <3>1, InfoHandled, KnownHandled DEF m
        <3> QED BY <3>2 DEF InfoIn, Awaited
    <2>3. CASE i # 1
        <3>1. i - 1 \in 1 .. n - 1 /\ (i - 1) + 1 = i /\ 1 < i /\ 1 \in 1 .. n
            BY <2>3
        <3>2. ASSUME NEW j \in 1 .. n - 1, j < i - 1 PROVE ~ EndsRound2(wire'[j])
            <4>1. j + 1 \in 1 .. n /\ j + 1 < i
                BY <3>2
            <4> QED BY <1>1, <2>1, <4>1
        <3>3. wire'[i - 1] = wire[i] /\ ~ EndsRound2(m)
            BY <1>1, <2>1, <3>1
        <3>4. Open' /\ idTypes'[id] = k
            BY <1>4, <1>7, <3>3, KnownHandled DEF InfoAhead
        <3>5. InfoAhead(k, id)'
            BY <1>1, <1>3, <2>1, <3>1, <3>2, <3>3, <3>4 DEF InfoAhead
        <3> QED BY <3>5 DEF Awaited
    <2> QED BY <2>2, <2>3
<1>8. CASE InfoIn(k, id)
    BY <1>8, KnownHandled DEF InfoIn, Awaited
<1> QED BY <1>5, <1>6, <1>7, <1>8 DEF Awaited

\* A round starts behind what is awaited, and ends when nothing is.
LEMMA AwaitedConnect ==
    ASSUME ~ IterateFails, TypeOK, SyncsOfRounds, Connect,
           NEW k, NEW id, Awaited(k, id)
    PROVE  Awaited(k, id)'
<1>1. CASE StartRound1
    <2>1. /\ conn = "registered" /\ conn' = "round1" /\ syncDone' = FALSE
          /\ UNCHANGED <<wire, idTypes, announced>>
        BY <1>1 DEF StartRound1, StartRound, monitorVars
    <2>2. ~ Open
        BY <2>1 DEF Open
    <2>3. GlobalAhead(k, id) => GlobalAhead(k, id)'
        BY <2>1 DEF GlobalAhead
    <2>4. InfoIn(k, id) => InfoIn(k, id)'
        BY <2>1 DEF InfoIn
    <2> QED BY <2>2, <2>3, <2>4 DEF Awaited, BindAhead, InfoAhead
<1>2. CASE StartRound2
    <2>1. /\ conn = "round1" /\ conn' = "round2" /\ syncDone /\ syncDone' = FALSE
          /\ UNCHANGED <<wire, idTypes, announced>> /\ syncSeq = 1
          /\ requests' = Append(requests, [op |-> "sync", seq |-> 2])
        BY <1>2 DEF StartRound2, RoundOver, StartRound, monitorVars, SyncsOfRounds
    <2>2. ~ GlobalAhead(k, id) /\ Open'
        BY <2>1 DEF GlobalAhead, Open
    <2>3. InfoIn(k, id) => InfoIn(k, id)'
        BY <2>1 DEF InfoIn
    <2>q. PICK q \in Nat : q = Len(requests)
        BY DEF TypeOK
    <2>4. /\ DOMAIN requests = 1 .. q /\ DOMAIN requests' = 1 .. q + 1
          /\ \A i \in 1 .. q : requests'[i] = requests[i]
        BY <2>1, <2>q DEF TypeOK
    <2>5. \A i \in DOMAIN requests : ~ EndsRound2(requests[i])'
        <3>1. \A i \in DOMAIN requests : ~ (requests[i].op = "sync" /\ requests[i].seq = 2)
                                         /\ requests[i].op # "done"
            BY <2>1 DEF SyncsOfRounds, TypeOK, Requests
        <3> QED BY <2>4, <3>1 DEF EndsRound2
    <2>6. \A i \in DOMAIN wire : ~ EndsRound2(wire[i])'
        <3>1. \A i \in DOMAIN wire : ~ (wire[i].op = "done" /\ wire[i].seq = 2)
                                         /\ wire[i].op # "sync"
            BY <2>1
            DEF SyncsOfRounds, TypeOK, Messages, Globals, Removes, Infos, Dones, Errors
        <3> QED BY <2>1, <3>1 DEF EndsRound2
    <2>7. BindAhead(k, id) => BindAhead(k, id)'
        <3>1. \A i \in 1 .. q, j \in 1 .. q + 1 : j < i => j \in 1 .. q
            OBVIOUS
        <3>2. \A j \in 1 .. q : j \in 1 .. q + 1
            OBVIOUS
        <3> QED BY <2>1, <2>2, <2>4, <2>5, <2>6, <3>1, <3>2 DEF BindAhead
    <2>8. InfoAhead(k, id) => InfoAhead(k, id)'
        BY <2>1, <2>2, <2>6 DEF InfoAhead
    <2> QED BY <2>2, <2>3, <2>7, <2>8 DEF Awaited
<1>3. CASE FinishConnect
    <2>1. /\ conn = "round2" /\ syncDone /\ UNCHANGED <<idTypes, announced>>
        BY <1>3 DEF FinishConnect, RoundOver, monitorVars
    <2> QED
        BY <2>1 DEF Awaited, GlobalAhead, BindAhead, InfoAhead, InfoIn, Open
<1> QED BY <1>1, <1>2, <1>3 DEF Connect

\* Every step but a failing wait moves what is awaited to its next stage, if
\* at all.
LEMMA FirstStep ==
    ASSUME ~ IterateFails
    PROVE  TypeOK /\ FreshGlobals /\ OneKindPerId /\ FirstInv /\ [Next]_vars
               => FirstInv'
<1> SUFFICES ASSUME TypeOK, FreshGlobals, OneKindPerId, FirstInv, [Next]_vars
             PROVE  FirstInv'
    OBVIOUS
<1>1. /\ SyncsOfRounds /\ SyncsOfRounds' /\ LastingStays /\ LastingStays'
      /\ \A id \in lasting' : id \in lasting /\ world'[id].kind = world[id].kind
    BY SyncsStep, LastingStep DEF FirstInv
<1> SUFFICES ASSUME NEW id \in lasting', world[id].kind \in Kinds
             PROVE  Awaited(world[id].kind, id)'
    BY <1>1 DEF FirstInv
<1>2. PICK k \in Kinds : k = world[id].kind /\ k = world'[id].kind
    BY <1>1
<1>3. id \in lasting /\ id \in Ids /\ Awaited(k, id)
    BY <1>1, <1>2 DEF FirstInv, TypeOK
<1> SUFFICES Awaited(k, id)'
    BY <1>2
<1>4. CASE Daemon
    <2>1. UNCHANGED <<requests, idTypes, announced, conn, syncDone>>
        BY <1>4
        DEF Daemon, DaemonAdd, DaemonRemove, DaemonChange, monitorVars, connVars
    <2>2. CASE wire' = wire
        BY <1>3, <2>1, <2>2
        DEF Awaited, GlobalAhead, BindAhead, InfoAhead, InfoIn, Open, EndsRound2
    <2>3. CASE \E m : wire' = Append(wire, m) /\ m.op \in Told
        <3>1. PICK m : wire' = Append(wire, m) /\ m.op \in Told
            BY <2>3
        <3>2. ~ EndsRound2(m)
            BY <3>1 DEF Told, EndsRound2
        <3> QED BY <1>3, <2>1, <3>1, <3>2, AwaitedSent
    <2> QED BY <1>4, <2>2, <2>3, DaemonTells
<1>5. CASE DaemonAnswer
    <2> DEFINE r == Head(requests)
    <2>1. /\ UNCHANGED <<idTypes, announced, conn, syncDone>>
          /\ requests # <<>> /\ requests' = Tail(requests)
        BY <1>5 DEF DaemonAnswer, DaemonBind, DaemonSync, monitorVars, connVars
    <2>2. world[id] # NoObj /\ gen[id] = 0
        BY <1>1, <1>3 DEF LastingStays
    <2>3. CASE DaemonBind
        <3>1. CASE world[r.id] # NoObj /\ gen[r.id] = r.gen
            <4> DEFINE m == Info(r.id, world[r.id], TRUE)
            <4>1. /\ wire' = Append(wire, m) /\ r.op = "bind"
                  /\ m.op = "info" /\ m.id = r.id /\ m.kind = world[r.id].kind
                BY <2>3, <3>1 DEF DaemonBind, Info
            <4> HIDE DEF m
            <4>2. r.id = id => m.id = id /\ m.kind = k
                BY <1>2, <4>1
            <4>3. r.op = "bind" /\ m.op = "info" /\ wire' = Append(wire, m)
                BY <4>1
            <4> QED BY <1>3, <2>1, <4>2, <4>3, AwaitedAnswered
        <3>2. CASE ~ (world[r.id] # NoObj /\ gen[r.id] = r.gen)
            <4>1. r.id = id => r.gen # 0
                BY <2>2, <3>2
            <4>2. /\ wire' = Append(wire, [op |-> "error", id |-> r.id])
                  /\ r.op = "bind"
                BY <2>3, <3>2 DEF DaemonBind
            <4> QED BY <1>3, <2>1, <4>1, <4>2, AwaitedAnswered
        <3> QED BY <3>1, <3>2
    <2>4. CASE DaemonSync
        <3>1. /\ wire' = Append(wire, [op |-> "done", seq |-> r.seq])
              /\ r.op = "sync"
            BY <2>4 DEF DaemonSync
        <3> QED BY <1>3, <2>1, <3>1, AwaitedAnswered
    <2> QED BY <1>5, <2>3, <2>4 DEF DaemonAnswer
<1>6. CASE Loop
    <2>1. Head(wire) = wire[1] /\ 1 \in DOMAIN wire
        BY <1>6, LoopCases
    <2>2. ~ (Head(wire).op = "global_remove" /\ Head(wire).id = id)
        BY <1>1, <1>3, <2>1 DEF LastingStays
    <2> QED BY <1>1, <1>3, <1>6, <2>2, AwaitedHandled
<1>7. CASE Connect
    BY <1>1, <1>3, <1>7, AwaitedConnect
<1>8. CASE UNCHANGED <<wire, requests, idTypes, announced, conn, syncDone>>
    BY <1>3, <1>8
    DEF Awaited, GlobalAhead, BindAhead, InfoAhead, InfoIn, Open, EndsRound2
<1> QED
    BY <1>4, <1>5, <1>6, <1>7, <1>8
    DEF Next, Isolate, TakeFirstSnapshot, TakeSnapshot, AssignGraph, Deliver,
        vars, monitorVars, daemonVars, connVars

\* At first every object's global is on its way.
LEMMA FirstInit == Init => FirstInv
<1> SUFFICES ASSUME Init PROVE FirstInv
    OBVIOUS
<1> DEFINE P == Present(world)
<1>n. PICK n \in Nat : n = Cardinality(P)
    BY ConstantsAssumption, FS_Subset, FS_CardinalityType DEF Present
<1>1. IsFiniteSet(P)
    BY ConstantsAssumption, FS_Subset DEF Present
<1>2. PICK order \in Announcements(world) :
         wire = [i \in 1 .. n |-> Global(order[i], 0, world[order[i]])]
    BY <1>n DEF Init
<1>3. /\ order \in [1 .. n -> P]
      /\ \A i, j \in 1 .. n : order[i] = order[j] => i = j
    BY <1>n DEF Announcements
<1>4. \A id \in P : \E i \in 1 .. n : order[i] = id
    <2> SUFFICES ASSUME NEW id \in P, \A i \in 1 .. n : order[i] # id
                 PROVE  FALSE
        OBVIOUS
    <2>1. IsFiniteSet(1 .. n) /\ Cardinality(1 .. n) = n
        BY FS_Interval
    <2>2. IsFiniteSet(P \ {id}) /\ Cardinality(P \ {id}) = n - 1
        BY <1>n, <1>1, FS_RemoveElement
    <2>3. order \in [1 .. n -> P \ {id}]
        BY <1>3
    <2>4. \E i, j \in 1 .. n : i # j /\ order[i] = order[j]
        BY <2>1, <2>2, <2>3, FS_PigeonHole
    <2> QED BY <1>3, <2>4
<1>5. /\ DOMAIN wire = 1 .. n
      /\ \A i \in 1 .. n : /\ wire[i].op = "global" /\ wire[i].id = order[i]
                           /\ wire[i].gen = 0 /\ wire[i].obj = world[order[i]]
    BY <1>2 DEF Global
<1>6. /\ lasting = P /\ gen = [id \in Ids |-> 0] /\ DOMAIN requests = {}
      /\ conn = "registered" /\ syncSeq = 0 /\ syncDone = FALSE
    BY DEF Init
<1>7. SyncsOfRounds
    BY <1>5, <1>6 DEF SyncsOfRounds
<1>8. LastingStays
    BY <1>5, <1>6 DEF LastingStays, Present
<1>9. ASSUME NEW id \in P PROVE Awaited(world[id].kind, id)
    <2>1. PICK i \in 1 .. n : order[i] = id
        BY <1>4
    <2>2. GlobalAhead(world[id].kind, id)
        BY <1>5, <1>6, <2>1 DEF GlobalAhead
    <2> QED BY <2>2 DEF Awaited
<1> QED BY <1>6, <1>7, <1>8, <1>9 DEF FirstInv

\* When connect() returns, each object that was there all along is announced,
\* bound and described, however many changes the daemon made meanwhile: two
\* rounds of sync are enough, provided pw_loop_iterate never fails.
THEOREM Initial_Snapshot_Complete ==
    ASSUME ~ IterateFails
    PROVE  Spec => []InitialSnapshotComplete
<1>1. IndInv => TypeOK /\ FreshGlobals /\ OneKindPerId
    BY DEF IndInv
<1>2. TypeOK /\ FreshGlobals /\ OneKindPerId /\ FirstInv /\ [Next]_vars => FirstInv'
    BY FirstStep
<1> QED BY <1>1, <1>2, FirstInit, AwaitedWhenUp, Inductive, PTL DEF Spec
=============================================================================
