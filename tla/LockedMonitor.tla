--------------------------- MODULE LockedMonitor ---------------------------
(***************************************************************************)
(* The handlers of RegistryMonitor and get_snapshot_json cut where another *)
(* thread can come between: at mutex_, at each change of the maps under    *)
(* it, at the post, and at what a handler does outside it.  RegistryMonitor*)
(* and GraphMirror take each of them for one step; this module shows that  *)
(* they may.                                                               *)
(*                                                                         *)
(* A handler takes effect where it posts its event or, if it posts none,   *)
(* where it changes the maps: Mirror is GraphMirror seen through that.     *)
(***************************************************************************)
EXTENDS GraphMirror

VARIABLES
    mutex,      \* who holds mutex_: "free", "loop", "isolate"
    step,       \* where the loop is in a handler
    cur,        \* the message it handles
    before,     \* the maps and id_types_ at the handler's begin: its local
                \* copies of the old state, and all there is for Mirror until
                \* the handler takes effect
    outbox,     \* binds written and not flushed before the handler returns
    copying,    \* get_snapshot_json is between lock and unlock
    left,       \* the maps it has still to copy
    copy        \* those it has copied

stepVars == <<step, cur, before, outbox>>
copyVars == <<copying, left, copy>>
lockVars == <<mutex, stepVars, copyVars>>
lockedVars == <<vars, lockVars>>

Locked == {"entered", "erased", "removed", "found", "updating", "updated", "posted"}

NoMessage == [op |-> "none"]

-----------------------------------------------------------------------------
\* The loop takes up a message.

Take(op) ==
    /\ step = "idle"
    /\ Receive(op)
    /\ cur' = Head(wire)
    /\ before' = [maps |-> native, types |-> idTypes]
    /\ UNCHANGED <<copyVars, connVars>>

\* A message that changes nothing of the monitor.
Skip == UNCHANGED <<monitorVars, requests, port, mutex, step, outbox>>

\* on_global: bind and id_types_ come before the lock.
BeginGlobal ==
    /\ Take("global")
    /\ LET m == Head(wire) IN
       IF m.obj.kind \in Kinds
       THEN /\ outbox' = Append(outbox, [op |-> "bind", id |-> m.id, gen |-> m.gen])
            /\ idTypes' = [idTypes EXCEPT ![m.id] = m.obj.kind]
            /\ step' = "bound"
            /\ UNCHANGED <<native, proxies, announced, requests, port, mutex>>
       ELSE Skip

EnterGlobal ==
    /\ step = "bound" /\ mutex = "free"
    /\ mutex' = "loop" /\ step' = "entered"
    /\ LET kind == cur.obj.kind IN
       /\ native' = WithObject(native, kind, cur.id,
                               [cur.obj EXCEPT !.st = FirstState[kind]])
       /\ announced' = announced \ {<<kind, cur.id>>}
    /\ UNCHANGED <<idTypes, proxies, requests, port, daemonVars, wire, connVars,
                   dartVars, cur, before, outbox, copyVars>>

\* Mutant: what is written is flushed and stays in the buffer.
LeaveGlobalUnflushed ==
    /\ step = "entered"
    /\ mutex' = "free" /\ step' = "idle"
    /\ proxies' = proxies \union {cur.id}
    /\ requests' = requests \o outbox
    /\ UNCHANGED <<native, idTypes, announced, port, daemonVars, wire, connVars,
                   dartVars, cur, before, outbox, copyVars>>

\* The unlock; then proxies_, and the loop flushes the bind.
LeaveGlobal ==
    /\ step = "entered"
    /\ mutex' = "free" /\ step' = "idle"
    /\ proxies' = proxies \union {cur.id}
    /\ requests' = requests \o outbox
    /\ outbox' = <<>>
    /\ UNCHANGED <<native, idTypes, announced, port, daemonVars, wire, connVars,
                   dartVars, cur, before, copyVars>>

-----------------------------------------------------------------------------
\* on_global_remove.
BeginRemove ==
    /\ Take("global_remove")
    /\ LET id == Head(wire).id IN
       IF idTypes[id] # "none"
       THEN /\ mutex = "free" /\ mutex' = "loop"
            /\ native' = WithoutObject(native, idTypes[id], id)
            /\ step' = "erased"
            /\ UNCHANGED <<idTypes, proxies, announced, requests, port, outbox>>
       ELSE Skip

\* Mutant: the event is posted after the unlock.
PostRemoveUnlocked ==
    /\ step = "erased"
    /\ LET kind == idTypes[cur.id] IN
       \/ /\ mutex = "loop" /\ mutex' = "free"
          /\ UNCHANGED <<step, port, announced>>
       \/ /\ mutex = "free" /\ kind \in EventKinds
          /\ PostEvent(Removal(RemovalType[kind], cur.id))
          /\ announced' = announced \ {<<kind, cur.id>>}
          /\ step' = "removed" /\ UNCHANGED mutex
    /\ UNCHANGED <<native, idTypes, proxies, requests, daemonVars, wire,
                   connVars, dartVars, cur, before, outbox, copyVars>>

PostRemove ==
    /\ step = "erased"
    /\ LET kind == idTypes[cur.id] IN
       /\ IF kind \in EventKinds
          THEN PostEvent(Removal(RemovalType[kind], cur.id))
          ELSE UNCHANGED port
       /\ announced' = announced \ {<<kind, cur.id>>}
    /\ step' = "removed"
    /\ UNCHANGED <<native, idTypes, proxies, requests, daemonVars, wire,
                   connVars, dartVars, mutex, cur, before, outbox, copyVars>>

\* The unlock; then proxies_ and id_types_.
LeaveRemove ==
    /\ step = "removed"
    /\ mutex' = "free" /\ step' = "idle"
    /\ proxies' = proxies \ {cur.id}
    /\ idTypes' = [idTypes EXCEPT ![cur.id] = "none"]
    /\ UNCHANGED <<native, announced, requests, port, daemonVars, wire, connVars,
                   dartVars, cur, before, outbox, copyVars>>

-----------------------------------------------------------------------------
\* The info handlers: lock, find, change the entry in place, post, unlock.

\* Mutant: the entry is found before the lock.
BeginInfoUnlocked ==
    /\ Take("info")
    /\ LET m == Head(wire) IN
       IF m.id \in proxies /\ m.kind \in Kinds /\ Has(native, m.kind, m.id)
       THEN /\ step' = "found"
            /\ UNCHANGED <<mutex, monitorVars, requests, port, outbox>>
       ELSE Skip

BeginInfo ==
    /\ Take("info")
    /\ LET m == Head(wire) IN
       IF m.id \in proxies /\ m.kind \in Kinds /\ Has(native, m.kind, m.id)
       THEN /\ mutex = "free" /\ mutex' = "loop"
            /\ step' = "found"
            /\ UNCHANGED <<monitorVars, requests, port, outbox>>
       ELSE Skip

Change(from, to, obj) ==
    /\ step = from /\ step' = to
    /\ native' = WithObject(native, cur.kind, cur.id, obj)
    /\ UNCHANGED <<idTypes, proxies, announced, requests, port, daemonVars, wire,
                   connVars, dartVars, mutex, cur, before, outbox, copyVars>>

\* A node's state and a link's ports come first, the rest after.
UpdateFirst ==
    LET old == native[cur.kind][cur.id] IN
    Change("found", "updating",
           CASE cur.kind = "node" -> [old EXCEPT !.st = cur.st]
             [] cur.kind = "link" -> [old EXCEPT !.refs = cur.refs]
             [] OTHER -> old)

UpdateRest ==
    LET old == native[cur.kind][cur.id] IN
    Change("updating", "updated",
           IF cur.kind = "link" THEN [old EXCEPT !.st = cur.st]
                                ELSE Updated(old, cur))

\* The event is chosen by the state the entry had.
InfoEvent ==
    LET old == before.maps[cur.kind][cur.id] IN
    CASE cur.kind = "node" -> IF old.st = "creating" THEN "NodeAdded"
                                                     ELSE "NodeInfoChanged"
      [] cur.kind = "port" -> "PortAdded"
      [] cur.kind = "link" -> IF old.st = "init" THEN "LinkAdded"
                                                 ELSE "LinkStateChanged"

\* Mutant: a post waits until the isolate has taken the one before.
PostInfoWaiting ==
    /\ step = "updated" /\ step' = "posted"
    /\ port = <<>>
    /\ IF cur.kind = "device" THEN UNCHANGED port
       ELSE PostEvent(Upsert(InfoEvent, cur.id, native[cur.kind][cur.id]))
    /\ announced' = announced \union {<<cur.kind, cur.id>>}
    /\ UNCHANGED <<native, idTypes, proxies, requests, daemonVars, wire,
                   connVars, dartVars, mutex, cur, before, outbox, copyVars>>

PostInfo ==
    /\ step = "updated" /\ step' = "posted"
    /\ IF cur.kind = "device" THEN UNCHANGED port
       ELSE PostEvent(Upsert(InfoEvent, cur.id, native[cur.kind][cur.id]))
    /\ announced' = announced \union {<<cur.kind, cur.id>>}
    /\ UNCHANGED <<native, idTypes, proxies, requests, daemonVars, wire,
                   connVars, dartVars, mutex, cur, before, outbox, copyVars>>

LeaveInfo ==
    /\ step = "posted" /\ step' = "idle"
    /\ mutex' = "free"
    /\ UNCHANGED <<vars, cur, before, outbox, copyVars>>

\* The handlers that need no lock.
OtherMessage ==
    /\ step = "idle"
    /\ ReceiveDone \/ ReceiveError
    /\ UNCHANGED lockVars

-----------------------------------------------------------------------------
\* get_snapshot_json on the isolate's thread.

\* Mutant: without the lock.
StartCopyUnlocked ==
    /\ ~ copying
    /\ dart = "connected" \/ (dart = "listening" /\ refreshes < MaxRefresh)
    /\ copying' = TRUE
    /\ left' = <<"node", "port", "link", "device">>
    /\ copy' = EmptyGraph
    /\ UNCHANGED <<vars, mutex, stepVars>>

StartCopy ==
    /\ ~ copying
    /\ dart = "connected" \/ (dart = "listening" /\ refreshes < MaxRefresh)
    /\ mutex = "free" /\ mutex' = "isolate"
    /\ copying' = TRUE
    /\ left' = <<"node", "port", "link", "device">>
    /\ copy' = EmptyGraph
    /\ UNCHANGED <<vars, stepVars>>

CopyMap ==
    /\ copying /\ left # <<>>
    /\ copy' = [copy EXCEPT ![Head(left)] = native[Head(left)]]
    /\ left' = Tail(left)
    /\ UNCHANGED <<vars, mutex, stepVars, copying>>

FinishCopy ==
    /\ copying /\ left = <<>>
    /\ copying' = FALSE /\ copy' = EmptyGraph
    /\ mutex' = "free"
    /\ snap' = copy
    /\ dart' = "returned"
    /\ refreshes' = IF dart = "listening" THEN refreshes + 1 ELSE refreshes
    /\ UNCHANGED <<left, graph, monitorVars, requests, port, daemonVars, wire,
                   connVars, stepVars>>

-----------------------------------------------------------------------------
LockedInit ==
    /\ Init
    /\ mutex = "free" /\ step = "idle" /\ cur = NoMessage
    /\ before = [maps |-> EmptyGraph, types |-> idTypes]
    /\ outbox = <<>>
    /\ copying = FALSE /\ left = <<>> /\ copy = EmptyGraph

Handler ==
    \/ BeginGlobal \/ EnterGlobal \/ LeaveGlobal
    \/ BeginRemove \/ PostRemove \/ LeaveRemove
    \/ BeginInfo \/ UpdateFirst \/ UpdateRest \/ PostInfo \/ LeaveInfo
    \/ OtherMessage

Snapshot == StartCopy \/ CopyMap \/ FinishCopy

\* During connect() the loop runs inside it: a round ends between handlers.
LockedNext ==
    \/ Handler \/ Snapshot
    \/ (Daemon \/ DaemonAnswer) /\ UNCHANGED lockVars
    \/ step = "idle" /\ Connect /\ UNCHANGED lockVars
    \/ ~ copying /\ (AssignGraph \/ Deliver) /\ UNCHANGED lockVars

LockedSpec == LockedInit /\ [][LockedNext]_lockedVars

\* Threads run on when they hold the mutex or can take it.
FairLockedSpec == LockedSpec /\ WF_lockedVars(Handler) /\ WF_lockedVars(Snapshot)

-----------------------------------------------------------------------------
\* GraphMirror, as this module's state shows it.

\* The handler has not taken effect.
Pending == step \in {"bound", "erased", "found", "updating", "updated"}

SeenNative == IF Pending /\ step # "bound" THEN before.maps ELSE native

SeenTypes == IF Pending THEN before.types
             ELSE IF step = "removed" THEN [idTypes EXCEPT ![cur.id] = "none"]
             ELSE idTypes

SeenProxies == IF step = "entered" THEN proxies \union {cur.id}
               ELSE IF step = "removed" THEN proxies \ {cur.id} ELSE proxies

SeenRequests == IF step = "entered" THEN requests \o outbox ELSE requests

SeenWire == IF Pending THEN <<cur>> \o wire ELSE wire

Mirror == INSTANCE GraphMirror WITH
    native <- SeenNative, idTypes <- SeenTypes, proxies <- SeenProxies,
    requests <- SeenRequests, wire <- SeenWire

-----------------------------------------------------------------------------
\* Properties

\* The type invariant.
LockedTypeOK ==
    /\ mutex \in {"free", "loop", "isolate"}
    /\ step \in {"idle", "bound"} \union Locked
    /\ cur \in Messages \union {NoMessage}
    /\ before \in [maps : Graphs, types : [Ids -> Kinds \union {"none"}]]
    /\ outbox \in Seq(Requests) /\ Len(outbox) <= 1
    /\ copying \in BOOLEAN /\ left \in Seq(Kinds) /\ copy \in Graphs
    /\ native \in Graphs

\* The two threads are never inside the maps at the same time.
NoMapRace == ~ (copying /\ step \in Locked)

\* What the isolate copies is one state of the four maps, never half of one
\* change and half of another.
CopyIsWhole ==
    copying => \A k \in Kinds :
        (\A i \in DOMAIN left : left[i] # k) => copy[k] = native[k]

\* Cut at the mutex, the handlers and the snapshot do what they do in one
\* step each: every behaviour is one of GraphMirror, whose theorems hold.
ImplementsMirror == Mirror!Spec

\* The mutex is given back again and again, although the loop posts while it
\* holds it and the isolate may be waiting for it: neither waits for ever.
MutexReleased == []<>(mutex = "free")
=============================================================================
