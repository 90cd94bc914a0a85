------------------------ MODULE LockedMonitorProofs ------------------------
(***************************************************************************)
(* For every set of ids, any registry and any number of changes: cut at    *)
(* mutex_, the handlers and the snapshot implement GraphMirror, where each *)
(* is one step, so that what GraphMirrorProofs shows holds of the cut      *)
(* program.                                                                *)
(***************************************************************************)
EXTENDS LockedMonitor, GraphMirrorProofs

-----------------------------------------------------------------------------
\* The inductive invariant

\* mutex_ is held by the thread that is inside the maps.
Mutex ==
    /\ mutex = "loop" <=> step \in Locked
    /\ mutex = "isolate" <=> copying

\* A handler runs inside the loop, and what it has written and not flushed is
\* the bind of the global it handles.
Running ==
    /\ step # "idle" => conn \in {"round1", "round2", "up"}
    /\ step \in {"bound", "entered"} =>
          /\ cur \in Globals /\ cur.obj.kind \in Kinds
          /\ outbox = <<[op |-> "bind", id |-> cur.id, gen |-> cur.gen]>>
    /\ step \notin {"bound", "entered"} => outbox = <<>>

\* How far on_global and on_global_remove are.
InGlobal ==
    /\ step = "bound" =>
          idTypes = [before.types EXCEPT ![cur.id] = cur.obj.kind]
    /\ step \in {"erased", "removed"} => cur \in Removes
    /\ step = "erased" =>
          /\ before.types = idTypes /\ idTypes[cur.id] # "none"
          /\ native = WithoutObject(before.maps, idTypes[cur.id], cur.id)

\* The entry once the first part of an info, or all of it, is in.
First(old) == CASE cur.kind = "node" -> [old EXCEPT !.st = cur.st]
                [] cur.kind = "link" -> [old EXCEPT !.refs = cur.refs]
                [] OTHER -> old

Last(old) == IF cur.kind = "link" THEN [old EXCEPT !.st = cur.st]
                                  ELSE Updated(old, cur)

Old == before.maps[cur.kind][cur.id]

\* How far an info handler is.
InInfo ==
    step \in {"found", "updating", "updated"} =>
        /\ cur \in Infos /\ cur.kind \in Kinds /\ cur.id \in proxies
        /\ Has(before.maps, cur.kind, cur.id)
        /\ before.types = idTypes
        /\ step = "found" => native = before.maps
        /\ step = "updating" =>
              native = WithObject(before.maps, cur.kind, cur.id, First(Old))
        /\ step = "updated" =>
              native = WithObject(before.maps, cur.kind, cur.id, Last(First(Old)))

\* The isolate copies because it was asked to.
Asked ==
    copying => dart = "connected" \/ (dart = "listening" /\ refreshes < MaxRefresh)

CutInv == /\ TypeOK /\ LockedTypeOK
          /\ Mutex /\ Running /\ InGlobal /\ InInfo
          /\ Asked /\ CopyIsWhole

-----------------------------------------------------------------------------
\* Sequences

\* A message in hand is the first of what is still to be handled.
LEMMA InHand ==
    ASSUME NEW S, NEW s \in Seq(S), NEW x \in S
    PROVE  /\ <<x>> \o s \in Seq(S) /\ <<x>> \o s # <<>>
           /\ Head(<<x>> \o s) = x /\ Tail(<<x>> \o s) = s
           /\ \A y \in S : <<x>> \o Append(s, y) = Append(<<x>> \o s, y)
           /\ s # <<>> => <<Head(s)>> \o Tail(s) = s
OBVIOUS

\* A bind in the buffer is the last of what is still to be answered.
LEMMA InBuffer ==
    ASSUME NEW S, NEW s \in Seq(S), NEW x \in S
    PROVE  /\ s \o <<x>> = Append(s, x)
           /\ s # <<>> => /\ Append(s, x) # <<>>
                          /\ Head(Append(s, x)) = Head(s)
                          /\ Tail(Append(s, x)) = Append(Tail(s), x)
OBVIOUS

-----------------------------------------------------------------------------
\* The invariant is inductive: what the handlers share

\* A handler takes the oldest message and notes the maps as they are.
LEMMA Taken ==
    ASSUME CutInv, NEW op, Take(op)
    PROVE  /\ step = "idle" /\ mutex # "loop" /\ outbox = <<>>
           /\ conn \in {"round1", "round2", "up"} /\ wire # <<>>
           /\ Head(wire).op = op /\ Head(wire) \in Messages
           /\ wire \in Seq(Messages) /\ wire' = Tail(wire)
           /\ wire' \in Seq(Messages)
           /\ cur' = Head(wire)
           /\ before' = [maps |-> native, types |-> idTypes]
           /\ before' \in [maps : Graphs, types : [Ids -> Kinds \union {"none"}]]
           /\ UNCHANGED <<copyVars, connVars, daemonVars, dartVars>>
BY DEF CutInv, TypeOK, Mutex, Running, Locked, Take, Receive

\* What the loop's thread does to the copy under way: nothing, since it is in
\* the maps only when there is none.
LEMMA CopyKept ==
    ASSUME CutInv, UNCHANGED <<copyVars, dartVars>>,
           ~ copying \/ UNCHANGED native
    PROVE  CopyIsWhole' /\ Asked' /\ left' \in Seq(Kinds) /\ copying' \in BOOLEAN
           /\ copy' \in Graphs
BY DEF CutInv, CopyIsWhole, Asked, LockedTypeOK, copyVars, dartVars

\* What no handler touches keeps its type.
LEMMA OthersTyped ==
    ASSUME TypeOK, UNCHANGED <<daemonVars, connVars, dartVars>>,
           MonitorTypes', wire' \in Seq(Messages)
    PROVE  TypeOK'
BY DEF TypeOK, MonitorTypes, daemonVars, connVars, dartVars

\* A message that changes nothing of the monitor leaves the loop idle.
LEMMA SkipInd ==
    ASSUME CutInv, NEW op, Take(op), Skip
    PROVE  CutInv'
<1>1. TypeOK'
    BY Taken, OthersTyped DEF CutInv, TypeOK, MonitorTypes, Skip, monitorVars
<1>2. CopyIsWhole' /\ Asked' /\ left' \in Seq(Kinds) /\ copying' \in BOOLEAN
      /\ copy' \in Graphs
    BY Taken, CopyKept DEF Skip, monitorVars
<1>3. LockedTypeOK'
    BY Taken, <1>1, <1>2 DEF CutInv, TypeOK, LockedTypeOK, Skip
<1>4. Mutex' /\ Running' /\ InGlobal' /\ InInfo'
    BY Taken DEF CutInv, Mutex, Running, InGlobal, InInfo, Skip, copyVars, Locked
<1> QED
    BY <1>1, <1>2, <1>3, <1>4 DEF CutInv

-----------------------------------------------------------------------------
\* on_global

\* on_global up to the lock: the bind is written, id_types_ set, the maps
\* not touched.
LEMMA BeginGlobalInd == ASSUME CutInv, BeginGlobal PROVE CutInv'
<1> DEFINE m == Head(wire)
<1>1. CASE m.obj.kind \notin Kinds
    BY <1>1, SkipInd DEF BeginGlobal
<1>2. CASE m.obj.kind \in Kinds
    <2>1. /\ Take("global") /\ m \in Globals
          /\ outbox' = <<[op |-> "bind", id |-> m.id, gen |-> m.gen]>>
          /\ idTypes' = [idTypes EXCEPT ![m.id] = m.obj.kind]
          /\ step' = "bound"
          /\ UNCHANGED <<native, proxies, announced, requests, port, mutex>>
        BY <1>2, Taken, MessageOf DEF BeginGlobal, CutInv
    <2>2. m.id \in Ids /\ m.gen \in Nat
        BY <2>1 DEF Globals
    <2>3. TypeOK'
        BY <1>2, <2>1, <2>2, Taken, OthersTyped DEF CutInv, TypeOK, MonitorTypes
    <2>4. CopyIsWhole' /\ Asked' /\ left' \in Seq(Kinds) /\ copying' \in BOOLEAN
          /\ copy' \in Graphs
        BY <2>1, Taken, CopyKept
    <2>5. [op |-> "bind", id |-> m.id, gen |-> m.gen] \in Requests
        BY <2>2 DEF Requests
    <2>6. outbox' \in Seq(Requests) /\ Len(outbox') <= 1
        BY <2>1, <2>5
    <2>7. LockedTypeOK'
        BY SMTT(30), <2>1, <2>3, <2>4, <2>6, Taken DEF CutInv, TypeOK, LockedTypeOK
    <2>8. Mutex'
        BY <2>1, Taken DEF CutInv, Mutex, copyVars, Locked
    <2>9. Running'
        <3>1. cur' = m /\ conn' \in {"round1", "round2", "up"}
            BY <2>1, Taken DEF connVars
        <3> QED BY <1>2, <2>1, <3>1 DEF Running
    <2>10. InGlobal' /\ InInfo'
        <3>1. cur' = m /\ before'.types = idTypes
            BY <2>1, Taken
        <3> QED BY <2>1, <3>1 DEF InGlobal, InInfo
    <2> QED
        BY <2>3, <2>4, <2>7, <2>8, <2>9, <2>10 DEF CutInv
<1> QED BY <1>1, <1>2

\* on_global under the lock: the new entry, before its event.
LEMMA EnterGlobalInd == ASSUME CutInv, EnterGlobal PROVE CutInv'
<1>1. /\ cur \in Globals /\ cur.obj.kind \in Kinds
      /\ cur.id \in Ids /\ cur.obj \in Objects /\ ~ copying
      /\ outbox = <<[op |-> "bind", id |-> cur.id, gen |-> cur.gen]>>
      /\ conn \in {"round1", "round2", "up"}
    BY DEF CutInv, EnterGlobal, Running, Mutex, Globals
<1>2. [cur.obj EXCEPT !.st = FirstState[cur.obj.kind]] \in Objects
    <2>1. FirstState[cur.obj.kind] \in States
        BY <1>1 DEF FirstState, Kinds, States
    <2> QED BY <1>1, <2>1 DEF Objects
<1>3. native' \in Graphs
    BY <1>1, <1>2, GraphTypes DEF EnterGlobal, CutInv, TypeOK
<1>4. TypeOK'
    BY <1>1, <1>3, OthersTyped DEF EnterGlobal, CutInv, TypeOK, MonitorTypes
<1>5. CopyIsWhole' /\ Asked' /\ left' \in Seq(Kinds) /\ copying' \in BOOLEAN
      /\ copy' \in Graphs
    BY <1>1, CopyKept DEF EnterGlobal
<1>6. LockedTypeOK'
    BY <1>3, <1>5 DEF EnterGlobal, CutInv, LockedTypeOK, Locked
<1>7. Mutex'
    BY <1>1 DEF EnterGlobal, Mutex, Locked, copyVars
<1>8. Running' /\ InGlobal' /\ InInfo'
    BY <1>1 DEF EnterGlobal, Running, InGlobal, InInfo, connVars
<1> QED BY <1>4, <1>5, <1>6, <1>7, <1>8 DEF CutInv

\* on_global after the unlock: proxies_, and the loop flushes the bind.
LEMMA LeaveGlobalInd == ASSUME CutInv, LeaveGlobal PROVE CutInv'
<1>1. cur \in Globals /\ cur.id \in Ids /\ ~ copying
    BY DEF CutInv, LeaveGlobal, Running, Mutex, Locked, Globals
<1>2. requests' \in Seq(Requests)
    BY DEF LeaveGlobal, CutInv, TypeOK, LockedTypeOK
<1>3. TypeOK'
    BY <1>1, <1>2, OthersTyped DEF LeaveGlobal, CutInv, TypeOK, MonitorTypes
<1>4. CopyIsWhole' /\ Asked' /\ left' \in Seq(Kinds) /\ copying' \in BOOLEAN
      /\ copy' \in Graphs
    BY <1>1, CopyKept DEF LeaveGlobal
<1>5. outbox' \in Seq(Requests) /\ Len(outbox') <= 1
    BY DEF LeaveGlobal
<1>6. LockedTypeOK'
    BY <1>4, <1>5 DEF LeaveGlobal, CutInv, LockedTypeOK
<1>7. Mutex'
    BY <1>1 DEF LeaveGlobal, Mutex, Locked, copyVars
<1>8. Running' /\ InGlobal' /\ InInfo'
    BY DEF LeaveGlobal, Running, InGlobal, InInfo
<1> QED BY <1>3, <1>4, <1>6, <1>7, <1>8 DEF CutInv

-----------------------------------------------------------------------------
\* on_global_remove

\* on_global_remove: the lock is taken and the entry erased.
LEMMA BeginRemoveInd == ASSUME CutInv, BeginRemove PROVE CutInv'
<1> DEFINE id == Head(wire).id
<1>1. CASE idTypes[id] = "none"
    BY <1>1, SkipInd DEF BeginRemove
<1>2. CASE idTypes[id] # "none"
    <2>1. /\ Take("global_remove") /\ Head(wire) \in Removes /\ id \in Ids
          /\ mutex = "free" /\ mutex' = "loop" /\ ~ copying
          /\ native' = WithoutObject(native, idTypes[id], id)
          /\ step' = "erased"
          /\ UNCHANGED <<idTypes, proxies, announced, requests, port, outbox>>
        BY <1>2, Taken, MessageOf DEF BeginRemove, CutInv, Mutex
    <2>2. idTypes[id] \in Kinds
        BY <1>2, <2>1 DEF CutInv, TypeOK
    <2>3. native' \in Graphs
        BY <2>1, <2>2, GraphTypes DEF CutInv, TypeOK
    <2>4. TypeOK'
        BY <2>1, <2>3, Taken, OthersTyped DEF CutInv, TypeOK, MonitorTypes
    <2>5. CopyIsWhole' /\ Asked' /\ left' \in Seq(Kinds) /\ copying' \in BOOLEAN
          /\ copy' \in Graphs
        BY <2>1, Taken, CopyKept
    <2>6. LockedTypeOK'
        BY <2>1, <2>3, <2>5, Taken DEF CutInv, LockedTypeOK, Locked
    <2>7. Mutex'
        BY <2>1, Taken DEF Mutex, copyVars, Locked
    <2>8. /\ cur' = Head(wire) /\ outbox = <<>>
          /\ before'.types = idTypes /\ before'.maps = native
          /\ conn' \in {"round1", "round2", "up"}
        BY <2>1, Taken DEF connVars
    <2>9. Running' /\ InGlobal' /\ InInfo'
        BY <1>2, <2>1, <2>8 DEF Running, InGlobal, InInfo
    <2> QED BY <2>4, <2>5, <2>6, <2>7, <2>9 DEF CutInv
<1> QED BY <1>1, <1>2

\* on_global_remove posts its event, still under the lock.
LEMMA PostRemoveInd == ASSUME CutInv, PostRemove PROVE CutInv'
<1>1. /\ cur \in Removes /\ cur.id \in Ids /\ ~ copying /\ mutex = "loop"
      /\ idTypes[cur.id] # "none" /\ outbox = <<>>
      /\ conn \in {"round1", "round2", "up"}
    BY DEF CutInv, PostRemove, Running, InGlobal, Mutex, Locked, Removes
<1>2. idTypes[cur.id] \in Kinds
    BY <1>1 DEF CutInv, TypeOK
<1>3. port' \in Seq(Events)
    <2>1. CASE idTypes[cur.id] \in EventKinds
        <3>1. Removal(RemovalType[idTypes[cur.id]], cur.id) \in Events
            BY <1>1, <2>1 DEF Removal, RemovalType, Events, Removals, EventKinds
        <3> QED BY <2>1, <3>1, PostType DEF PostRemove, CutInv, TypeOK
    <2>2. CASE idTypes[cur.id] \notin EventKinds
        BY <2>2 DEF PostRemove, CutInv, TypeOK
    <2> QED BY <2>1, <2>2
<1>4. TypeOK'
    BY <1>1, <1>2, <1>3, OthersTyped DEF PostRemove, CutInv, TypeOK, MonitorTypes
<1>5. CopyIsWhole' /\ Asked' /\ left' \in Seq(Kinds) /\ copying' \in BOOLEAN
      /\ copy' \in Graphs
    BY <1>1, CopyKept DEF PostRemove
<1>6. LockedTypeOK'
    BY <1>1, <1>5 DEF PostRemove, CutInv, LockedTypeOK, Locked
<1>7. Mutex'
    BY <1>1 DEF PostRemove, Mutex, Locked, copyVars
<1>8. Running' /\ InGlobal' /\ InInfo'
    BY <1>1 DEF PostRemove, Running, InGlobal, InInfo, connVars
<1> QED BY <1>4, <1>5, <1>6, <1>7, <1>8 DEF CutInv

\* on_global_remove after the unlock: proxies_ and id_types_.
LEMMA LeaveRemoveInd == ASSUME CutInv, LeaveRemove PROVE CutInv'
<1>1. cur \in Removes /\ cur.id \in Ids /\ ~ copying /\ outbox = <<>>
    BY DEF CutInv, LeaveRemove, Running, InGlobal, Mutex, Locked, Removes
<1>2. TypeOK'
    BY <1>1, OthersTyped DEF LeaveRemove, CutInv, TypeOK, MonitorTypes
<1>3. CopyIsWhole' /\ Asked' /\ left' \in Seq(Kinds) /\ copying' \in BOOLEAN
      /\ copy' \in Graphs
    BY <1>1, CopyKept DEF LeaveRemove
<1>4. LockedTypeOK'
    BY <1>3 DEF LeaveRemove, CutInv, LockedTypeOK
<1>5. Mutex'
    BY <1>1 DEF LeaveRemove, Mutex, Locked, copyVars
<1>6. Running' /\ InGlobal' /\ InInfo'
    BY <1>1 DEF LeaveRemove, Running, InGlobal, InInfo
<1> QED BY <1>2, <1>3, <1>4, <1>5, <1>6 DEF CutInv

-----------------------------------------------------------------------------
\* The info handlers

\* Both parts of an info leave an object.
LEMMA PartsTyped ==
    ASSUME cur \in Infos, cur.kind \in Kinds, NEW old \in Objects
    PROVE  First(old) \in Objects /\ Last(First(old)) \in Objects
<1>1. cur.st \in States /\ cur.refs \subseteq Ids /\ cur.props \in Nat
    BY DEF Infos
<1>2. First(old) \in Objects
    BY <1>1 DEF First, Objects
<1>3. Updated(First(old), cur) \in Objects
    BY <1>1, <1>2 DEF Updated, Objects
<1> QED BY <1>1, <1>2, <1>3 DEF Last, Objects

\* The last of two values entered under an id stays.
LEMMA EnteredTwice ==
    ASSUME NEW g \in Graphs, NEW k \in Kinds, NEW id \in Ids, NEW a, NEW b
    PROVE  WithObject(WithObject(g, k, id, a), k, id, b) = WithObject(g, k, id, b)
BY DEF WithObject, Graphs, ObjectMap

\* An info handler holds the mutex, and its entry is an object.
LEMMA InsideInfo ==
    ASSUME CutInv, step \in {"found", "updating", "updated"}
    PROVE  /\ cur \in Infos /\ cur.kind \in Kinds /\ cur.id \in Ids
           /\ before.maps \in Graphs /\ before.types = idTypes
           /\ Has(before.maps, cur.kind, cur.id) /\ cur.id \in proxies
           /\ Old \in Objects /\ First(Old) \in Objects
           /\ Last(First(Old)) \in Objects
           /\ mutex = "loop" /\ ~ copying /\ outbox = <<>>
           /\ conn \in {"round1", "round2", "up"}
<1>1. /\ cur \in Infos /\ cur.kind \in Kinds /\ cur.id \in Ids
      /\ Has(before.maps, cur.kind, cur.id) /\ cur.id \in proxies
      /\ before.maps \in Graphs /\ before.types = idTypes
    BY DEF CutInv, InInfo, LockedTypeOK, Infos
<1>2. Old \in Objects
    BY <1>1 DEF Old, Has, Graphs, ObjectMap
<1>3. /\ mutex = "loop" /\ ~ copying /\ outbox = <<>>
      /\ conn \in {"round1", "round2", "up"}
    BY DEF CutInv, Mutex, Locked, Running
<1> QED BY <1>1, <1>2, <1>3, PartsTyped

\* An info handler takes the lock and finds its entry, or returns early.
LEMMA BeginInfoInd == ASSUME CutInv, BeginInfo PROVE CutInv'
<1> DEFINE m == Head(wire)
<1>1. CASE ~ (m.id \in proxies /\ m.kind \in Kinds /\ Has(native, m.kind, m.id))
    BY <1>1, SkipInd DEF BeginInfo
<1>2. CASE m.id \in proxies /\ m.kind \in Kinds /\ Has(native, m.kind, m.id)
    <2>1. /\ Take("info") /\ m \in Infos
          /\ mutex = "free" /\ mutex' = "loop" /\ ~ copying
          /\ step' = "found"
          /\ UNCHANGED <<monitorVars, requests, port, outbox>>
        BY <1>2, Taken, MessageOf DEF BeginInfo, CutInv, Mutex
    <2>2. TypeOK'
        BY <2>1, Taken, OthersTyped
        DEF CutInv, TypeOK, MonitorTypes, monitorVars
    <2>3. CopyIsWhole' /\ Asked' /\ left' \in Seq(Kinds) /\ copying' \in BOOLEAN
          /\ copy' \in Graphs
        BY <2>1, Taken, CopyKept
    <2>4. LockedTypeOK'
        BY <2>1, <2>2, <2>3, Taken DEF CutInv, TypeOK, LockedTypeOK, Locked
    <2>5. Mutex'
        BY <2>1, Taken DEF Mutex, copyVars, Locked
    <2>6. /\ cur' = m /\ outbox = <<>>
          /\ before'.types = idTypes /\ before'.maps = native
          /\ conn' \in {"round1", "round2", "up"}
        BY <2>1, Taken DEF connVars
    <2>7. Running' /\ InGlobal'
        BY <2>1, <2>6 DEF Running, InGlobal
    <2>8. InInfo'
        BY <1>2, <2>1, <2>6 DEF InInfo, Has, monitorVars
    <2> QED BY <2>2, <2>3, <2>4, <2>5, <2>7, <2>8 DEF CutInv
<1> QED BY <1>1, <1>2

\* A change of the entry in place.
LEMMA ChangeInd ==
    ASSUME CutInv, NEW from \in {"found", "updating"},
           NEW to \in {"updating", "updated"}, NEW obj \in Objects,
           Change(from, to, obj), InInfo'
    PROVE  CutInv'
<1>1. native' \in Graphs
    BY InsideInfo, GraphTypes DEF Change, CutInv, TypeOK
<1>2. TypeOK'
    BY <1>1, OthersTyped DEF Change, CutInv, TypeOK, MonitorTypes
<1>3. CopyIsWhole' /\ Asked' /\ left' \in Seq(Kinds) /\ copying' \in BOOLEAN
      /\ copy' \in Graphs
    BY InsideInfo, CopyKept DEF Change
<1>4. LockedTypeOK'
    BY <1>1, <1>3 DEF Change, CutInv, LockedTypeOK, Locked
<1>5. Mutex'
    BY InsideInfo DEF Change, Mutex, Locked, copyVars
<1>6. Running' /\ InGlobal'
    BY InsideInfo DEF Change, Running, InGlobal, connVars
<1> QED BY <1>2, <1>3, <1>4, <1>5, <1>6 DEF CutInv

\* An info handler changes the first member of its entry.
LEMMA UpdateFirstInd == ASSUME CutInv, UpdateFirst PROVE CutInv'
<1>1. step = "found" /\ native = before.maps
    BY DEF UpdateFirst, Change, CutInv, InInfo
<1>2. Change("found", "updating", First(Old))
    BY <1>1 DEF UpdateFirst, Change, First, Old
<1>3. native' = WithObject(before.maps, cur.kind, cur.id, First(Old))
    BY <1>1, <1>2 DEF Change
<1>4. InInfo'
    <2>1. First(Old)' = First(Old)
        BY <1>2 DEF Change, Old, First
    <2> QED BY <1>1, <1>2, <1>3, <2>1, InsideInfo DEF Change, InInfo, Has
<1> QED BY <1>1, <1>2, <1>4, InsideInfo, ChangeInd

\* An info handler changes the other members of its entry.
LEMMA UpdateRestInd == ASSUME CutInv, UpdateRest PROVE CutInv'
<1>1. /\ step = "updating"
      /\ native = WithObject(before.maps, cur.kind, cur.id, First(Old))
    BY DEF UpdateRest, Change, CutInv, InInfo
<1>2. native[cur.kind][cur.id] = First(Old)
    <2>1. before.maps \in Graphs /\ cur.kind \in Kinds /\ cur.id \in Ids
        BY <1>1, InsideInfo
    <2> QED BY <1>1, <2>1 DEF WithObject, Graphs, ObjectMap
<1>3. Change("updating", "updated", Last(First(Old)))
    BY <1>2 DEF UpdateRest, Change, Last
<1>4. native' = WithObject(before.maps, cur.kind, cur.id, Last(First(Old)))
    BY <1>1, <1>3, InsideInfo, EnteredTwice DEF Change
<1>5. InInfo'
    <2>1. Last(First(Old))' = Last(First(Old))
        BY <1>3 DEF Change, Old, First, Last, Updated
    <2> QED BY <1>1, <1>3, <1>4, <2>1, InsideInfo DEF Change, InInfo, Has
<1> QED BY <1>1, <1>3, <1>5, InsideInfo, ChangeInd

\* An info handler posts what it changed, still under the lock.
LEMMA PostInfoInd == ASSUME CutInv, PostInfo PROVE CutInv'
<1> DEFINE obj == Last(First(Old))
<1>1. step = "updated" /\ native = WithObject(before.maps, cur.kind, cur.id, obj)
    BY DEF PostInfo, CutInv, InInfo
<1>2. native[cur.kind][cur.id] = obj /\ obj \in Objects
    <2>1. /\ before.maps \in Graphs /\ cur.kind \in Kinds /\ cur.id \in Ids
          /\ obj \in Objects
        BY <1>1, InsideInfo
    <2> QED BY <1>1, <2>1 DEF WithObject, Graphs, ObjectMap
<1>3. port' \in Seq(Events)
    <2>1. CASE cur.kind = "device"
        BY <2>1 DEF PostInfo, CutInv, TypeOK
    <2>2. CASE cur.kind # "device"
        <3>1. InfoEvent \in Upserts
            BY <1>1, <2>2, InsideInfo DEF InfoEvent, Upserts, Kinds
        <3>2. Upsert(InfoEvent, cur.id, obj) \in Events
            BY <1>1, <1>2, <3>1, InsideInfo DEF Upsert, Events
        <3> QED BY <1>2, <2>2, <3>2, PostType DEF PostInfo, CutInv, TypeOK
    <2> QED BY <2>1, <2>2
<1>4. TypeOK'
    <2>1. /\ <<cur.kind, cur.id>> \in Kinds \X Ids /\ TypeOK
          /\ UNCHANGED <<native, idTypes, proxies, requests, wire>>
          /\ announced' = announced \union {<<cur.kind, cur.id>>}
          /\ UNCHANGED <<daemonVars, connVars, dartVars>>
        BY <1>1, InsideInfo DEF PostInfo, CutInv
    <2>2. /\ native \in Graphs /\ idTypes \in [Ids -> Kinds \union {"none"}]
          /\ proxies \subseteq Ids /\ announced \subseteq Kinds \X Ids
          /\ requests \in Seq(Requests) /\ wire \in Seq(Messages)
        BY <2>1 DEF TypeOK
    <2>3. MonitorTypes' /\ wire' \in Seq(Messages)
        BY <1>3, <2>1, <2>2 DEF MonitorTypes
    <2> QED BY <2>1, <2>3, OthersTyped
<1>5. CopyIsWhole' /\ Asked' /\ left' \in Seq(Kinds) /\ copying' \in BOOLEAN
      /\ copy' \in Graphs
    BY <1>1, InsideInfo, CopyKept DEF PostInfo
<1>6. LockedTypeOK'
    BY <1>5 DEF PostInfo, CutInv, LockedTypeOK, Locked
<1>7. Mutex'
    BY <1>1, InsideInfo DEF PostInfo, Mutex, Locked, copyVars
<1>8. Running' /\ InGlobal' /\ InInfo'
    BY <1>1, InsideInfo DEF PostInfo, Running, InGlobal, InInfo, connVars
<1> QED BY <1>4, <1>5, <1>6, <1>7, <1>8 DEF CutInv

\* An info handler unlocks.
LEMMA LeaveInfoInd == ASSUME CutInv, LeaveInfo PROVE CutInv'
<1>1. ~ copying /\ outbox = <<>>
    BY DEF CutInv, LeaveInfo, Mutex, Locked, Running
<1>2. TypeOK'
    BY TypeInd DEF LeaveInfo, CutInv
<1>3. CopyIsWhole' /\ Asked' /\ left' \in Seq(Kinds) /\ copying' \in BOOLEAN
      /\ copy' \in Graphs
    BY <1>1, CopyKept DEF LeaveInfo, vars
<1>4. LockedTypeOK'
    BY <1>2, <1>3 DEF LeaveInfo, CutInv, TypeOK, LockedTypeOK
<1>5. Mutex'
    BY <1>1 DEF LeaveInfo, Mutex, Locked, copyVars
<1>6. Running' /\ InGlobal' /\ InInfo'
    BY <1>1 DEF LeaveInfo, Running, InGlobal, InInfo
<1> QED BY <1>2, <1>3, <1>4, <1>5, <1>6 DEF CutInv

-----------------------------------------------------------------------------
\* The snapshot, the daemon, connect() and the isolate

\* get_snapshot_json takes the lock, which nobody holds.
LEMMA StartCopyInd == ASSUME CutInv, StartCopy PROVE CutInv'
<1>1. TypeOK'
    BY TypeInd DEF StartCopy, CutInv
<1>2. EmptyGraph \in Graphs
    BY DEF EmptyGraph, Graphs, ObjectMap
<1>3. LockedTypeOK'
    BY <1>1, <1>2 DEF StartCopy, CutInv, TypeOK, LockedTypeOK, stepVars, Kinds
<1>4. Mutex' /\ Asked'
    BY DEF StartCopy, CutInv, Mutex, Asked, stepVars, vars, dartVars
<1>5. CopyIsWhole'
    <2>1. left' = <<"node", "port", "link", "device">>
        BY DEF StartCopy
    <2>2. \A k \in Kinds : \E i \in DOMAIN left' : left'[i] = k
        <3>1. /\ DOMAIN left' = 1 .. 4 /\ left'[1] = "node" /\ left'[2] = "port"
              /\ left'[3] = "link" /\ left'[4] = "device"
            BY <2>1
        <3> QED BY <3>1 DEF Kinds
    <2> QED BY <2>2 DEF CopyIsWhole
<1>6. Running' /\ InGlobal' /\ InInfo'
    <2>1. UNCHANGED <<step, cur, before, outbox, native, idTypes, proxies, conn>>
        BY DEF StartCopy, stepVars, vars, monitorVars, connVars
    <2>2. First(Old)' = First(Old) /\ Last(First(Old))' = Last(First(Old))
        BY <2>1 DEF First, Last, Old, Updated
    <2> QED BY <2>1, <2>2 DEF CutInv, Running, InGlobal, InInfo, Has
<1> QED BY <1>1, <1>3, <1>4, <1>5, <1>6 DEF CutInv

\* What the isolate and the daemon leave of the loop's handler.
LEMMA HandlerKept ==
    ASSUME CutInv, UNCHANGED <<stepVars, native, idTypes, proxies>>,
           UNCHANGED conn \/ step = "idle"
    PROVE  Running' /\ InGlobal' /\ InInfo'
<1>1. First(Old)' = First(Old) /\ Last(First(Old))' = Last(First(Old))
    BY DEF First, Last, Old, Updated, stepVars
<1> QED BY <1>1 DEF CutInv, Running, InGlobal, InInfo, Has, stepVars

\* get_snapshot_json copies one more map: under the lock it does not change.
LEMMA CopyMapInd == ASSUME CutInv, CopyMap PROVE CutInv'
<1> DEFINE k == Head(left)
<1>1. TypeOK'
    BY TypeInd DEF CopyMap, CutInv
<1>2. /\ left \in Seq(Kinds) /\ left # <<>> /\ left' = Tail(left)
      /\ left' \in Seq(Kinds) /\ k \in Kinds
      /\ copy \in Graphs /\ native \in Graphs
      /\ copy' = [copy EXCEPT ![k] = native[k]]
      /\ copying /\ UNCHANGED <<vars, mutex, stepVars, copying>>
    BY DEF CopyMap, CutInv, LockedTypeOK
<1>3. copy' \in Graphs
    BY <1>2 DEF Graphs
<1>4. LockedTypeOK'
    BY <1>1, <1>2, <1>3 DEF CutInv, TypeOK, LockedTypeOK, stepVars
<1>5. Mutex' /\ Asked'
    BY <1>2 DEF CutInv, Mutex, Asked, stepVars, vars, dartVars
<1>6. CopyIsWhole'
    <2>1. SUFFICES ASSUME NEW c \in Kinds, \A i \in DOMAIN left' : left'[i] # c
                   PROVE  copy'[c] = native'[c]
        BY DEF CopyIsWhole
    <2>2. native' = native
        BY <1>2 DEF vars, monitorVars
    <2>3. CASE c = k
        BY <1>2, <2>2, <2>3 DEF Graphs
    <2>4. CASE c # k
        <3>1. \A i \in DOMAIN left : left[i] # c
            <4>1. SUFFICES ASSUME NEW i \in DOMAIN left PROVE left[i] # c
                OBVIOUS
            <4>2. CASE i = 1
                BY <1>2, <2>4, <4>2
            <4>3. CASE i # 1
                <5>1. i - 1 \in DOMAIN left' /\ left'[i - 1] = left[i]
                    BY <1>2, <4>3
                <5> QED BY <2>1, <5>1
            <4> QED BY <4>2, <4>3
        <3> QED BY <1>2, <2>2, <2>4, <3>1 DEF CutInv, CopyIsWhole, Graphs
    <2> QED BY <2>3, <2>4
<1>7. Running' /\ InGlobal' /\ InInfo'
    BY <1>2, HandlerKept DEF vars, monitorVars, connVars
<1> QED BY <1>1, <1>4, <1>5, <1>6, <1>7 DEF CutInv

\* get_snapshot_json has copied every map and unlocks.
LEMMA FinishCopyInd == ASSUME CutInv, FinishCopy PROVE CutInv'
<1> USE ConstantsAssumption
<1>1. EmptyGraph \in Graphs
    BY DEF EmptyGraph, Graphs, ObjectMap
<1>2. refreshes' \in 0 .. MaxRefresh
    BY DEF FinishCopy, CutInv, TypeOK, Asked
<1>3. TypeOK'
    BY <1>2 DEF FinishCopy, CutInv, TypeOK, LockedTypeOK, monitorVars,
                daemonVars, connVars
<1>4. LockedTypeOK'
    BY <1>1, <1>3 DEF FinishCopy, CutInv, TypeOK, LockedTypeOK, stepVars
<1>5. Mutex' /\ Asked' /\ CopyIsWhole'
    BY DEF FinishCopy, CutInv, Mutex, Asked, CopyIsWhole, stepVars
<1>6. Running' /\ InGlobal' /\ InInfo'
    BY HandlerKept DEF FinishCopy, monitorVars, connVars
<1> QED BY <1>3, <1>4, <1>5, <1>6 DEF CutInv

\* Steps of GraphMirror that the cut does not touch.
LEMMA UncutInd ==
    ASSUME CutInv, Next, UNCHANGED lockVars, UNCHANGED <<native, idTypes, proxies>>,
           UNCHANGED conn \/ step = "idle",
           UNCHANGED <<dart, refreshes>> \/ ~ copying
    PROVE  CutInv'
<1>1. TypeOK'
    BY TypeInd DEF CutInv
<1>2. LockedTypeOK'
    BY DEF CutInv, LockedTypeOK, lockVars, stepVars, copyVars
<1>3. Mutex' /\ Asked' /\ CopyIsWhole'
    BY DEF CutInv, Mutex, Asked, CopyIsWhole, lockVars, stepVars, copyVars
<1>4. Running' /\ InGlobal' /\ InInfo'
    BY HandlerKept DEF lockVars
<1> QED BY <1>1, <1>2, <1>3, <1>4 DEF CutInv

\* The daemon touches nothing of the client but what is under way to it and
\* from it.
LEMMA DaemonApart ==
    ASSUME Daemon \/ DaemonAnswer
    PROVE  UNCHANGED <<monitorVars, port, connVars, dartVars>> /\ Next
BY DEF Daemon, DaemonAnswer, DaemonAdd, DaemonRemove, DaemonChange, DaemonBind,
       DaemonSync, Next

\* The rounds of connect touch neither the maps nor the mutex.
LEMMA ConnectApart ==
    ASSUME Connect
    PROVE  UNCHANGED <<monitorVars, port, daemonVars, wire, graph, snap, refreshes>>
           /\ Next
BY DEF Connect, StartRound1, StartRound2, StartRound, FinishConnect, Next, dartVars

\* What the isolate does outside the snapshot touches nothing of the monitor.
LEMMA IsolateApart ==
    ASSUME AssignGraph \/ Deliver
    PROVE  UNCHANGED <<monitorVars, requests, daemonVars, wire, connVars>> /\ Next
BY DEF AssignGraph, Deliver, Next, Isolate

\* Other messages leave the monitor as it is.
LEMMA MessageApart ==
    ASSUME ReceiveDone \/ ReceiveError
    PROVE  UNCHANGED <<monitorVars, requests, conn, dartVars>> /\ Next
BY DEF ReceiveDone, ReceiveError, Receive, OnCoreError, Loop, Next, connVars

-----------------------------------------------------------------------------
\* The invariant

\* Before the first message nobody is inside the maps.
LEMMA CutInit == LockedInit => CutInv
<1> SUFFICES ASSUME LockedInit PROVE CutInv
    OBVIOUS
<1>1. TypeOK
    BY TypeInit DEF LockedInit
<1>2. EmptyGraph \in Graphs
    BY DEF EmptyGraph, Graphs, ObjectMap
<1>3. LockedTypeOK
    <2>1. left \in Seq(Kinds) /\ outbox \in Seq(Requests) /\ Len(outbox) <= 1
        BY DEF LockedInit
    <2> QED BY <1>1, <1>2, <2>1 DEF LockedInit, LockedTypeOK, TypeOK
<1>4. Mutex /\ Running /\ InGlobal /\ InInfo /\ Asked /\ CopyIsWhole
    BY DEF LockedInit, Mutex, Running, InGlobal, InInfo, Asked, CopyIsWhole, Locked
<1> QED BY <1>1, <1>3, <1>4 DEF CutInv

\* Every step keeps the invariant, one step of a handler or of a snapshot at
\* a time.
LEMMA CutStep == CutInv /\ [LockedNext]_lockedVars => CutInv'
<1> SUFFICES ASSUME CutInv, [LockedNext]_lockedVars PROVE CutInv'
    OBVIOUS
<1>1. CASE Handler
    <2>1. CASE OtherMessage
        BY <2>1, MessageApart, UncutInd DEF OtherMessage, monitorVars, dartVars
    <2> QED
        BY <1>1, <2>1, BeginGlobalInd, EnterGlobalInd, LeaveGlobalInd,
           BeginRemoveInd, PostRemoveInd, LeaveRemoveInd, BeginInfoInd,
           UpdateFirstInd, UpdateRestInd, PostInfoInd, LeaveInfoInd
        DEF Handler
<1>2. CASE Snapshot
    BY <1>2, StartCopyInd, CopyMapInd, FinishCopyInd DEF Snapshot
<1>3. CASE (Daemon \/ DaemonAnswer) /\ UNCHANGED lockVars
    BY <1>3, DaemonApart, UncutInd DEF monitorVars, connVars, dartVars
<1>4. CASE step = "idle" /\ Connect /\ UNCHANGED lockVars
    <2>1. copying => UNCHANGED <<dart, refreshes>>
        BY <1>4, ConnectApart
        DEF CutInv, Asked, Connect, StartRound1, StartRound2, StartRound,
            FinishConnect, dartVars
    <2> QED
        BY <1>4, <2>1, ConnectApart, UncutInd DEF monitorVars, CutInv, LockedTypeOK
<1>5. CASE ~ copying /\ (AssignGraph \/ Deliver) /\ UNCHANGED lockVars
    BY <1>5, IsolateApart, UncutInd DEF monitorVars, connVars
<1>6. CASE UNCHANGED lockedVars
    <2>1. UNCHANGED <<vars, lockVars>>
        BY <1>6 DEF lockedVars
    <2>2. TypeOK'
        BY <2>1, TypeInd DEF CutInv
    <2>3. LockedTypeOK' /\ Mutex' /\ Asked' /\ CopyIsWhole'
        BY <2>1
        DEF CutInv, LockedTypeOK, Mutex, Asked, CopyIsWhole, lockVars, stepVars,
            copyVars, vars, monitorVars, dartVars
    <2>4. Running' /\ InGlobal' /\ InInfo'
        BY <2>1, HandlerKept DEF lockVars, vars, monitorVars, connVars
    <2> QED BY <2>2, <2>3, <2>4 DEF CutInv
<1> QED
    BY <1>1, <1>2, <1>3, <1>4, <1>5, <1>6 DEF LockedNext

\* At every cut the handler is where CutInv says it is.
LEMMA CutInvariant == LockedSpec => []CutInv
BY CutInit, CutStep, PTL DEF LockedSpec

\* Type correctness of the handlers and the snapshot cut at the mutex.
THEOREM Locked_Type_Correct == LockedSpec => []LockedTypeOK
<1>1. CutInv => LockedTypeOK
    BY DEF CutInv
<1> QED BY <1>1, CutInvariant, PTL

\* The PipeWire thread and the isolate are never in the maps together.
THEOREM No_Map_Race == LockedSpec => []NoMapRace
<1>1. CutInv => NoMapRace
    BY DEF CutInv, Mutex, NoMapRace
<1> QED BY <1>1, CutInvariant, PTL

\* A snapshot is one state of the four maps.
THEOREM Copy_Is_Whole == LockedSpec => []CopyIsWhole
<1>1. CutInv => CopyIsWhole
    BY DEF CutInv
<1> QED BY <1>1, CutInvariant, PTL

-----------------------------------------------------------------------------
\* GraphMirror as it is seen, step by step

\* Between two handlers, and once an info is posted, all is as it is.
LEMMA SeenPlain ==
    ASSUME step \in {"idle", "posted"}
    PROVE  /\ SeenNative = native /\ SeenTypes = idTypes
           /\ SeenProxies = proxies /\ SeenRequests = requests
           /\ SeenWire = wire
BY DEF SeenNative, SeenTypes, SeenProxies, SeenRequests, SeenWire, Pending

\* Before a handler takes effect its message is the next one.
LEMMA SeenPending ==
    ASSUME CutInv, Pending
    PROVE  /\ SeenNative = IF step = "bound" THEN native ELSE before.maps
           /\ SeenTypes = before.types
           /\ SeenProxies = proxies /\ SeenRequests = requests
           /\ SeenWire # <<>> /\ Head(SeenWire) = cur /\ Tail(SeenWire) = wire
<1>1. cur \in Messages /\ wire \in Seq(Messages)
    <2>1. CASE step = "bound"
        BY <2>1 DEF CutInv, Running, TypeOK, Messages
    <2>2. CASE step = "erased"
        BY <2>2 DEF CutInv, InGlobal, TypeOK, Messages
    <2>3. CASE step \in {"found", "updating", "updated"}
        BY <2>3, InsideInfo DEF CutInv, TypeOK, Messages
    <2> QED BY <2>1, <2>2, <2>3 DEF Pending
<1>2. SeenWire = <<cur>> \o wire
    BY DEF SeenWire
<1>3. SeenWire # <<>> /\ Head(SeenWire) = cur /\ Tail(SeenWire) = wire
    BY <1>1, <1>2, InHand
<1> QED
    BY <1>3 DEF SeenNative, SeenTypes, SeenProxies, SeenRequests, Pending

\* Nothing that GraphMirror shows changes.
Stutter ==
    UNCHANGED <<SeenNative, SeenTypes, SeenProxies, announced, SeenRequests, port,
                daemonVars, SeenWire, connVars, dartVars>>

\* A step that leaves what Mirror sees is no step of GraphMirror.
LEMMA StutterMaps == Stutter => UNCHANGED Mirror!vars
BY DEF Stutter, Mirror!vars, Mirror!monitorVars, Mirror!daemonVars,
       Mirror!connVars, Mirror!dartVars, daemonVars, connVars, dartVars

\* A message that changes nothing is skipped there too.
LEMMA SkipMaps ==
    ASSUME CutInv, NEW op, Take(op), Skip
    PROVE  /\ Mirror!Receive(op)
           /\ UNCHANGED <<Mirror!monitorVars, SeenRequests, port>>
           /\ UNCHANGED Mirror!connVars
<1>1. step = "idle" /\ step' = "idle"
    BY Taken DEF Skip
<1>2. /\ SeenNative = native /\ SeenTypes = idTypes /\ SeenProxies = proxies
      /\ SeenRequests = requests /\ SeenWire = wire
    BY <1>1, SeenPlain
<1>3. /\ SeenNative' = native' /\ SeenTypes' = idTypes' /\ SeenProxies' = proxies'
      /\ SeenRequests' = requests' /\ SeenWire' = wire'
    BY <1>1 DEF SeenNative, SeenTypes, SeenProxies, SeenRequests, SeenWire, Pending
<1> QED
    BY <1>2, <1>3, Taken
    DEF Skip, Mirror!Receive, Mirror!monitorVars, Mirror!connVars, monitorVars,
        daemonVars, dartVars, connVars, Mirror!daemonVars, Mirror!dartVars

\* A global that is bound shows nothing before its entry; any other is
\* dropped at once.
LEMMA BeginGlobalMaps ==
    ASSUME CutInv, BeginGlobal PROVE Mirror!ReceiveGlobal \/ Stutter
<1> DEFINE m == Head(wire)
<1>1. CASE m.obj.kind \notin Kinds
    <2>1. Take("global") /\ Skip
        BY <1>1 DEF BeginGlobal
    <2>2. SeenWire = wire
        BY <2>1, Taken, SeenPlain
    <2>3. Mirror!OnUnknownGlobal(m.obj)
        BY <1>1, <2>1, SkipMaps DEF Mirror!OnUnknownGlobal, Mirror!Kinds, Kinds
    <2> QED BY <2>1, <2>2, <2>3, SkipMaps DEF Mirror!ReceiveGlobal
<1>2. CASE m.obj.kind \in Kinds
    <2>1. /\ Take("global") /\ step = "idle" /\ step' = "bound"
          /\ before'.types = idTypes /\ cur' = m
          /\ wire \in Seq(Messages) /\ wire # <<>> /\ m \in Messages
          /\ wire' = Tail(wire)
          /\ UNCHANGED <<native, proxies, announced, requests, port, mutex>>
          /\ UNCHANGED <<connVars, daemonVars, dartVars>>
        BY <1>2, Taken DEF BeginGlobal
    <2>2. SeenWire' = <<m>> \o Tail(wire)
        BY <2>1 DEF SeenWire, Pending
    <2>3. SeenWire' = wire
        BY <2>1, <2>2, InHand
    <2>4. /\ SeenNative' = native /\ SeenTypes' = idTypes
          /\ SeenProxies' = proxies /\ SeenRequests' = requests
        BY <2>1 DEF SeenNative, SeenTypes, SeenProxies, SeenRequests, Pending
    <2> QED BY <2>1, <2>3, <2>4, SeenPlain DEF Stutter
<1> QED BY <1>1, <1>2

\* on_global takes effect when the entry is in its map.
LEMMA EnterGlobalMaps == ASSUME CutInv, EnterGlobal PROVE Mirror!ReceiveGlobal
<1>1. /\ step = "bound" /\ Pending /\ step' = "entered" /\ ~ Pending'
      /\ cur \in Globals /\ cur.obj.kind \in Kinds
      /\ outbox = <<[op |-> "bind", id |-> cur.id, gen |-> cur.gen]>>
      /\ conn \in {"round1", "round2", "up"}
      /\ idTypes = [before.types EXCEPT ![cur.id] = cur.obj.kind]
      /\ requests \in Seq(Requests) /\ outbox \in Seq(Requests)
    BY DEF EnterGlobal, CutInv, Running, InGlobal, Pending, TypeOK, LockedTypeOK
<1>2. /\ SeenNative = native /\ SeenTypes = before.types
      /\ SeenProxies = proxies /\ SeenRequests = requests
      /\ SeenWire # <<>> /\ Head(SeenWire) = cur /\ Tail(SeenWire) = wire
    BY <1>1, SeenPending
<1>3. SeenRequests' = Append(requests, [op |-> "bind", id |-> cur.id, gen |-> cur.gen])
    <2>1. SeenRequests' = requests \o outbox
        BY <1>1 DEF EnterGlobal, SeenRequests
    <2> QED BY <1>1, <2>1
<1>4. /\ SeenNative' = native' /\ SeenTypes' = idTypes
      /\ SeenProxies' = proxies \union {cur.id} /\ SeenWire' = wire
    BY <1>1
    DEF EnterGlobal, SeenNative, SeenTypes, SeenProxies, SeenWire
<1>5. cur.op = "global"
    BY <1>1 DEF Globals
<1>6. Mirror!OnGlobal(cur.id, cur.gen, cur.obj)
    BY <1>1, <1>2, <1>3, <1>4
    DEF EnterGlobal, Mirror!OnGlobal, Mirror!Kinds, Kinds, Mirror!WithObject,
        WithObject, Mirror!FirstState, FirstState
<1>7. Mirror!Receive("global") /\ UNCHANGED Mirror!connVars
    BY <1>1, <1>2, <1>4, <1>5
    DEF EnterGlobal, Mirror!Receive, Mirror!daemonVars, Mirror!dartVars,
        Mirror!connVars, daemonVars, dartVars, connVars
<1> QED BY <1>2, <1>6, <1>7 DEF Mirror!ReceiveGlobal

\* What on_global does after the unlock was already seen.
LEMMA LeaveGlobalMaps == ASSUME CutInv, LeaveGlobal PROVE Stutter
<1>1. step = "entered" /\ step' = "idle"
    BY DEF LeaveGlobal
<1>2. /\ SeenNative = native /\ SeenTypes = idTypes
      /\ SeenProxies = proxies \union {cur.id}
      /\ SeenRequests = requests \o outbox /\ SeenWire = wire
    BY <1>1 DEF SeenNative, SeenTypes, SeenProxies, SeenRequests, SeenWire, Pending
<1>3. /\ SeenNative' = native' /\ SeenTypes' = idTypes' /\ SeenProxies' = proxies'
      /\ SeenRequests' = requests' /\ SeenWire' = wire'
    BY <1>1 DEF SeenNative, SeenTypes, SeenProxies, SeenRequests, SeenWire, Pending
<1> QED BY <1>2, <1>3 DEF LeaveGlobal, Stutter

\* The erased entry is seen until the removal is posted; an unknown id is
\* dropped.
LEMMA BeginRemoveMaps ==
    ASSUME CutInv, BeginRemove PROVE Mirror!ReceiveGlobalRemove \/ Stutter
<1> DEFINE m == Head(wire)
<1>1. CASE idTypes[m.id] = "none"
    <2>1. Take("global_remove") /\ Skip
        BY <1>1 DEF BeginRemove
    <2>2. SeenWire = wire /\ SeenTypes = idTypes
        BY <2>1, Taken, SeenPlain
    <2>3. Mirror!OnUnknownRemove(m.id)
        BY <1>1, <2>1, <2>2, SkipMaps DEF Mirror!OnUnknownRemove
    <2> QED BY <2>1, <2>2, <2>3, SkipMaps DEF Mirror!ReceiveGlobalRemove
<1>2. CASE idTypes[m.id] # "none"
    <2>1. /\ step = "idle" /\ step' = "erased"
          /\ before'.types = idTypes /\ before'.maps = native /\ cur' = m
          /\ wire \in Seq(Messages) /\ wire # <<>> /\ m \in Messages
          /\ wire' = Tail(wire)
          /\ UNCHANGED <<proxies, announced, requests, port>>
          /\ UNCHANGED <<connVars, daemonVars, dartVars>>
        BY <1>2, Taken DEF BeginRemove
    <2>2. SeenWire' = <<m>> \o Tail(wire)
        BY <2>1 DEF SeenWire, Pending
    <2>3. SeenWire' = wire
        BY <2>1, <2>2, InHand
    <2>4. /\ SeenNative' = native /\ SeenTypes' = idTypes
          /\ SeenProxies' = proxies /\ SeenRequests' = requests
        BY <2>1 DEF SeenNative, SeenTypes, SeenProxies, SeenRequests, Pending
    <2> QED BY <2>1, <2>3, <2>4, SeenPlain DEF Stutter
<1> QED BY <1>1, <1>2

\* on_global_remove takes effect where it posts.
LEMMA PostRemoveMaps == ASSUME CutInv, PostRemove PROVE Mirror!ReceiveGlobalRemove
<1>1. /\ step = "erased" /\ Pending /\ step' = "removed" /\ ~ Pending'
      /\ cur \in Removes /\ cur.op = "global_remove"
      /\ conn \in {"round1", "round2", "up"}
      /\ before.types = idTypes /\ idTypes[cur.id] # "none"
      /\ native = WithoutObject(before.maps, idTypes[cur.id], cur.id)
    BY DEF PostRemove, CutInv, Running, InGlobal, Pending, Removes
<1>2. /\ SeenNative = before.maps /\ SeenTypes = idTypes
      /\ SeenProxies = proxies /\ SeenRequests = requests
      /\ SeenWire # <<>> /\ Head(SeenWire) = cur /\ Tail(SeenWire) = wire
    BY <1>1, SeenPending
<1>3. /\ SeenNative' = native /\ SeenTypes' = [idTypes EXCEPT ![cur.id] = "none"]
      /\ SeenProxies' = proxies \ {cur.id} /\ SeenRequests' = requests
      /\ SeenWire' = wire
    BY <1>1
    DEF PostRemove, SeenNative, SeenTypes, SeenProxies, SeenRequests, SeenWire
<1>4. Mirror!OnGlobalRemove(cur.id)
    BY <1>1, <1>2, <1>3
    DEF PostRemove, Mirror!OnGlobalRemove, Mirror!WithoutObject, WithoutObject,
        Mirror!EventKinds, EventKinds, Mirror!PostEvent, PostEvent,
        Mirror!Removal, Removal, Mirror!RemovalType, RemovalType
<1>5. Mirror!Receive("global_remove") /\ UNCHANGED Mirror!connVars
    BY <1>1, <1>2, <1>3
    DEF PostRemove, Mirror!Receive, Mirror!daemonVars, Mirror!dartVars,
        Mirror!connVars, daemonVars, dartVars, connVars
<1> QED BY <1>2, <1>4, <1>5 DEF Mirror!ReceiveGlobalRemove

\* What on_global_remove does after the unlock was already seen.
LEMMA LeaveRemoveMaps == ASSUME CutInv, LeaveRemove PROVE Stutter
<1>1. step = "removed" /\ step' = "idle"
    BY DEF LeaveRemove
<1>2. /\ SeenNative = native /\ SeenTypes = [idTypes EXCEPT ![cur.id] = "none"]
      /\ SeenProxies = proxies \ {cur.id}
      /\ SeenRequests = requests /\ SeenWire = wire
    BY <1>1 DEF SeenNative, SeenTypes, SeenProxies, SeenRequests, SeenWire, Pending
<1>3. /\ SeenNative' = native' /\ SeenTypes' = idTypes' /\ SeenProxies' = proxies'
      /\ SeenRequests' = requests' /\ SeenWire' = wire'
    BY <1>1 DEF SeenNative, SeenTypes, SeenProxies, SeenRequests, SeenWire, Pending
<1> QED BY <1>2, <1>3 DEF LeaveRemove, Stutter

\* An info of an unknown entry is dropped; for any other nothing is seen yet.
LEMMA BeginInfoMaps == ASSUME CutInv, BeginInfo PROVE Mirror!ReceiveInfo \/ Stutter
<1> DEFINE m == Head(wire)
<1>1. CASE ~ (m.id \in proxies /\ m.kind \in Kinds /\ Has(native, m.kind, m.id))
    <2>1. Take("info") /\ Skip
        BY <1>1 DEF BeginInfo
    <2>2. SeenWire = wire /\ SeenProxies = proxies /\ SeenNative = native
        BY <2>1, Taken, SeenPlain
    <2>3. m.id \in SeenProxies => Mirror!OnStaleInfo(m.id, m)
        BY <1>1, <2>1, <2>2, SkipMaps
        DEF Mirror!OnStaleInfo, Mirror!Kinds, Kinds, Mirror!Has, Has
    <2> QED BY <2>1, <2>2, <2>3, SkipMaps DEF Mirror!ReceiveInfo
<1>2. CASE m.id \in proxies /\ m.kind \in Kinds /\ Has(native, m.kind, m.id)
    <2>1. /\ step = "idle" /\ step' = "found"
          /\ before'.types = idTypes /\ before'.maps = native /\ cur' = m
          /\ wire \in Seq(Messages) /\ wire # <<>> /\ m \in Messages
          /\ wire' = Tail(wire)
          /\ UNCHANGED <<native, idTypes, proxies, announced, requests, port>>
          /\ UNCHANGED <<connVars, daemonVars, dartVars>>
        BY <1>2, Taken DEF BeginInfo, monitorVars
    <2>2. SeenWire' = <<m>> \o Tail(wire)
        BY <2>1 DEF SeenWire, Pending
    <2>3. SeenWire' = wire
        BY <2>1, <2>2, InHand
    <2>4. /\ SeenNative' = native /\ SeenTypes' = idTypes
          /\ SeenProxies' = proxies /\ SeenRequests' = requests
        BY <2>1 DEF SeenNative, SeenTypes, SeenProxies, SeenRequests, Pending
    <2> QED BY <2>1, <2>3, <2>4, SeenPlain DEF Stutter
<1> QED BY <1>1, <1>2

\* A half changed entry is not seen.
LEMMA ChangeMaps ==
    ASSUME CutInv, NEW from \in {"found", "updating"},
           NEW to \in {"updating", "updated"}, NEW obj, Change(from, to, obj)
    PROVE  Stutter
<1>1. /\ step = from /\ step' = to
      /\ UNCHANGED <<cur, before, idTypes, proxies, announced, requests, port, wire,
                     daemonVars, connVars, dartVars>>
    BY DEF Change
<1>2. /\ SeenNative = before.maps /\ SeenTypes = before.types
      /\ SeenProxies = proxies /\ SeenRequests = requests
      /\ SeenWire = <<cur>> \o wire
    BY <1>1 DEF SeenNative, SeenTypes, SeenProxies, SeenRequests, SeenWire, Pending
<1>3. /\ SeenNative' = before'.maps /\ SeenTypes' = before'.types
      /\ SeenProxies' = proxies' /\ SeenRequests' = requests'
      /\ SeenWire' = <<cur'>> \o wire'
    BY <1>1 DEF SeenNative, SeenTypes, SeenProxies, SeenRequests, SeenWire, Pending
<1> QED BY <1>1, <1>2, <1>3 DEF Stutter

\* An info handler takes effect where it posts, its changes and its event in
\* one.
LEMMA PostInfoMaps == ASSUME CutInv, PostInfo PROVE Mirror!ReceiveInfo
<1> DEFINE k == cur.kind  id == cur.id  obj == Last(First(Old))
<1>1. /\ step = "updated" /\ Pending /\ step' = "posted" /\ ~ Pending'
      /\ native = WithObject(before.maps, k, id, obj)
    BY DEF PostInfo, CutInv, InInfo, Pending
<1>2. /\ cur \in Infos /\ cur.op = "info" /\ k \in Kinds /\ id \in Ids
      /\ before.maps \in Graphs /\ before.types = idTypes
      /\ Has(before.maps, k, id) /\ id \in proxies
      /\ conn \in {"round1", "round2", "up"}
    BY <1>1, InsideInfo DEF Infos
<1>3. /\ SeenNative = before.maps /\ SeenTypes = idTypes
      /\ SeenProxies = proxies /\ SeenRequests = requests
      /\ SeenWire # <<>> /\ Head(SeenWire) = cur /\ Tail(SeenWire) = wire
    BY <1>1, <1>2, SeenPending
<1>4. /\ SeenNative' = native /\ SeenTypes' = idTypes
      /\ SeenProxies' = proxies /\ SeenRequests' = requests
      /\ SeenWire' = wire
    BY <1>1
    DEF PostInfo, SeenNative, SeenTypes, SeenProxies, SeenRequests, SeenWire
<1>5. native[k][id] = obj
    BY <1>1, <1>2 DEF WithObject, Graphs, ObjectMap
<1>6. Mirror!Has(SeenNative, k, id)
    BY <1>2, <1>3 DEF Has, Mirror!Has
<1>7. Mirror!Enter(k, id, obj)
    BY <1>1, <1>3, <1>4
    DEF PostInfo, Mirror!Enter, Mirror!WithObject, WithObject
<1>8. Mirror!Receive("info") /\ UNCHANGED Mirror!connVars
    BY <1>1, <1>2, <1>3, <1>4
    DEF PostInfo, Mirror!Receive, Mirror!daemonVars, Mirror!dartVars,
        Mirror!connVars, daemonVars, dartVars, connVars
<1>9. Old \in Objects
    BY <1>1, InsideInfo
<1>10. k # "device" => PostEvent(Upsert(InfoEvent, id, obj))
    BY <1>5 DEF PostInfo
<1>11. CASE k = "node"
    <2>1. obj = [Updated(Old, cur) EXCEPT !.st = cur.st]
        BY <1>9, <1>11 DEF Last, First, Updated, Objects
    <2>2. InfoEvent = IF Old.st = "creating" THEN "NodeAdded" ELSE "NodeInfoChanged"
        BY <1>11 DEF InfoEvent, Old
    <2>3. Mirror!OnNodeInfo(id, cur)
        BY <1>3, <1>6, <1>7, <1>10, <1>11, <2>1, <2>2
        DEF Mirror!OnNodeInfo, Old, Mirror!Updated, Updated, Mirror!PostEvent,
            PostEvent, Mirror!Upsert, Upsert
    <2> QED BY <1>3, <1>2, <1>8, <1>11, <2>3 DEF Mirror!ReceiveInfo
<1>12. CASE k = "port"
    <2>1. obj = Updated(Old, cur) /\ InfoEvent = "PortAdded"
        BY <1>12 DEF Last, First, InfoEvent
    <2>2. Mirror!OnPortInfo(id, cur)
        BY <1>3, <1>6, <1>7, <1>10, <1>12, <2>1
        DEF Mirror!OnPortInfo, Old, Mirror!Updated, Updated, Mirror!PostEvent,
            PostEvent, Mirror!Upsert, Upsert
    <2> QED BY <1>3, <1>2, <1>8, <1>12, <2>2 DEF Mirror!ReceiveInfo
<1>13. CASE k = "link"
    <2>1. obj = [Old EXCEPT !.st = cur.st, !.refs = cur.refs]
        BY <1>9, <1>13 DEF Last, First, Objects
    <2>2. InfoEvent = IF Old.st = "init" THEN "LinkAdded" ELSE "LinkStateChanged"
        BY <1>13 DEF InfoEvent, Old
    <2>3. Mirror!OnLinkInfo(id, cur)
        BY <1>3, <1>6, <1>7, <1>10, <1>13, <2>1, <2>2
        DEF Mirror!OnLinkInfo, Old, Mirror!PostEvent, PostEvent, Mirror!Upsert,
            Upsert
    <2> QED BY <1>3, <1>2, <1>8, <1>13, <2>3 DEF Mirror!ReceiveInfo
<1>14. CASE k = "device"
    <2>1. obj = Updated(Old, cur)
        BY <1>14 DEF Last, First
    <2>2. Mirror!OnDeviceInfo(id, cur)
        BY <1>3, <1>6, <1>7, <1>14, <2>1
        DEF PostInfo, Mirror!OnDeviceInfo, Old, Mirror!Updated, Updated
    <2> QED BY <1>3, <1>2, <1>8, <1>14, <2>2 DEF Mirror!ReceiveInfo
<1> QED BY <1>2, <1>11, <1>12, <1>13, <1>14 DEF Kinds

\* The unlock of an info handler changes nothing that is seen.
LEMMA LeaveInfoMaps == ASSUME CutInv, LeaveInfo PROVE Stutter
<1>1. step = "posted" /\ step' = "idle" /\ UNCHANGED vars
    BY DEF LeaveInfo
<1>2. /\ SeenNative' = native' /\ SeenTypes' = idTypes' /\ SeenProxies' = proxies'
      /\ SeenRequests' = requests' /\ SeenWire' = wire'
    BY <1>1 DEF SeenNative, SeenTypes, SeenProxies, SeenRequests, SeenWire, Pending
<1> QED BY <1>1, <1>2, SeenPlain DEF Stutter, vars, monitorVars

\* A done and a core error meet a loop between two handlers.
LEMMA OtherMessageMaps ==
    ASSUME CutInv, OtherMessage PROVE Mirror!ReceiveDone \/ Mirror!ReceiveError
<1>1. step = "idle" /\ step' = "idle" /\ UNCHANGED lockVars
    BY DEF OtherMessage, lockVars, stepVars
<1>2. /\ SeenNative' = native' /\ SeenTypes' = idTypes' /\ SeenProxies' = proxies'
      /\ SeenRequests' = requests' /\ SeenWire' = wire'
    BY <1>1 DEF SeenNative, SeenTypes, SeenProxies, SeenRequests, SeenWire, Pending
<1> QED
    BY <1>1, <1>2, SeenPlain
    DEF OtherMessage, ReceiveDone, ReceiveError, Receive, OnCoreError, PostEvent,
        Mirror!ReceiveDone, Mirror!ReceiveError, Mirror!Receive,
        Mirror!OnCoreError, Mirror!PostEvent, Mirror!daemonVars, daemonVars,
        Mirror!dartVars, dartVars, Mirror!monitorVars, monitorVars,
        Mirror!connVars, connVars

\* What leaves the monitor and the wire alone leaves what is seen of them.
LEMMA SeenKept ==
    ASSUME UNCHANGED <<step, cur, before, outbox>>, UNCHANGED monitorVars
    PROVE  /\ UNCHANGED <<SeenNative, SeenTypes, SeenProxies>>
           /\ wire' = wire => SeenWire' = SeenWire
           /\ requests' = requests => SeenRequests' = SeenRequests
BY DEF SeenNative, SeenTypes, SeenProxies, SeenRequests, SeenWire, Pending,
       monitorVars

\* A snapshot that is being copied is not seen.
LEMMA CopyingMaps == ASSUME CutInv, StartCopy \/ CopyMap PROVE Stutter
BY SeenKept DEF StartCopy, CopyMap, stepVars, vars, Stutter, monitorVars

\* The finished copy is the state of the maps, so the snapshot is taken in
\* one step.
LEMMA FinishCopyMaps ==
    ASSUME CutInv, FinishCopy
    PROVE  Mirror!TakeFirstSnapshot \/ Mirror!TakeSnapshot
<1>1. /\ copying /\ left = <<>> /\ step \notin Locked
      /\ UNCHANGED <<step, cur, before, outbox, monitorVars, requests, port,
                     daemonVars, wire, connVars, graph>>
    BY DEF FinishCopy, stepVars, CutInv, Mutex
<1>2. SeenNative = native
    BY <1>1 DEF SeenNative, Pending, Locked
<1>3. copy = native
    BY <1>1 DEF CutInv, CopyIsWhole, LockedTypeOK, Graphs
<1>4. /\ UNCHANGED <<SeenNative, SeenTypes, SeenProxies, SeenWire, SeenRequests>>
    BY <1>1, SeenKept
<1>5. dart = "connected" \/ (dart = "listening" /\ refreshes < MaxRefresh)
    BY <1>1 DEF CutInv, Asked
<1> QED
    BY <1>1, <1>2, <1>3, <1>4, <1>5
    DEF FinishCopy, Mirror!TakeFirstSnapshot, Mirror!TakeSnapshot,
        Mirror!monitorVars, monitorVars, Mirror!daemonVars, daemonVars,
        Mirror!connVars, connVars

\* The daemon's end of the wire and of the requests is as it is.
LEMMA SeenEnds ==
    ASSUME CutInv, wire' \in Seq(Messages), UNCHANGED <<step, cur, before, outbox>>
    PROVE  /\ \A m : wire' = Append(wire, m) => SeenWire' = Append(SeenWire, m)
           /\ requests # <<>> =>
                 /\ SeenRequests # <<>> /\ Head(SeenRequests) = Head(requests)
                 /\ requests' = Tail(requests) => SeenRequests' = Tail(SeenRequests)
<1>1. wire \in Seq(Messages) /\ requests \in Seq(Requests)
      /\ outbox \in Seq(Requests)
    BY DEF CutInv, TypeOK, LockedTypeOK
<1>2. ASSUME NEW m, wire' = Append(wire, m)
      PROVE  SeenWire' = Append(SeenWire, m)
    <2>1. m \in Messages
        <3>1. wire'[Len(wire) + 1] = m /\ Len(wire) + 1 \in DOMAIN wire'
            BY <1>1, <1>2
        <3> QED BY <3>1
    <2>2. CASE Pending
        <3>1. cur \in Messages
            <4>1. CASE step = "bound"
                BY <4>1 DEF CutInv, Running, Messages
            <4>2. CASE step = "erased"
                BY <4>2 DEF CutInv, InGlobal, Messages
            <4>3. CASE step \in {"found", "updating", "updated"}
                BY <4>3, InsideInfo DEF Messages
            <4> QED BY <2>2, <4>1, <4>2, <4>3 DEF Pending
        <3>2. SeenWire = <<cur>> \o wire /\ SeenWire' = <<cur>> \o Append(wire, m)
            BY <1>2, <2>2 DEF SeenWire, Pending
        <3> QED BY <1>1, <2>1, <3>1, <3>2, InHand
    <2>3. CASE ~ Pending
        BY <1>2, <2>3 DEF SeenWire, Pending
    <2> QED BY <2>2, <2>3
<1>3. ASSUME requests # <<>>
      PROVE  /\ SeenRequests # <<>> /\ Head(SeenRequests) = Head(requests)
             /\ requests' = Tail(requests) => SeenRequests' = Tail(SeenRequests)
    <2>1. CASE step = "entered"
        <3> DEFINE b == [op |-> "bind", id |-> cur.id, gen |-> cur.gen]
        <3>1. outbox = <<b>> /\ b \in Requests
            <4>1. outbox = <<b>>
                BY <2>1 DEF CutInv, Running
            <4>2. cur \in Globals
                BY <2>1 DEF CutInv, Running
            <4> QED BY <4>1, <4>2 DEF Globals, Requests
        <3>2. SeenRequests = requests \o <<b>> /\ SeenRequests' = requests' \o <<b>>
            BY <2>1, <3>1 DEF SeenRequests
        <3>3. /\ SeenRequests = Append(requests, b)
              /\ requests' = Tail(requests) => SeenRequests' = Append(Tail(requests), b)
            <4>1. Tail(requests) \in Seq(Requests)
                BY <1>1, <1>3
            <4>2. Tail(requests) \o <<b>> = Append(Tail(requests), b)
                BY <3>1, <4>1, InBuffer
            <4>3. requests \o <<b>> = Append(requests, b)
                BY <1>1, <3>1, InBuffer
            <4> QED BY <3>2, <4>2, <4>3
        <3>4. /\ Append(requests, b) # <<>>
              /\ Head(Append(requests, b)) = Head(requests)
              /\ Tail(Append(requests, b)) = Append(Tail(requests), b)
            BY <1>1, <1>3, <3>1, InBuffer
        <3> QED BY <3>3, <3>4
    <2>2. CASE step # "entered"
        BY <1>3, <2>2 DEF SeenRequests
    <2> QED BY <2>1, <2>2
<1> QED BY <1>2, <1>3

\* A change of the daemon's registry adds to the wire behind the pending
\* message.
LEMMA DaemonMaps ==
    ASSUME CutInv, Daemon, UNCHANGED lockVars PROVE Mirror!Daemon
<1>1. /\ UNCHANGED <<step, cur, before, outbox, monitorVars, requests, port,
                     connVars, dartVars>>
    BY DaemonApart
    DEF lockVars, stepVars, Daemon, DaemonAdd, DaemonRemove, DaemonChange
<1>2. wire' \in Seq(Messages)
    BY DaemonApart, TypeInd DEF CutInv, TypeOK
<1>3. /\ UNCHANGED <<SeenNative, SeenTypes, SeenProxies, SeenRequests>>
      /\ wire' = wire => SeenWire' = SeenWire
      /\ \A m : wire' = Append(wire, m) => SeenWire' = Append(SeenWire, m)
    BY <1>1, <1>2, SeenKept, SeenEnds
<1>4. UNCHANGED <<Mirror!monitorVars, SeenRequests, port, Mirror!connVars,
                  Mirror!dartVars>>
    BY <1>1, <1>3
    DEF Mirror!monitorVars, monitorVars, Mirror!connVars, connVars,
        Mirror!dartVars, dartVars
<1>5. ASSUME NEW entry \in Catalog, DaemonAdd(entry[1], entry[2])
      PROVE  Mirror!DaemonAdd(entry[1], entry[2])
    BY <1>3, <1>4, <1>5
    DEF DaemonAdd, Mirror!DaemonAdd, Rooted, Mirror!Rooted, Global, Mirror!Global
<1>6. ASSUME NEW id \in Ids, DaemonRemove(id) PROVE Mirror!DaemonRemove(id)
    BY <1>3, <1>4, <1>6
    DEF DaemonRemove, Mirror!DaemonRemove, Present, Mirror!Present
<1>7. ASSUME NEW id \in Ids, NEW newSt \in States, NEW newProps \in 0 .. MaxChanges,
             DaemonChange(id, newSt, newProps)
      PROVE  Mirror!DaemonChange(id, newSt, newProps)
    <2>1. SeenWire' = IF id \in bound
                      THEN Append(SeenWire, Info(id, [world[id] EXCEPT !.st = newSt,
                                                         !.props = newProps],
                                                 newProps # world[id].props))
                      ELSE SeenWire
        BY <1>3, <1>7 DEF DaemonChange
    <2> QED
        BY <1>4, <1>7, <2>1
        DEF DaemonChange, Mirror!DaemonChange, Info, Mirror!Info, LaterStates,
            Mirror!LaterStates
<1> QED
    BY <1>5, <1>6, <1>7 DEF Daemon, Mirror!Daemon, States, Mirror!States

\* The daemon answers requests in the order of GraphMirror, the flushed ones
\* first.
LEMMA DaemonAnswerMaps ==
    ASSUME CutInv, DaemonAnswer, UNCHANGED lockVars PROVE Mirror!DaemonAnswer
<1>1. /\ UNCHANGED <<step, cur, before, outbox, monitorVars, port, connVars, dartVars>>
      /\ requests # <<>> /\ requests' = Tail(requests)
    BY DaemonApart DEF lockVars, stepVars, DaemonAnswer, DaemonBind, DaemonSync
<1>2. wire' \in Seq(Messages)
    BY DaemonApart, TypeInd DEF CutInv, TypeOK
<1>3. /\ UNCHANGED <<SeenNative, SeenTypes, SeenProxies>>
      /\ \A m : wire' = Append(wire, m) => SeenWire' = Append(SeenWire, m)
      /\ SeenRequests # <<>> /\ Head(SeenRequests) = Head(requests)
      /\ SeenRequests' = Tail(SeenRequests)
    BY <1>1, <1>2, SeenKept, SeenEnds
<1>4. UNCHANGED <<Mirror!monitorVars, port, Mirror!connVars, Mirror!dartVars>>
    BY <1>1, <1>3
    DEF Mirror!monitorVars, monitorVars, Mirror!connVars, connVars,
        Mirror!dartVars, dartVars
<1>5. CASE DaemonBind
    BY <1>3, <1>4, <1>5
    DEF DaemonBind, Mirror!DaemonAnswer, Mirror!DaemonBind, Info, Mirror!Info
<1>6. CASE DaemonSync
    BY <1>3, <1>4, <1>6
    DEF DaemonSync, Mirror!DaemonAnswer, Mirror!DaemonSync, Mirror!daemonVars,
        daemonVars
<1> QED BY <1>5, <1>6 DEF DaemonAnswer

\* connect runs between handlers, where Mirror sees the state as it is.
LEMMA ConnectMaps ==
    ASSUME CutInv, step = "idle", Connect, UNCHANGED lockVars PROVE Mirror!Connect
<1>1. step' = "idle"
    BY DEF lockVars, stepVars
<1>2. /\ SeenNative' = native' /\ SeenTypes' = idTypes' /\ SeenProxies' = proxies'
      /\ SeenRequests' = requests' /\ SeenWire' = wire'
    BY <1>1 DEF SeenNative, SeenTypes, SeenProxies, SeenRequests, SeenWire, Pending
<1> QED
    BY <1>2, SeenPlain
    DEF Connect, StartRound1, StartRound2, StartRound, FinishConnect, RoundOver,
        Mirror!Connect, Mirror!StartRound1, Mirror!StartRound2, Mirror!StartRound,
        Mirror!FinishConnect, Mirror!RoundOver, monitorVars, Mirror!monitorVars,
        daemonVars, Mirror!daemonVars, dartVars, Mirror!dartVars

\* Delivery and assignment in the isolate are those of GraphMirror.
LEMMA IsolateMaps ==
    ASSUME CutInv, AssignGraph \/ Deliver, UNCHANGED lockVars PROVE Mirror!Isolate
<1>1. UNCHANGED <<step, cur, before, outbox, monitorVars, requests, wire>>
    BY IsolateApart DEF lockVars, stepVars
<1>2. UNCHANGED <<SeenNative, SeenTypes, SeenProxies, SeenRequests, SeenWire>>
    BY <1>1, SeenKept
<1>3. EmptyGraph = Mirror!EmptyGraph
    BY DEF EmptyGraph, Mirror!EmptyGraph, Kinds, Mirror!Kinds
<1>4. EventKind = Mirror!EventKind
    BY DEF EventKind, Mirror!EventKind, Upserts, Mirror!Upserts, Removals,
           Mirror!Removals
<1>5. ApplyEvent(graph, Head(port)) = Mirror!ApplyEvent(graph, Head(port))
    BY <1>4
    DEF ApplyEvent, Mirror!ApplyEvent, Upserts, Mirror!Upserts, Removals,
        Mirror!Removals, WithObject, Mirror!WithObject, WithoutObject,
        Mirror!WithoutObject
<1>6. UNCHANGED <<Mirror!monitorVars, SeenRequests, Mirror!daemonVars, SeenWire,
                  Mirror!connVars>>
    BY <1>2, IsolateApart
    DEF Mirror!monitorVars, monitorVars, Mirror!daemonVars, daemonVars,
        Mirror!connVars, connVars
<1>7. CASE AssignGraph
    BY <1>3, <1>6, <1>7 DEF AssignGraph, Mirror!Isolate, Mirror!AssignGraph
<1>8. CASE Deliver
    BY <1>5, <1>6, <1>8 DEF Deliver, Mirror!Isolate, Mirror!Deliver
<1> QED BY <1>7, <1>8

-----------------------------------------------------------------------------
\* The refinement

\* Every instance of FiniteSets has the same Cardinality.
LEMMA SameCardinality == \A S : Cardinality(S) = Mirror!Cardinality(S)
BY DEF Cardinality, Mirror!Cardinality

\* The program starts where GraphMirror does.
LEMMA InitMaps == LockedInit => Mirror!Init
<1> SUFFICES ASSUME LockedInit PROVE Mirror!Init
    OBVIOUS
<1>1. /\ SeenNative = native /\ SeenTypes = idTypes /\ SeenProxies = proxies
      /\ SeenRequests = requests /\ SeenWire = wire
    BY SeenPlain DEF LockedInit
<1>2. EmptyGraph = Mirror!EmptyGraph
    BY DEF EmptyGraph, Mirror!EmptyGraph, Kinds, Mirror!Kinds
<1>3. Mirror!MonitorInit
    BY <1>1, <1>2 DEF LockedInit, Init, MonitorInit, Mirror!MonitorInit
<1>4. Present(world) = Mirror!Present(world)
    BY DEF Present, Mirror!Present
<1>5. Announcements(world) = Mirror!Announcements(world)
    BY <1>4, SameCardinality DEF Announcements, Mirror!Announcements
<1>6. \E order \in Mirror!Announcements(world) :
          SeenWire = [i \in 1 .. Cardinality(Mirror!Present(world)) |->
                         Mirror!Global(order[i], 0, world[order[i]])]
    <2>1. PICK order \in Announcements(world) :
              wire = [i \in 1 .. Cardinality(Present(world)) |->
                         Global(order[i], 0, world[order[i]])]
        BY DEF LockedInit, Init
    <2>2. \A id, g, obj : Global(id, g, obj) = Mirror!Global(id, g, obj)
        BY DEF Global, Mirror!Global
    <2>3. SeenWire = [i \in 1 .. Cardinality(Mirror!Present(world)) |->
                         Mirror!Global(order[i], 0, world[order[i]])]
        BY <1>1, <1>4, <2>1, <2>2
    <2> QED
        BY <1>5, <2>1, <2>3
<1>7. /\ SeenRequests = <<>> /\ port = <<>> /\ world \in InitialWorlds
      /\ gen = [id \in Ids |-> 0] /\ bound = {} /\ changes = 0
      /\ lasting = Mirror!Present(world)
      /\ conn = "registered" /\ syncSeq = 0 /\ syncDone = FALSE
      /\ dart = "connecting"
      /\ graph = Mirror!EmptyGraph /\ snap = Mirror!EmptyGraph
      /\ refreshes = 0
    BY <1>1, <1>2, <1>4 DEF LockedInit, Init
<1> QED
    BY <1>3, <1>6, <1>7, SameCardinality DEF Mirror!Init

\* Every step of the cut program is one step of GraphMirror or none.
LEMMA NextMaps ==
    CutInv /\ [LockedNext]_lockedVars => [Mirror!Next]_(Mirror!vars)
<1> SUFFICES ASSUME CutInv, [LockedNext]_lockedVars
             PROVE  Mirror!Next \/ UNCHANGED Mirror!vars
    OBVIOUS
<1>1. CASE Handler
    <2>1. CASE UpdateFirst \/ UpdateRest
        BY <2>1, ChangeMaps, StutterMaps DEF UpdateFirst, UpdateRest
    <2> QED
        BY <1>1, <2>1, StutterMaps, BeginGlobalMaps, EnterGlobalMaps,
           LeaveGlobalMaps, BeginRemoveMaps, PostRemoveMaps, LeaveRemoveMaps,
           BeginInfoMaps, PostInfoMaps, LeaveInfoMaps, OtherMessageMaps
        DEF Handler, Mirror!Next, Mirror!Loop
<1>2. CASE Snapshot
    BY <1>2, StutterMaps, CopyingMaps, FinishCopyMaps
    DEF Snapshot, Mirror!Next, Mirror!Isolate
<1>3. CASE (Daemon \/ DaemonAnswer) /\ UNCHANGED lockVars
    BY <1>3, DaemonMaps, DaemonAnswerMaps DEF Mirror!Next
<1>4. CASE step = "idle" /\ Connect /\ UNCHANGED lockVars
    BY <1>4, ConnectMaps DEF Mirror!Next
<1>5. CASE ~ copying /\ (AssignGraph \/ Deliver) /\ UNCHANGED lockVars
    BY <1>5, IsolateMaps DEF Mirror!Next
<1>6. CASE UNCHANGED lockedVars
    <2>1. Stutter
        BY <1>6, SeenKept
        DEF lockedVars, lockVars, stepVars, vars, Stutter, monitorVars
    <2> QED BY <2>1, StutterMaps
<1> QED
    BY <1>1, <1>2, <1>3, <1>4, <1>5, <1>6 DEF LockedNext

\* Handlers and snapshots cut at mutex_ do what GraphMirror does in one step
\* each.
THEOREM Cut_Implements_Mirror == LockedSpec => ImplementsMirror
BY InitMaps, NextMaps, CutInvariant, PTL DEF LockedSpec, ImplementsMirror, Mirror!Spec
=============================================================================
