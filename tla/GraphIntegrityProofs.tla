----------------------- MODULE GraphIntegrityProofs -----------------------
(***************************************************************************)
(* Proofs about what the maps hold of the daemon's registry: no snapshot   *)
(* has a port without its node or a link without its ports, a reference of *)
(* PwClient's graph dangles for a while only, and when nothing is under    *)
(* way, maps and graph are what the registry is.                           *)
(***************************************************************************)
EXTENDS GraphMirrorProofs

-----------------------------------------------------------------------------
\* The maps ahead of time: what the monitor will hold when it has handled the
\* first n messages on their way.

\* The message makes or ends an object of that id.
About(m, id) == m.op \in {"global", "global_remove"} /\ m.id = id

\* No message after the i-th, up to the n-th, does.
Silent(w, i, n, id) == \A l \in i + 1 .. n : ~ About(w[l], id)

\* A monitor with the maps g will have an entry of kind k under id, with the
\* references refs, when it has handled the first n messages of w.
Held(g, w, n, k, id, refs) ==
    \/ g[k][id] # NoObj /\ g[k][id].refs = refs /\ Silent(w, 0, n, id)
    \/ \E j \in 1 .. n :
          /\ w[j].op = "global" /\ w[j].id = id
          /\ w[j].obj.kind = k /\ w[j].obj.refs = refs
          /\ Silent(w, j, n, id)

\* Before any message it is what the maps hold.
LEMMA HeldNow ==
    ASSUME NEW g, NEW w, NEW k, NEW id, NEW refs
    PROVE  Held(g, w, 0, k, id, refs) <=> g[k][id] # NoObj /\ g[k][id].refs = refs
BY DEF Held, Silent

\* A message sent changes nothing for those before it.
LEMMA HeldBefore ==
    ASSUME NEW g, NEW w \in Seq(Messages), NEW m \in Messages,
           NEW n \in 0 .. Len(w), NEW k, NEW id, NEW refs
    PROVE  Held(g, Append(w, m), n, k, id, refs) <=> Held(g, w, n, k, id, refs)
<1> DEFINE v == Append(w, m)
<1>1. \A j \in 1 .. n : v[j] = w[j]
    OBVIOUS
<1>2. \A i \in 0 .. n : Silent(v, i, n, id) <=> Silent(w, i, n, id)
    BY <1>1 DEF Silent
<1> HIDE DEF v
<1>3. Held(g, v, n, k, id, refs) <=> Held(g, w, n, k, id, refs)
    BY <1>1, <1>2 DEF Held
<1> QED BY <1>3 DEF v

\* After it, what it is about is as it says, and the rest as before.
LEMMA HeldSent ==
    ASSUME NEW g, NEW w \in Seq(Messages), NEW m \in Messages,
           NEW k, NEW id, NEW refs
    PROVE  Held(g, Append(w, m), Len(w) + 1, k, id, refs) <=>
              IF About(m, id)
              THEN m.op = "global" /\ m.obj.kind = k /\ m.obj.refs = refs
              ELSE Held(g, w, Len(w), k, id, refs)
<1> DEFINE v == Append(w, m)
<1>n. PICK n \in Nat : n = Len(w)
    OBVIOUS
<1>1. v[n + 1] = m /\ \A j \in 1 .. n : v[j] = w[j]
    BY <1>n
<1> HIDE DEF v
<1>2. \A i \in 0 .. n :
         Silent(v, i, n + 1, id) <=> Silent(w, i, n, id) /\ ~ About(m, id)
    <2> SUFFICES ASSUME NEW i \in 0 .. n
                 PROVE  Silent(v, i, n + 1, id) <=> Silent(w, i, n, id) /\ ~ About(m, id)
        OBVIOUS
    <2>1. i + 1 .. n + 1 = (i + 1 .. n) \union {n + 1}
        OBVIOUS
    <2>2. i + 1 .. n \subseteq 1 .. n
        OBVIOUS
    <2> QED BY <1>1, <2>1, <2>2 DEF Silent
<1>3. Silent(v, n + 1, n + 1, id)
    BY DEF Silent
<1>4. 1 .. n + 1 = (1 .. n) \union {n + 1}
    OBVIOUS
<1>5. Held(g, v, n + 1, k, id, refs) <=>
         \/ g[k][id] # NoObj /\ g[k][id].refs = refs /\ Silent(v, 0, n + 1, id)
         \/ \E j \in 1 .. n :
               /\ w[j].op = "global" /\ w[j].id = id
               /\ w[j].obj.kind = k /\ w[j].obj.refs = refs
               /\ Silent(v, j, n + 1, id)
         \/ /\ m.op = "global" /\ m.id = id
            /\ m.obj.kind = k /\ m.obj.refs = refs
    BY <1>1, <1>3, <1>4 DEF Held
<1>6. Held(g, v, n + 1, k, id, refs) <=>
         IF About(m, id) THEN m.op = "global" /\ m.obj.kind = k /\ m.obj.refs = refs
                         ELSE Held(g, w, n, k, id, refs)
    BY <1>2, <1>5 DEF Held, About
<1> QED BY <1>n, <1>6 DEF v

\* A message handled: if the maps are what it leads to, so is everything
\* after it.
LEMMA HeldAfter ==
    ASSUME NEW g, NEW h, NEW w \in Seq(Messages), w # <<>>,
           NEW n \in 0 .. Len(w) - 1, NEW k, NEW id, NEW refs,
           Held(g, w, 1, k, id, refs) <=> h[k][id] # NoObj /\ h[k][id].refs = refs
    PROVE  Held(h, Tail(w), n, k, id, refs) <=> Held(g, w, n + 1, k, id, refs)
<1> DEFINE v == Tail(w)
<1>1. n \in Nat /\ \A j \in 1 .. n : v[j] = w[j + 1]
    OBVIOUS
<1> HIDE DEF v
<1>2. \A i \in 0 .. n : Silent(v, i, n, id) <=> Silent(w, i + 1, n + 1, id)
    <2> SUFFICES ASSUME NEW i \in 0 .. n
                 PROVE  Silent(v, i, n, id) <=> Silent(w, i + 1, n + 1, id)
        OBVIOUS
    <2>1. ASSUME Silent(v, i, n, id), NEW l \in (i + 1) + 1 .. n + 1
          PROVE  ~ About(w[l], id)
        <3>1. l - 1 \in i + 1 .. n /\ l - 1 \in 1 .. n /\ (l - 1) + 1 = l
            OBVIOUS
        <3>2. ~ About(v[l - 1], id)
            BY <2>1, <3>1 DEF Silent
        <3> QED BY <1>1, <3>1, <3>2
    <2>2. ASSUME Silent(w, i + 1, n + 1, id), NEW l \in i + 1 .. n
          PROVE  ~ About(v[l], id)
        <3>1. l + 1 \in (i + 1) + 1 .. n + 1 /\ l \in 1 .. n
            OBVIOUS
        <3>2. ~ About(w[l + 1], id)
            BY <2>2, <3>1 DEF Silent
        <3> QED BY <1>1, <3>1, <3>2
    <2> QED BY <2>1, <2>2 DEF Silent
<1>3. Silent(w, 0, 1, id) <=> ~ About(w[1], id)
    BY DEF Silent
<1>4. Silent(w, 1, 1, id)
    BY DEF Silent
<1>5. Silent(w, 0, n + 1, id) <=> Silent(w, 0, 1, id) /\ Silent(w, 1, n + 1, id)
    <2>1. 0 + 1 .. n + 1 = {1} \union (1 + 1 .. n + 1)
        OBVIOUS
    <2> QED BY <1>3, <2>1 DEF Silent
<1>6. Held(g, w, 1, k, id, refs) <=>
         \/ g[k][id] # NoObj /\ g[k][id].refs = refs /\ Silent(w, 0, 1, id)
         \/ /\ w[1].op = "global" /\ w[1].id = id
            /\ w[1].obj.kind = k /\ w[1].obj.refs = refs
    BY <1>4 DEF Held
<1> DEFINE Makes(x, j) == /\ x[j].op = "global" /\ x[j].id = id
                          /\ x[j].obj.kind = k /\ x[j].obj.refs = refs
<1>7. (\E j \in 1 .. n : Makes(v, j) /\ Silent(v, j, n, id)) <=>
         \E j \in 2 .. n + 1 : Makes(w, j) /\ Silent(w, j, n + 1, id)
    <2>1. ASSUME NEW j \in 1 .. n, Makes(v, j), Silent(v, j, n, id)
          PROVE  \E i \in 2 .. n + 1 : Makes(w, i) /\ Silent(w, i, n + 1, id)
        <3>1. j + 1 \in 2 .. n + 1
            OBVIOUS
        <3> QED BY <1>1, <1>2, <2>1, <3>1
    <2>2. ASSUME NEW j \in 2 .. n + 1, Makes(w, j), Silent(w, j, n + 1, id)
          PROVE  \E i \in 1 .. n : Makes(v, i) /\ Silent(v, i, n, id)
        <3>1. j - 1 \in 1 .. n /\ (j - 1) + 1 = j
            OBVIOUS
        <3>2. Makes(v, j - 1)
            BY <1>1, <2>2, <3>1
        <3>3. Silent(v, j - 1, n, id)
            BY <1>2, <2>2, <3>1
        <3> QED BY <3>1, <3>2, <3>3
    <2> QED BY <2>1, <2>2
<1>8. Held(g, w, n + 1, k, id, refs) <=>
         \/ g[k][id] # NoObj /\ g[k][id].refs = refs /\ Silent(w, 0, n + 1, id)
         \/ Makes(w, 1) /\ Silent(w, 1, n + 1, id)
         \/ \E j \in 2 .. n + 1 : Makes(w, j) /\ Silent(w, j, n + 1, id)
    <2>1. 1 .. n + 1 = {1} \union (2 .. n + 1)
        OBVIOUS
    <2> QED BY <2>1 DEF Held
<1>9. Held(h, v, n, k, id, refs) <=>
         \/ h[k][id] # NoObj /\ h[k][id].refs = refs /\ Silent(w, 1, n + 1, id)
         \/ \E j \in 1 .. n : Makes(v, j) /\ Silent(v, j, n, id)
    BY <1>2 DEF Held
<1> HIDE DEF Makes
<1>10. Held(h, v, n, k, id, refs) <=> Held(g, w, n + 1, k, id, refs)
    BY <1>5, <1>6, <1>7, <1>8, <1>9 DEF Makes
<1> QED BY <1>10 DEF v

-----------------------------------------------------------------------------
\* The invariant: seen from the end of the wire the maps are the daemon's
\* registry, and on the way there no reference is ever broken.

\* The daemon's registry breaks none.
WorldRooted == \A id \in Present(world) : Rooted(world, world[id])

\* All that is in flight leads to that registry.
WorldHeld ==
    \A k \in Kinds, id \in Ids, refs \in SUBSET Ids :
        Held(native, wire, Len(wire), k, id, refs) <=>
            world[id] # NoObj /\ world[id].kind = k /\ world[id].refs = refs

\* However much of it has been handled, what is referred to is there.
RefsHeld ==
    \A n \in 0 .. Len(wire), k \in DOMAIN RefKind, id \in Ids, refs \in SUBSET Ids :
        Held(native, wire, n, k, id, refs) =>
            \A r \in refs : \E rr \in SUBSET Ids :
                Held(native, wire, n, RefKind[k], r, rr)

\* An info finds the entry it is about, with the references it carries: the
\* link handler stores them.
InfoHeld ==
    \A i \in DOMAIN wire :
        wire[i].op = "info" /\ wire[i].kind \in Kinds =>
            Held(native, wire, i - 1, wire[i].kind, wire[i].id, wire[i].refs)

RefsInv == WorldRooted /\ WorldHeld /\ RefsHeld /\ InfoHeld

\* Before the first message nothing is broken.
LEMMA RefsInvNow == TypeOK /\ RefsInv => NativeIntegrity
<1> SUFFICES ASSUME TypeOK, RefsInv, NEW k \in DOMAIN RefKind, NEW id \in Ids,
                    Has(native, k, id), NEW r \in native[k][id].refs
             PROVE  Has(native, RefKind[k], r)
    BY DEF NativeIntegrity, Integrity
<1> DEFINE refs == native[k][id].refs
<1>1. k \in Kinds /\ RefKind[k] \in Kinds
    BY DEF RefKind, Kinds
<1>2. refs \in SUBSET Ids
    BY <1>1 DEF TypeOK, Graphs, ObjectMap, Objects, Has
<1>3. Held(native, wire, 0, k, id, refs)
    BY HeldNow DEF Has
<1>4. 0 \in 0 .. Len(wire)
    BY DEF TypeOK
<1>5. PICK rr \in SUBSET Ids : Held(native, wire, 0, RefKind[k], r, rr)
    BY <1>2, <1>3, <1>4 DEF RefsInv, RefsHeld
<1> QED BY <1>5, HeldNow DEF Has

\* A broken reference at the end of the wire would be one of the daemon's.
LEMMA LastRefs ==
    ASSUME NEW g, NEW w, NEW n, NEW v \in ObjectMap,
           \A id \in Present(v) : Rooted(v, v[id]),
           \A k \in Kinds, id \in Ids, refs \in SUBSET Ids :
              Held(g, w, n, k, id, refs) <=>
                 v[id] # NoObj /\ v[id].kind = k /\ v[id].refs = refs,
           NEW k \in DOMAIN RefKind, NEW id \in Ids, NEW refs \in SUBSET Ids,
           Held(g, w, n, k, id, refs), NEW r \in refs
    PROVE  \E rr \in SUBSET Ids : Held(g, w, n, RefKind[k], r, rr)
<1>1. k \in Kinds /\ RefKind[k] \in Kinds
      /\ RefKind[k] = IF k = "link" THEN "port" ELSE "node"
    BY DEF RefKind, Kinds
<1>2. v[id] # NoObj /\ v[id].kind = k /\ v[id].refs = refs
    BY <1>1
<1>3. r \in Ids /\ v[r] # NoObj /\ v[r].kind = RefKind[k]
    BY <1>1, <1>2 DEF Present, Rooted
<1>4. v[r].refs \in SUBSET Ids
    BY <1>3 DEF ObjectMap, Objects
<1> QED BY <1>1, <1>3, <1>4

\* The daemon sends a message that leads from its old registry to its new one.
LEMMA RefsSent ==
    ASSUME TypeOK, TypeOK', RefsInv, WorldRooted', NEW m \in Messages,
           wire' = Append(wire, m), native' = native,
           m.op = "info" => /\ world[m.id] # NoObj /\ world[m.id].kind = m.kind
                            /\ world[m.id].refs = m.refs,
           \A k \in Kinds, id \in Ids, refs \in SUBSET Ids :
              (/\ world'[id] # NoObj /\ world'[id].kind = k
               /\ world'[id].refs = refs) <=>
                 IF About(m, id)
                 THEN m.op = "global" /\ m.obj.kind = k /\ m.obj.refs = refs
                 ELSE world[id] # NoObj /\ world[id].kind = k /\ world[id].refs = refs
    PROVE  RefsInv'
<1>n. PICK n \in Nat : n = Len(wire)
    BY DEF TypeOK
<1>1. /\ Len(wire') = n + 1 /\ DOMAIN wire' = 1 .. n + 1 /\ DOMAIN wire = 1 .. n
      /\ wire'[n + 1] = m /\ \A i \in 1 .. n : wire'[i] = wire[i]
    BY <1>n DEF TypeOK
<1>2. \A i \in 0 .. n : \A k, id, refs :
         Held(native', wire', i, k, id, refs) <=> Held(native, wire, i, k, id, refs)
    BY <1>n, HeldBefore DEF TypeOK
<1>3. WorldHeld'
    <2>1. \A k, id, refs :
             Held(native', wire', n + 1, k, id, refs) <=>
                IF About(m, id)
                THEN m.op = "global" /\ m.obj.kind = k /\ m.obj.refs = refs
                ELSE Held(native, wire, n, k, id, refs)
        BY <1>n, HeldSent DEF TypeOK
    <2> QED BY <1>n, <1>1, <2>1 DEF RefsInv, WorldHeld
<1>4. RefsHeld'
    <2> SUFFICES ASSUME NEW i \in 0 .. n + 1, NEW k \in DOMAIN RefKind,
                        NEW id \in Ids, NEW refs \in SUBSET Ids,
                        Held(native', wire', i, k, id, refs), NEW r \in refs
                 PROVE  \E rr \in SUBSET Ids :
                           Held(native', wire', i, RefKind[k], r, rr)
        BY <1>1 DEF RefsHeld
    <2>1. CASE i = n + 1
        <3>1. world' \in ObjectMap
            BY DEF TypeOK
        <3>2. \A x \in Present(world') : Rooted(world', world'[x])
            BY DEF WorldRooted
        <3>3. \A kk \in Kinds, x \in Ids, rr \in SUBSET Ids :
                 Held(native', wire', n + 1, kk, x, rr) <=>
                    /\ world'[x] # NoObj /\ world'[x].kind = kk
                    /\ world'[x].refs = rr
            BY <1>1, <1>3 DEF WorldHeld
        <3> QED
            BY <1>1, <2>1, <3>1, <3>2, <3>3, LastRefs
    <2>2. CASE i # n + 1
        <3>1. i \in 0 .. n
            BY <2>2
        <3> QED BY <1>n, <1>2, <3>1 DEF RefsInv, RefsHeld
    <2> QED BY <2>1, <2>2
<1>5. InfoHeld'
    <2> SUFFICES ASSUME NEW i \in 1 .. n + 1, wire'[i].op = "info",
                        wire'[i].kind \in Kinds
                 PROVE  Held(native', wire', i - 1, wire'[i].kind, wire'[i].id,
                             wire'[i].refs)
        BY <1>1 DEF InfoHeld
    <2>1. CASE i = n + 1
        <3>1. m \in Infos /\ wire'[i] = m /\ i - 1 = n
            BY <1>1, <2>1, MessageOf
        <3>2. Held(native, wire, n, m.kind, m.id, m.refs)
            BY <1>n, <2>1, <3>1 DEF RefsInv, WorldHeld, Infos
        <3> QED BY <1>2, <3>1, <3>2
    <2>2. CASE i # n + 1
        <3>1. i \in 1 .. n /\ i - 1 \in 0 .. n
            BY <2>2
        <3> QED BY <1>1, <1>2, <3>1 DEF RefsInv, InfoHeld
    <2> QED BY <2>1, <2>2
<1> QED BY <1>3, <1>4, <1>5 DEF RefsInv

\* The client handles a message as the maps ahead of time said it would.
LEMMA RefsHandled ==
    ASSUME TypeOK, RefsInv, wire # <<>>, wire' = Tail(wire), world' = world,
           \A k \in Kinds, id \in Ids, refs \in SUBSET Ids :
              Held(native, wire, 1, k, id, refs) <=>
                 native'[k][id] # NoObj /\ native'[k][id].refs = refs
    PROVE  RefsInv'
<1>n. PICK n \in Nat : n = Len(wire)
    BY DEF TypeOK
<1>1. /\ n >= 1 /\ Len(wire') = n - 1
      /\ DOMAIN wire' = 1 .. n - 1 /\ DOMAIN wire = 1 .. n
      /\ \A i \in 1 .. n - 1 : wire'[i] = wire[i + 1]
    BY <1>n DEF TypeOK
<1>2. \A i \in 0 .. n - 1, k \in Kinds, id \in Ids, refs \in SUBSET Ids :
         Held(native', wire', i, k, id, refs) <=>
            Held(native, wire, i + 1, k, id, refs)
    BY <1>n, HeldAfter DEF TypeOK
<1>3. WorldRooted'
    BY DEF RefsInv, WorldRooted
<1>4. WorldHeld'
    <2>1. n - 1 \in 0 .. n - 1 /\ (n - 1) + 1 = n
        BY <1>1
    <2> QED BY <1>n, <1>1, <1>2, <2>1 DEF RefsInv, WorldHeld
<1>5. RefsHeld'
    <2> SUFFICES ASSUME NEW i \in 0 .. n - 1, NEW k \in DOMAIN RefKind,
                        NEW id \in Ids, NEW refs \in SUBSET Ids,
                        Held(native', wire', i, k, id, refs), NEW r \in refs
                 PROVE  \E rr \in SUBSET Ids :
                           Held(native', wire', i, RefKind[k], r, rr)
        BY <1>1 DEF RefsHeld
    <2>1. k \in Kinds /\ RefKind[k] \in Kinds
        BY DEF RefKind, Kinds
    <2>2. i + 1 \in 0 .. n
        BY <1>1
    <2>3. PICK rr \in SUBSET Ids : Held(native, wire, i + 1, RefKind[k], r, rr)
        BY <1>n, <1>2, <2>1, <2>2 DEF RefsInv, RefsHeld
    <2> QED BY <1>2, <2>1, <2>3
<1>6. InfoHeld'
    <2> SUFFICES ASSUME NEW i \in 1 .. n - 1, wire'[i].op = "info",
                        wire'[i].kind \in Kinds
                 PROVE  Held(native', wire', i - 1, wire'[i].kind, wire'[i].id,
                             wire'[i].refs)
        BY <1>1 DEF InfoHeld
    <2>1. /\ i + 1 \in 1 .. n /\ wire'[i] = wire[i + 1]
          /\ i - 1 \in 0 .. n - 1 /\ (i - 1) + 1 = i /\ (i + 1) - 1 = i
        BY <1>1
    <2>2. wire[i + 1] \in Infos
        BY <1>1, <2>1, MessageOf DEF TypeOK
    <2>3. Held(native, wire, i, wire'[i].kind, wire'[i].id, wire'[i].refs)
        BY <1>1, <2>1 DEF RefsInv, InfoHeld
    <2>4. wire'[i].id \in Ids /\ wire'[i].refs \in SUBSET Ids
        BY <2>1, <2>2 DEF Infos
    <2>5. Held(native, wire, (i - 1) + 1, wire'[i].kind, wire'[i].id, wire'[i].refs)
        BY <2>1, <2>3
    <2> QED BY <1>2, <2>1, <2>4, <2>5
<1> QED BY <1>3, <1>4, <1>5, <1>6 DEF RefsInv

-----------------------------------------------------------------------------
\* The invariant holds at first and is kept

\* The first announcements name every object of the registry, and none before
\* those it refers to.
LEMMA RefsInit == Init => RefsInv
<1> SUFFICES ASSUME Init PROVE RefsInv
    OBVIOUS
<1> DEFINE P == Present(world)
<1>n. PICK n \in Nat : n = Cardinality(P)
    BY ConstantsAssumption, FS_Subset, FS_CardinalityType DEF Present
<1>1. WorldRooted
    BY WorldsAssumption DEF Init, WorldRooted
<1>2. IsFiniteSet(P)
    BY ConstantsAssumption, FS_Subset DEF Present
<1>3. PICK order \in Announcements(world) :
         wire = [i \in 1 .. n |-> Global(order[i], 0, world[order[i]])]
    BY <1>n DEF Init
<1>4. /\ order \in [1 .. n -> P]
      /\ \A i, j \in 1 .. n : order[i] = order[j] => i = j
      /\ \A i, j \in 1 .. n : order[j] \in world[order[i]].refs => j < i
    BY <1>n DEF Announcements
<1>5. \A id \in P : \E i \in 1 .. n : order[i] = id
    <2> SUFFICES ASSUME NEW id \in P, \A i \in 1 .. n : order[i] # id
                 PROVE  FALSE
        OBVIOUS
    <2>1. IsFiniteSet(1 .. n) /\ Cardinality(1 .. n) = n
        BY FS_Interval
    <2>2. IsFiniteSet(P \ {id}) /\ Cardinality(P \ {id}) = n - 1
        BY <1>n, <1>2, FS_RemoveElement
    <2>3. order \in [1 .. n -> P \ {id}]
        BY <1>4
    <2>4. \E i, j \in 1 .. n : i # j /\ order[i] = order[j]
        BY <2>1, <2>2, <2>3, FS_PigeonHole
    <2> QED BY <1>4, <2>4
<1>6. /\ DOMAIN wire = 1 .. n /\ Len(wire) = n
      /\ \A i \in 1 .. n : /\ wire[i].op = "global" /\ wire[i].id = order[i]
                           /\ wire[i].obj = world[order[i]]
    BY <1>3 DEF Global
<1>7. \A i \in 1 .. n, l \in 0 .. n : Silent(wire, i, l, order[i])
    BY <1>4, <1>6 DEF Silent, About
<1>8. \A k \in Kinds, id \in Ids : native[k][id] = NoObj
    BY DEF Init, MonitorInit, EmptyGraph
<1>9. \A l \in 0 .. n, k \in Kinds, id \in Ids, refs \in SUBSET Ids :
         Held(native, wire, l, k, id, refs) <=>
            \E i \in 1 .. l : /\ order[i] = id /\ world[id].kind = k
                              /\ world[id].refs = refs
    BY <1>6, <1>7, <1>8 DEF Held
<1>10. WorldHeld
    BY <1>4, <1>5, <1>6, <1>9 DEF WorldHeld, Present
<1>11. RefsHeld
    <2> SUFFICES ASSUME NEW l \in 0 .. n, NEW k \in DOMAIN RefKind, NEW id \in Ids,
                        NEW refs \in SUBSET Ids, Held(native, wire, l, k, id, refs),
                        NEW r \in refs
                 PROVE  \E rr \in SUBSET Ids :
                           Held(native, wire, l, RefKind[k], r, rr)
        BY <1>6 DEF RefsHeld
    <2>1. k \in Kinds /\ RefKind[k] \in Kinds
          /\ RefKind[k] = IF k = "link" THEN "port" ELSE "node"
        BY DEF RefKind, Kinds
    <2>2. PICK i \in 1 .. l : /\ order[i] = id /\ world[id].kind = k
                              /\ world[id].refs = refs
        BY <1>9, <2>1
    <2>3. id \in P
        BY <1>4, <2>2
    <2>4. r \in P /\ world[r].kind = RefKind[k]
        BY <1>1, <2>1, <2>2, <2>3 DEF WorldRooted, Rooted, Present
    <2>5. PICK j \in 1 .. n : order[j] = r
        BY <1>5, <2>4
    <2>6. j < i
        BY <1>4, <2>2, <2>5
    <2>7. j \in 1 .. l
        BY <2>6
    <2>8. r \in Ids /\ world[r].refs \in SUBSET Ids
        BY <2>4, ConstantsAssumption DEF Init, Present, ObjectMap, Objects
    <2>9. PICK rr \in SUBSET Ids : rr = world[r].refs
        BY <2>8
    <2>10. Held(native, wire, l, RefKind[k], r, rr)
        BY <1>9, <2>1, <2>4, <2>5, <2>7, <2>8, <2>9
    <2> QED BY <2>10
<1>12. InfoHeld
    BY <1>6 DEF InfoHeld
<1> QED BY <1>1, <1>10, <1>11, <1>12 DEF RefsInv

\* An info changes no references: those a link handler stores are the ones it
\* has.
LEMMA InfoKeepsRefs ==
    ASSUME TypeOK, RefsInv, ReceiveInfo
    PROVE  \A k \in Kinds, id \in Ids :
              /\ native'[k][id] # NoObj <=> native[k][id] # NoObj
              /\ native[k][id] # NoObj => native'[k][id].refs = native[k][id].refs
<1> DEFINE m == Head(wire)  old == native[m.kind][m.id]
<1>t. native \in [Kinds -> [Ids -> Objects \union {NoObj}]]
    BY DEF TypeOK, Graphs, ObjectMap
<1>1. /\ wire # <<>> /\ m \in Infos /\ m = wire[1] /\ m.op = "info"
      /\ 1 \in DOMAIN wire
    BY MessageOf DEF ReceiveInfo, Receive, TypeOK
<1>2. m.id \in Ids
    BY <1>1 DEF Infos
<1>3. CASE UNCHANGED native
    BY <1>3
<1>4. ASSUME m.kind \in Kinds, old \in Objects, NEW obj \in Objects,
             native' = WithObject(native, m.kind, m.id, obj), obj.refs = old.refs
      PROVE  \A k \in Kinds, id \in Ids :
              /\ native'[k][id] # NoObj <=> native[k][id] # NoObj
              /\ native[k][id] # NoObj => native'[k][id].refs = native[k][id].refs
    BY <1>t, <1>2, <1>4, NoObjAssumption DEF WithObject
<1>5. ASSUME m.kind \in Kinds, Has(native, m.kind, m.id)
      PROVE  /\ old \in Objects /\ old.refs = m.refs
             /\ Updated(old, m) \in Objects /\ Updated(old, m).refs = old.refs
             /\ [Updated(old, m) EXCEPT !.st = m.st] \in Objects
             /\ [Updated(old, m) EXCEPT !.st = m.st].refs = old.refs
             /\ [old EXCEPT !.st = m.st, !.refs = m.refs] \in Objects
             /\ [old EXCEPT !.st = m.st, !.refs = m.refs].refs = m.refs
    <2>1. old \in Objects
        BY <1>t, <1>2, <1>5 DEF Has
    <2>2. Held(native, wire, 1 - 1, m.kind, m.id, m.refs)
        BY <1>1, <1>5 DEF RefsInv, InfoHeld
    <2>3. old.refs = m.refs
        BY <2>2, HeldNow
    <2>4. Updated(old, m) \in Objects /\ Updated(old, m).refs = old.refs
        BY <1>1, <2>1 DEF Updated, Objects, Infos
    <2>5. /\ [Updated(old, m) EXCEPT !.st = m.st] \in Objects
          /\ [Updated(old, m) EXCEPT !.st = m.st].refs = old.refs
        BY <1>1, <2>4 DEF Objects, Infos
    <2>6. /\ [old EXCEPT !.st = m.st, !.refs = m.refs] \in Objects
          /\ [old EXCEPT !.st = m.st, !.refs = m.refs].refs = m.refs
        BY <1>1, <2>1 DEF Objects, Infos
    <2> QED BY <2>1, <2>3, <2>4, <2>5, <2>6
<1>6. CASE m.kind = "node" /\ OnNodeInfo(m.id, m)
    BY <1>4, <1>5, <1>6 DEF OnNodeInfo, Enter, Kinds
<1>7. CASE m.kind = "port" /\ OnPortInfo(m.id, m)
    BY <1>4, <1>5, <1>7 DEF OnPortInfo, Enter, Kinds
<1>8. CASE m.kind = "link" /\ OnLinkInfo(m.id, m)
    BY <1>4, <1>5, <1>8 DEF OnLinkInfo, Enter, Kinds
<1>9. CASE m.kind = "device" /\ OnDeviceInfo(m.id, m)
    BY <1>4, <1>5, <1>9 DEF OnDeviceInfo, Enter, Kinds
<1> QED
    BY <1>3, <1>6, <1>7, <1>8, <1>9 DEF ReceiveInfo, OnStaleInfo, monitorVars

\* A handler leaves the maps as its message said.
LEMMA RefsLoop ==
    ASSUME TypeOK, FreshGlobals, OneKindPerId, RefsInv, Loop
    PROVE  RefsInv'
<1> DEFINE m == Head(wire)
<1>t. /\ native \in [Kinds -> [Ids -> Objects \union {NoObj}]]
      /\ idTypes \in [Ids -> Kinds \union {"none"}] /\ "none" \notin Kinds
    BY DEF TypeOK, Graphs, ObjectMap, Kinds
<1>1. /\ wire # <<>> /\ wire' = Tail(wire) /\ m = wire[1] /\ m \in Messages
      /\ world' = world
    BY LoopCases DEF TypeOK, daemonVars
<1>2. \A k, id, refs :
         Held(native, wire, 1, k, id, refs) <=>
            IF About(m, id)
            THEN m.op = "global" /\ m.obj.kind = k /\ m.obj.refs = refs
            ELSE native[k][id] # NoObj /\ native[k][id].refs = refs
    BY <1>1 DEF Held, Silent, About
<1> SUFFICES ASSUME NEW k \in Kinds, NEW id \in Ids, NEW refs \in SUBSET Ids
             PROVE  Held(native, wire, 1, k, id, refs) <=>
                       native'[k][id] # NoObj /\ native'[k][id].refs = refs
    BY <1>1, RefsHandled
<1>3. \A kk \in Kinds : native[kk][id] # NoObj <=> idTypes[id] = kk
    BY DEF OneKindPerId, Has
<1>4. CASE ReceiveGlobal
    <2>1. m.op = "global" /\ m.id \in Ids /\ m.obj \in Objects
        BY <1>1, <1>4, MessageOf DEF ReceiveGlobal, Receive, Globals
    <2>2. m.id = id => native[k][id] = NoObj
        BY <1>1, <1>3, <1>t, <2>1, FreshHead
    <2>3. CASE OnGlobal(m.id, m.gen, m.obj)
        <3> DEFINE new == [m.obj EXCEPT !.st = FirstState[m.obj.kind]]
        <3>1. new.refs = m.obj.refs /\ new \in Objects
            BY <2>1, <2>3 DEF OnGlobal, Objects, FirstState, Kinds, States
        <3>2. native' = [native EXCEPT ![m.obj.kind] = [@ EXCEPT ![m.id] = new]]
              /\ m.obj.kind \in Kinds
            BY <2>3 DEF OnGlobal, WithObject
        <3> HIDE DEF new
        <3>3. native'[k][id] = IF k = m.obj.kind /\ id = m.id THEN new
                               ELSE native[k][id]
            BY <1>t, <2>1, <3>2
        <3> QED
            BY <1>2, <2>1, <2>2, <3>1, <3>3, NoObjAssumption DEF About
    <2>4. CASE OnUnknownGlobal(m.obj)
        BY <1>2, <2>1, <2>2, <2>4 DEF OnUnknownGlobal, monitorVars, About
    <2> QED BY <1>4, <2>3, <2>4 DEF ReceiveGlobal
<1>5. CASE ReceiveGlobalRemove
    <2>1. m.op = "global_remove" /\ m.id \in Ids
        BY <1>1, <1>5, MessageOf DEF ReceiveGlobalRemove, Receive
    <2>2. native'[k][id] = IF id = m.id THEN NoObj ELSE native[k][id]
        <3>1. CASE OnGlobalRemove(m.id)
            <4>1. native' = [native EXCEPT ![idTypes[m.id]] = [@ EXCEPT ![m.id] = NoObj]]
                  /\ idTypes[m.id] \in Kinds
                BY <1>t, <2>1, <3>1 DEF OnGlobalRemove, WithoutObject
            <4> QED BY <1>t, <1>3, <2>1, <4>1
        <3>2. CASE OnUnknownRemove(m.id)
            BY <1>t, <1>3, <3>2 DEF OnUnknownRemove, monitorVars
        <3> QED BY <1>5, <3>1, <3>2 DEF ReceiveGlobalRemove
    <2> QED BY <1>2, <2>1, <2>2 DEF About
<1>6. CASE ReceiveInfo
    <2>1. ~ About(m, id)
        BY <1>6 DEF ReceiveInfo, Receive, About
    <2> QED BY <1>2, <1>6, <2>1, InfoKeepsRefs
<1>7. CASE ReceiveDone \/ ReceiveError
    <2>1. ~ About(m, id) /\ native' = native
        BY <1>7
        DEF ReceiveDone, ReceiveError, Receive, About, OnCoreError, monitorVars
    <2> QED BY <1>2, <2>1
<1> QED BY <1>4, <1>5, <1>6, <1>7 DEF Loop

\* The daemon keeps its registry rooted, and tells of every change.
LEMMA RefsDaemon ==
    ASSUME TypeOK, TypeOK', RefsInv, Daemon
    PROVE  RefsInv'
<1>w. world \in [Ids -> Objects \union {NoObj}]
    BY DEF TypeOK, ObjectMap
<1>1. ASSUME NEW entry \in Catalog, DaemonAdd(entry[1], entry[2]) PROVE RefsInv'
    <2> DEFINE id == entry[1]  obj == entry[2]  m == Global(id, gen[id] + 1, obj)
    <2>1. id \in Ids /\ obj \in Objects
        BY ConstantsAssumption
    <2>2. /\ m \in Messages /\ m.op = "global" /\ m.id = id /\ m.obj = obj
        BY <2>1 DEF Global, Messages, Globals, TypeOK
    <2>3. /\ wire' = Append(wire, m) /\ native' = native
          /\ world[id] = NoObj /\ Rooted(world, obj)
          /\ world' = [world EXCEPT ![id] = obj]
        BY <1>1 DEF DaemonAdd, monitorVars
    <2> HIDE DEF m, id, obj
    <2>4. \A x \in Ids : world'[x] = IF x = id THEN obj ELSE world[x]
        BY <1>w, <2>1, <2>3
    <2>5. WorldRooted'
        <3> SUFFICES ASSUME NEW x \in Ids, world'[x] # NoObj, NEW r \in world'[x].refs
                     PROVE  /\ world'[r] # NoObj
                            /\ world'[r].kind = IF world'[x].kind = "link"
                                                THEN "port" ELSE "node"
            BY DEF WorldRooted, Present, Rooted
        <3>1. /\ world[r] # NoObj
              /\ world[r].kind = IF world'[x].kind = "link" THEN "port" ELSE "node"
            BY <2>3, <2>4 DEF RefsInv, WorldRooted, Present, Rooted
        <3>2. r \in Ids
            BY <1>w, <2>1, <2>4 DEF Objects
        <3> QED BY <2>3, <2>4, <3>1, <3>2
    <2>6. \A k \in Kinds, x \in Ids, refs \in SUBSET Ids :
             (/\ world'[x] # NoObj /\ world'[x].kind = k /\ world'[x].refs = refs) <=>
                IF About(m, x)
                THEN m.op = "global" /\ m.obj.kind = k /\ m.obj.refs = refs
                ELSE world[x] # NoObj /\ world[x].kind = k /\ world[x].refs = refs
        BY <2>1, <2>2, <2>4, NoObjAssumption DEF About
    <2> QED BY <2>2, <2>3, <2>5, <2>6, RefsSent
<1>2. ASSUME NEW id \in Ids, DaemonRemove(id) PROVE RefsInv'
    <2> DEFINE m == [op |-> "global_remove", id |-> id]
    <2>1. m \in Messages /\ m.op = "global_remove" /\ m.id = id
        BY DEF Messages, Removes
    <2>2. /\ wire' = Append(wire, m) /\ native' = native
          /\ world' = [world EXCEPT ![id] = NoObj]
          /\ \A x \in Present(world) : id \notin world[x].refs
        BY <1>2 DEF DaemonRemove, monitorVars
    <2> HIDE DEF m
    <2>3. \A x \in Ids : world'[x] = IF x = id THEN NoObj ELSE world[x]
        BY <1>w, <2>2
    <2>4. WorldRooted'
        <3> SUFFICES ASSUME NEW x \in Ids, world'[x] # NoObj, NEW r \in world'[x].refs
                     PROVE  /\ world'[r] # NoObj
                            /\ world'[r].kind = IF world'[x].kind = "link"
                                                THEN "port" ELSE "node"
            BY DEF WorldRooted, Present, Rooted
        <3>1. x # id /\ world'[x] = world[x] /\ x \in Present(world)
            BY <2>3 DEF Present
        <3>2. r # id /\ r \in Ids
            BY <1>w, <2>2, <3>1 DEF Objects
        <3> QED BY <2>3, <3>1, <3>2 DEF RefsInv, WorldRooted, Rooted
    <2>5. \A k \in Kinds, x \in Ids, refs \in SUBSET Ids :
             (/\ world'[x] # NoObj /\ world'[x].kind = k /\ world'[x].refs = refs) <=>
                IF About(m, x)
                THEN m.op = "global" /\ m.obj.kind = k /\ m.obj.refs = refs
                ELSE world[x] # NoObj /\ world[x].kind = k /\ world[x].refs = refs
        BY <2>1, <2>3 DEF About
    <2> QED BY <2>1, <2>2, <2>4, <2>5, RefsSent
<1>3. ASSUME NEW id \in Ids, NEW newSt \in States, NEW newProps \in 0 .. MaxChanges,
             DaemonChange(id, newSt, newProps)
      PROVE  RefsInv'
    <2> DEFINE new == [world[id] EXCEPT !.st = newSt, !.props = newProps]
    <2>1. world[id] \in Objects /\ newProps \in Nat
        BY <1>3, <1>w, ConstantsAssumption DEF DaemonChange
    <2>2. new \in Objects /\ new.kind = world[id].kind /\ new.refs = world[id].refs
        BY <2>1 DEF Objects
    <2>3. /\ world' = [world EXCEPT ![id] = new] /\ native' = native
          /\ \/ wire' = wire
             \/ \E b \in BOOLEAN : wire' = Append(wire, Info(id, new, b))
        BY <1>3 DEF DaemonChange, monitorVars
    <2> HIDE DEF new
    <2>4. \A x \in Ids : /\ world'[x] # NoObj <=> world[x] # NoObj
                         /\ world[x] # NoObj => /\ world'[x].kind = world[x].kind
                                                /\ world'[x].refs = world[x].refs
        BY <1>w, <2>1, <2>2, <2>3, NoObjAssumption
    <2>5. WorldRooted'
        <3> SUFFICES ASSUME NEW x \in Ids, world'[x] # NoObj, NEW r \in world'[x].refs
                     PROVE  /\ world'[r] # NoObj
                            /\ world'[r].kind = IF world'[x].kind = "link"
                                                THEN "port" ELSE "node"
            BY DEF WorldRooted, Present, Rooted
        <3>1. r \in world[x].refs /\ world[x] # NoObj /\ r \in Ids
            BY <1>w, <2>4 DEF Objects
        <3>2. /\ world[r] # NoObj
              /\ world[r].kind = IF world[x].kind = "link" THEN "port" ELSE "node"
            BY <3>1 DEF RefsInv, WorldRooted, Present, Rooted
        <3> QED BY <2>4, <3>1, <3>2
    <2>6. CASE wire' = wire
        <3>1. WorldHeld'
            BY <2>3, <2>4, <2>6 DEF RefsInv, WorldHeld
        <3> QED BY <2>3, <2>5, <2>6, <3>1 DEF RefsInv, RefsHeld, InfoHeld
    <2>7. ASSUME NEW b \in BOOLEAN, wire' = Append(wire, Info(id, new, b))
          PROVE  RefsInv'
        <3> DEFINE m == Info(id, new, b)
        <3>1. /\ m \in Messages /\ m.op = "info" /\ m.id = id
              /\ m.kind = world[id].kind /\ m.refs = world[id].refs
            BY <2>2 DEF Info, Messages, Infos, Objects
        <3> HIDE DEF m
        <3>2. world[id] # NoObj
            BY <2>1, NoObjAssumption
        <3>3. \A k \in Kinds, x \in Ids, refs \in SUBSET Ids :
             (/\ world'[x] # NoObj /\ world'[x].kind = k /\ world'[x].refs = refs) <=>
                IF About(m, x)
                THEN m.op = "global" /\ m.obj.kind = k /\ m.obj.refs = refs
                ELSE world[x] # NoObj /\ world[x].kind = k /\ world[x].refs = refs
            BY <2>4, <3>1 DEF About
        <3>4. wire' = Append(wire, m)
            BY <2>7 DEF m
        <3> QED BY <2>3, <2>5, <3>1, <3>2, <3>3, <3>4, RefsSent
    <2> QED BY <2>3, <2>6, <2>7
<1> QED BY <1>1, <1>2, <1>3 DEF Daemon

\* The first info of a bound object is about the object as it is.
LEMMA RefsAnswer ==
    ASSUME TypeOK, TypeOK', RefsInv, DaemonAnswer
    PROVE  RefsInv'
<1>1. world' = world /\ native' = native
    BY DEF DaemonAnswer, DaemonBind, DaemonSync, monitorVars, daemonVars
<1>2. \E m \in Messages :
         /\ wire' = Append(wire, m) /\ m.op \in {"info", "error", "done"}
         /\ m.op = "info" => /\ world[m.id] # NoObj /\ world[m.id].kind = m.kind
                             /\ world[m.id].refs = m.refs
    <2> DEFINE r == Head(requests)
    <2>0. r \in Requests
        <3>1. requests \in Seq(Requests)
            BY DEF TypeOK
        <3>2. requests # <<>>
            BY DEF DaemonAnswer, DaemonBind, DaemonSync
        <3> QED BY <3>1, <3>2
    <2>1. CASE DaemonBind /\ world[r.id] # NoObj /\ gen[r.id] = r.gen
        <3> DEFINE m == Info(r.id, world[r.id], TRUE)
        <3>1. r.id \in Ids
            BY <2>0, <2>1 DEF DaemonBind, Requests
        <3>2. world[r.id] \in Objects
            BY <2>1, <3>1 DEF TypeOK, ObjectMap
        <3>3. m \in Messages /\ m.op = "info"
              /\ m.id = r.id /\ m.kind = world[r.id].kind /\ m.refs = world[r.id].refs
            BY <3>1, <3>2 DEF Info, Messages, Infos, Objects
        <3> QED BY <2>1, <3>3 DEF DaemonBind
    <2>2. CASE DaemonBind /\ ~ (world[r.id] # NoObj /\ gen[r.id] = r.gen)
        <3> DEFINE m == [op |-> "error", id |-> r.id]
        <3>1. m \in Messages /\ m.op = "error"
            BY <2>0, <2>2 DEF DaemonBind, Requests, Messages, Errors
        <3> QED BY <2>2, <3>1 DEF DaemonBind
    <2>3. CASE DaemonSync
        <3> DEFINE m == [op |-> "done", seq |-> r.seq]
        <3>1. m \in Messages /\ m.op = "done"
            BY <2>0, <2>3 DEF DaemonSync, Requests, Messages, Dones
        <3> QED BY <2>3, <3>1 DEF DaemonSync
    <2> QED BY <2>1, <2>2, <2>3 DEF DaemonAnswer
<1>3. PICK m \in Messages :
         /\ wire' = Append(wire, m) /\ m.op \in {"info", "error", "done"}
         /\ m.op = "info" => /\ world[m.id] # NoObj /\ world[m.id].kind = m.kind
                             /\ world[m.id].refs = m.refs
    BY <1>2
<1>4. \A id : ~ About(m, id)
    BY <1>3 DEF About
<1>5. WorldRooted'
    BY <1>1 DEF RefsInv, WorldRooted
<1> QED BY <1>1, <1>3, <1>4, <1>5, RefsSent

\* Every step keeps the references whole, whatever is still to be handled.
LEMMA RefsStep ==
    TypeOK /\ TypeOK' /\ FreshGlobals /\ OneKindPerId /\ RefsInv /\ [Next]_vars
        => RefsInv'
<1> SUFFICES ASSUME TypeOK, TypeOK', FreshGlobals, OneKindPerId, RefsInv, [Next]_vars
             PROVE  RefsInv'
    OBVIOUS
<1>1. CASE Daemon
    BY <1>1, RefsDaemon
<1>2. CASE DaemonAnswer
    BY <1>2, RefsAnswer
<1>3. CASE Loop
    BY <1>3, RefsLoop
<1>4. CASE UNCHANGED <<native, world, wire>>
    BY <1>4 DEF RefsInv, WorldRooted, WorldHeld, RefsHeld, InfoHeld
<1> QED
    BY <1>1, <1>2, <1>3, <1>4
    DEF Next, Connect, Isolate, StartRound1, StartRound2, StartRound,
        FinishConnect, TakeFirstSnapshot, TakeSnapshot, AssignGraph, Deliver,
        vars, monitorVars, daemonVars

\* At the end of everything in flight and at every point before, no reference
\* is broken.
LEMMA RefsInvariant == Spec => []RefsInv
<1>1. IndInv => TypeOK /\ FreshGlobals /\ OneKindPerId
    BY DEF IndInv
<1> QED BY <1>1, RefsInit, RefsStep, Inductive, TypeCorrect, PTL DEF Spec

\* Whenever getGraphSnapshot copies the maps, every port in them is on a node
\* in them and every link joins ports in them, whatever ids were reused.
THEOREM Native_Integrity == Spec => []NativeIntegrity
BY RefsInvariant, RefsInvNow, TypeCorrect, PTL

-----------------------------------------------------------------------------
\* References of the graph

\* Its removal is in flight, behind the first i events.
Removed(i, k, id) ==
    \E j \in DOMAIN port :
        j > i /\ port[j].type = RemovalType[k] /\ port[j].id = id

\* The i-th event in flight, or the graph for i = 0, shows this entry.
Shows(i, k, id, obj) ==
    /\ obj # NoObj
    /\ IF i = 0 THEN Base[k][id] = obj
                ELSE Touches(port[i], k, id) /\ port[i].obj = obj

\* What is shown has its references on the native side too, unless the removal
\* is on its way.
RefsKept ==
    PostResolved =>
        \A i \in 0 .. Len(port), k \in DOMAIN RefKind, id \in Ids, obj \in Objects :
            Shows(i, k, id, obj) =>
                \/ Removed(i, k, id)
                \/ native[k][id] # NoObj /\ native[k][id].refs = obj.refs

\* Neither an event nor a copy: the entries shown stay.
LEMMA KeptKeep ==
    ASSUME TypeOK, RefsKept, port' = port, Base' = Base,
           \A k \in DOMAIN RefKind, id \in Ids : native[k][id] # NoObj =>
               native'[k][id] # NoObj /\ native'[k][id].refs = native[k][id].refs
    PROVE  RefsKept'
<1>1. \A i, k, id : Removed(i, k, id)' <=> Removed(i, k, id)
    BY DEF Removed
<1>2. \A i, k, id, obj : Shows(i, k, id, obj)' <=> Shows(i, k, id, obj)
    BY DEF Shows
<1> QED BY <1>1, <1>2 DEF RefsKept

\* An event is posted: what it shows is native, what it ends is announced to
\* be removed.
LEMMA KeptPost ==
    ASSUME TypeOK, RefsKept, PostResolved, NEW e \in Events,
           port' = Append(port, e), Base' = Base,
           \A k \in DOMAIN RefKind, id \in Ids :
               Touches(e, k, id) /\ e.obj # NoObj => native'[k][id] = e.obj,
           \A k \in DOMAIN RefKind, id \in Ids : native[k][id] # NoObj =>
               \/ e.type = RemovalType[k] /\ e.id = id
               \/ native'[k][id] # NoObj /\ native'[k][id].refs = native[k][id].refs
    PROVE  RefsKept'
<1>n. PICK n \in Nat : n = Len(port)
    BY DEF TypeOK
<1>1. /\ DOMAIN port = 1 .. n /\ DOMAIN port' = 1 .. n + 1 /\ Len(port') = n + 1
      /\ port'[n + 1] = e
      /\ \A i \in 1 .. n : port'[i] = port[i]
    BY <1>n DEF TypeOK
<1> SUFFICES ASSUME NEW i \in 0 .. n + 1, NEW k \in DOMAIN RefKind, NEW id \in Ids,
                    NEW obj \in Objects, Shows(i, k, id, obj)'
             PROVE  \/ Removed(i, k, id)'
                    \/ native'[k][id] # NoObj /\ native'[k][id].refs = obj.refs
    BY <1>1 DEF RefsKept
<1>2. CASE i = n + 1
    <2>1. Touches(e, k, id) /\ e.obj = obj /\ obj # NoObj
        BY <1>1, <1>2 DEF Shows
    <2> QED BY <2>1
<1>3. CASE i \in 0 .. n
    <2>1. Shows(i, k, id, obj)
        BY <1>1, <1>3 DEF Shows
    <2>2. Removed(i, k, id) => Removed(i, k, id)'
        BY <1>1 DEF Removed
    <2>3. e.type = RemovalType[k] /\ e.id = id => Removed(i, k, id)'
        <3>1. n + 1 \in DOMAIN port' /\ n + 1 > i
            BY <1>1, <1>3
        <3> QED BY <1>1, <3>1 DEF Removed
    <2>4. \/ Removed(i, k, id)
          \/ native[k][id] # NoObj /\ native[k][id].refs = obj.refs
        BY <1>n, <1>3, <2>1 DEF RefsKept
    <2> QED BY <2>2, <2>3, <2>4
<1> QED BY <1>2, <1>3

\* What handling an event does to one entry of the graph.
LEMMA Applied ==
    ASSUME NEW g \in Graphs, NEW e \in Events, NEW k \in EventKinds, NEW id \in Ids
    PROVE  ApplyEvent(g, e)[k][id] = IF Touches(e, k, id) THEN e.obj ELSE g[k][id]
<1>1. g \in [Kinds -> [Ids -> Objects \union {NoObj}]] /\ k \in Kinds
    BY DEF Graphs, ObjectMap, EventKinds, Kinds
<1>2. e.id \in Ids
    BY DEF Events
<1>3. CASE e.type \in Upserts
    BY <1>1, <1>2, <1>3, EventKindType DEF ApplyEvent, WithObject, Touches
<1>4. CASE e.type \in Removals
    <2>1. e.obj = NoObj /\ e.type \notin Upserts
        BY <1>4 DEF Events, Upserts, Removals
    <2> QED
        BY <1>1, <1>2, <1>4, <2>1, EventKindType
        DEF ApplyEvent, WithoutObject, Touches
<1>5. CASE e.type \notin Upserts \union Removals
    BY <1>5 DEF ApplyEvent, Touches
<1> QED BY <1>3, <1>4, <1>5

\* The oldest event is handled: the graph shows what the event showed.
LEMMA KeptDeliver ==
    ASSUME TypeOK, RefsKept, PostResolved, Deliver
    PROVE  RefsKept'
<1>n. PICK n \in Nat : n = Len(port)
    BY DEF TypeOK
<1> DEFINE e == Head(port)
<1>1. /\ n >= 1 /\ DOMAIN port = 1 .. n /\ DOMAIN port' = 1 .. n - 1
      /\ Len(port') = n - 1 /\ e = port[1] /\ e \in Events
      /\ \A i \in 1 .. n - 1 : port'[i] = port[i + 1]
    BY <1>n DEF Deliver, TypeOK
<1>2. Base = graph /\ Base' = ApplyEvent(graph, e) /\ native' = native
    BY DEF Deliver, Base, monitorVars
<1>3. \A k \in EventKinds, id \in Ids :
         Base'[k][id] = IF Touches(e, k, id) THEN e.obj ELSE Base[k][id]
    BY <1>1, <1>2, Applied DEF TypeOK
<1> HIDE DEF e
<1> SUFFICES ASSUME NEW i \in 0 .. n - 1, NEW k \in DOMAIN RefKind, NEW id \in Ids,
                    NEW obj \in Objects, Shows(i, k, id, obj)'
             PROVE  \/ Removed(i, k, id)'
                    \/ native'[k][id] # NoObj /\ native'[k][id].refs = obj.refs
    BY <1>1 DEF RefsKept
<1>4. \A h \in Nat : h = i + 1 /\ Removed(h, k, id) => Removed(i, k, id)'
    <2> SUFFICES ASSUME Removed(i + 1, k, id) PROVE Removed(i, k, id)'
        OBVIOUS
    <2>1. PICK j \in 1 .. n : /\ j > i + 1
                              /\ port[j].type = RemovalType[k] /\ port[j].id = id
        BY <1>1 DEF Removed
    <2>2. j - 1 \in 1 .. n - 1 /\ j - 1 > i /\ (j - 1) + 1 = j
        BY <2>1
    <2> QED BY <1>1, <2>1, <2>2 DEF Removed
<1>5. CASE i # 0
    <2>1. i + 1 \in 0 .. n /\ i + 1 # 0 /\ i \in 1 .. n - 1 /\ i + 1 \in Nat
        BY <1>5
    <2>2. Shows(i + 1, k, id, obj)
        BY <1>1, <1>5, <2>1 DEF Shows
    <2> QED BY <1>n, <1>2, <1>4, <2>1, <2>2 DEF RefsKept
<1>6. CASE i = 0
    <2>1. k \in EventKinds
        BY DEF RefKind, EventKinds
    <2>2. CASE Touches(e, k, id)
        <3>1. Shows(1, k, id, obj)
            BY <1>1, <1>3, <1>6, <2>1, <2>2 DEF Shows
        <3>2. 1 \in 0 .. n /\ 1 = i + 1
            BY <1>1, <1>6
        <3> QED BY <1>n, <1>2, <1>4, <3>1, <3>2 DEF RefsKept
    <2>3. CASE ~ Touches(e, k, id)
        <3>1. Shows(0, k, id, obj)
            BY <1>3, <1>6, <2>1, <2>3 DEF Shows
        <3>2. Removed(0, k, id) => Removed(1, k, id)
            <4>1. EventKind[RemovalType[k]] = k /\ RemovalType[k] \in Removals
                BY EventKindType DEF RefKind, RemovalType, Removals
            <4>2. ~ (port[1].type = RemovalType[k] /\ port[1].id = id)
                BY <1>1, <2>3, <4>1 DEF Touches
            <4>3. \A j \in 1 .. n : j > 0 => j = 1 \/ j > 1
                OBVIOUS
            <4> QED BY <1>1, <4>2, <4>3 DEF Removed
        <3>3. 0 \in 0 .. n /\ 1 = i + 1
            BY <1>1, <1>6
        <3> QED BY <1>n, <1>2, <1>4, <3>1, <3>2, <3>3 DEF RefsKept
    <2> QED BY <2>2, <2>3
<1> QED BY <1>5, <1>6

\* A message is handled.
LEMMA KeptLoop ==
    ASSUME TypeOK, FreshGlobals, OneKindPerId, RefsInv, RefsKept, PostResolved, Loop
    PROVE  RefsKept'
<1> DEFINE m == Head(wire)
<1>t. /\ native \in [Kinds -> [Ids -> Objects \union {NoObj}]]
      /\ idTypes \in [Ids -> Kinds \union {"none"}]
      /\ DOMAIN RefKind \subseteq Kinds /\ DOMAIN RefKind \subseteq EventKinds
      /\ EventKinds \subseteq Kinds /\ "none" \notin Kinds
    BY DEF TypeOK, Graphs, ObjectMap, Kinds, EventKinds, RefKind
<1>b. Base' = Base
    BY LoopCases DEF Base, dartVars
<1>0. wire # <<>> /\ m \in Messages
    BY LoopCases
<1>1. CASE m.op = "global" /\ OnGlobal(m.id, m.gen, m.obj)
    <2>1. \A k \in Kinds : native[k][m.id] = NoObj
        BY <1>1, <1>t, <1>0, FreshHead, MessageOf DEF OneKindPerId, Has
    <2>2. port' = port /\ m.obj.kind \in Kinds /\ m.id \in Ids
        BY <1>0, <1>1, MessageOf DEF OnGlobal
    <2>3. \A k \in Kinds, id \in Ids : id # m.id => native'[k][id] = native[k][id]
        BY <1>t, <1>1, <2>2 DEF OnGlobal, WithObject
    <2> QED BY <1>t, <1>b, <2>1, <2>2, <2>3, KeptKeep
<1>2. CASE m.op = "global_remove" /\ OnGlobalRemove(m.id)
    <2> DEFINE id0 == m.id  kind == idTypes[id0]
    <2>1. id0 \in Ids /\ kind \in Kinds
        BY <1>0, <1>2, <1>t, MessageOf DEF OnGlobalRemove
    <2>2. native' = [native EXCEPT ![kind] = [@ EXCEPT ![id0] = NoObj]]
        BY <1>2 DEF OnGlobalRemove, WithoutObject
    <2>3. \A k \in Kinds, id \in Ids : ~ (k = kind /\ id = id0) =>
             native'[k][id] = native[k][id]
        BY <1>t, <2>1, <2>2
    <2>4. CASE kind \in EventKinds
        <3> DEFINE removal == Removal(RemovalType[kind], id0)
        <3>1. /\ removal \in Events /\ removal.obj = NoObj
              /\ removal.type = RemovalType[kind] /\ removal.id = id0
            BY <2>1, <2>4 DEF Removal, RemovalType, Events, Removals, EventKinds
        <3>2. port' = Append(port, removal)
            BY <1>2, <2>4 DEF OnGlobalRemove, PostEvent
        <3> HIDE DEF removal, kind, id0
        <3>3. \A k \in DOMAIN RefKind, id \in Ids : native[k][id] # NoObj =>
                 \/ removal.type = RemovalType[k] /\ removal.id = id
                 \/ /\ native'[k][id] # NoObj
                    /\ native'[k][id].refs = native[k][id].refs
            BY <1>t, <2>3, <3>1
        <3> QED BY <1>b, <3>1, <3>2, <3>3, KeptPost
    <2>5. CASE kind \notin EventKinds
        <3>1. port' = port
            BY <1>2, <2>5 DEF OnGlobalRemove
        <3>2. \A k \in DOMAIN RefKind, id \in Ids : native'[k][id] = native[k][id]
            BY <1>t, <2>3, <2>5
        <3> QED BY <1>b, <3>1, <3>2, KeptKeep
    <2> QED BY <2>4, <2>5
<1>3. CASE /\ m.op = "info" /\ m.kind \in Kinds
           /\ \E obj \in Objects : InfoEffect(m.kind, m.id, obj)
    <2> DEFINE id0 == m.id  kind == m.kind
    <2>1. PICK obj \in Objects : InfoEffect(kind, id0, obj)
        BY <1>3
    <2>2. id0 \in Ids /\ kind \in Kinds
        BY <1>0, <1>3, MessageOf
    <2>3. native' = [native EXCEPT ![kind] = [@ EXCEPT ![id0] = obj]]
        BY <2>1 DEF InfoEffect, Enter, WithObject
    <2>4. \A k \in Kinds, id \in Ids : native[k][id] # NoObj =>
             native'[k][id] # NoObj /\ native'[k][id].refs = native[k][id].refs
        <3>1. ReceiveInfo
            BY <1>3
            DEF Loop, Receive, ReceiveGlobal, ReceiveGlobalRemove, ReceiveDone,
                ReceiveError
        <3> QED BY <3>1, InfoKeepsRefs
    <2>5. CASE port' = port
        BY <1>t, <1>b, <2>4, <2>5, KeptKeep
    <2>6. ASSUME NEW type \in Upserts, EventKind[type] = kind,
                 PostEvent(Upsert(type, id0, obj))
          PROVE  RefsKept'
        <3> DEFINE upsert == Upsert(type, id0, obj)
        <3>1. /\ upsert \in Events /\ upsert.obj = obj
              /\ \A k, id : Touches(upsert, k, id) => k = kind /\ id = id0
              /\ port' = Append(port, upsert)
            BY <2>2, <2>6 DEF Upsert, Events, Touches, PostEvent
        <3>2. native'[kind][id0] = obj
            BY <1>t, <2>2, <2>3
        <3> HIDE DEF upsert, kind, id0
        <3>3. \A k \in DOMAIN RefKind, id \in Ids :
                 Touches(upsert, k, id) /\ upsert.obj # NoObj =>
                    native'[k][id] = upsert.obj
            BY <3>1, <3>2
        <3>4. \A k \in DOMAIN RefKind, id \in Ids : native[k][id] # NoObj =>
                 \/ upsert.type = RemovalType[k] /\ upsert.id = id
                 \/ /\ native'[k][id] # NoObj
                    /\ native'[k][id].refs = native[k][id].refs
            BY <1>t, <2>4
        <3> QED BY <1>b, <3>1, <3>3, <3>4, KeptPost
    <2> QED BY <2>1, <2>5, <2>6 DEF InfoEffect
<1>4. CASE m.op = "error" /\ OnCoreError(m.id)
    <2> DEFINE e == [type |-> "error", id |-> m.id, obj |-> NoObj]
    <2>1. e \in Events /\ \A k, id : ~ Touches(e, k, id)
        BY <1>0, <1>4, MessageOf DEF Events, Touches, Upserts, Removals
    <2>2. port' = Append(port, e) /\ native' = native
        BY <1>4 DEF OnCoreError, PostEvent, monitorVars
    <2> HIDE DEF e
    <2> QED BY <1>b, <2>1, <2>2, KeptPost
<1>5. CASE UNCHANGED <<monitorVars, requests, port>>
    BY <1>b, <1>5, KeptKeep DEF monitorVars
<1> QED
    BY <1>1, <1>2, <1>3, <1>4, <1>5, LoopCases

\* Every step keeps the references that the graph shows on the native side.
LEMMA KeptStep ==
    TypeOK /\ FreshGlobals /\ OneKindPerId /\ RefsInv /\ RefsKept /\ [Next]_vars
        => RefsKept'
<1> SUFFICES ASSUME TypeOK, FreshGlobals, OneKindPerId, RefsInv, RefsKept,
                    [Next]_vars, PostResolved
             PROVE  RefsKept'
    BY DEF RefsKept
<1>1. CASE Loop
    BY <1>1, KeptLoop
<1>2. CASE Deliver
    BY <1>2, KeptDeliver
<1>3. CASE TakeFirstSnapshot \/ TakeSnapshot
    <2>1. Base' = native /\ native' = native /\ port' = port
        BY <1>3 DEF TakeFirstSnapshot, TakeSnapshot, Base, monitorVars
    <2>2. \A i, k, id : Removed(i, k, id)' <=> Removed(i, k, id)
        BY <2>1 DEF Removed
    <2>3. \A i, k, id, obj : i # 0 => (Shows(i, k, id, obj)' <=> Shows(i, k, id, obj))
        BY <2>1 DEF Shows
    <2>4. \A k, id, obj : Shows(0, k, id, obj)' => obj # NoObj /\ native[k][id] = obj
        BY <2>1 DEF Shows
    <2> QED BY <2>1, <2>2, <2>3, <2>4 DEF RefsKept
<1>4. CASE UNCHANGED <<native, port>> /\ Base' = Base
    BY <1>4, KeptKeep
<1>5. CASE AssignGraph
    BY <1>4, <1>5 DEF AssignGraph, Base, monitorVars
<1>6. CASE FinishConnect
    BY <1>4, <1>6 DEF FinishConnect, Base, monitorVars
<1>7. CASE UNCHANGED <<monitorVars, port, dartVars>>
    BY <1>4, <1>7 DEF Base, monitorVars, dartVars
<1> QED
    BY <1>1, <1>2, <1>3, <1>5, <1>6, <1>7
    DEF Next, Daemon, DaemonAnswer, DaemonAdd, DaemonRemove, DaemonChange,
        DaemonBind, DaemonSync, Connect, Isolate, StartRound1, StartRound2,
        StartRound, vars

\* At first the graph shows nothing.
LEMMA KeptInit == Init => RefsKept
<1> SUFFICES ASSUME Init PROVE RefsKept
    OBVIOUS
<1>1. Len(port) = 0 /\ \A k \in Kinds, id \in Ids : Base[k][id] = NoObj
    BY DEF Init, Base, EmptyGraph
<1>2. DOMAIN RefKind \subseteq Kinds
    BY DEF RefKind, Kinds
<1> QED BY <1>1, <1>2 DEF RefsKept, Shows

\* Of some subsets of a finite set one is minimal.
LEMMA MinimalSubset ==
    ASSUME NEW S, IsFiniteSet(S), NEW T, T \subseteq SUBSET S, T # {}
    PROVE  \E a \in T : \A b \in T : b \subseteq a => b = a
<1>1. FiniteSubsetsOf(S) = SUBSET S
    BY FS_FiniteSubsetsOfFinite
<1>2. IsWellFoundedOn(StrictSubsetOrdering(S), FiniteSubsetsOf(S))
    BY FS_StrictSubsetOrderingWellFounded
<1>3. T \subseteq FiniteSubsetsOf(S)
    BY <1>1
<1>4. \E a \in T : \A b \in T : ~ (<<b, a>> \in StrictSubsetOrdering(S))
    BY <1>2, <1>3, WFMin
<1> QED BY <1>4 DEF StrictSubsetOrdering

\* Of the events about an entry one is the last: the one with the fewest such
\* events after it.
LEMMA SomeLastWord ==
    ASSUME TypeOK, NEW k, NEW id, NEW i \in DOMAIN port, Touches(port[i], k, id)
    PROVE  \E j \in DOMAIN port : LastWord(j, k, id)
<1>n. PICK n \in Nat : n = Len(port) /\ DOMAIN port = 1 .. n
    BY DEF TypeOK
<1> DEFINE S == {j \in 1 .. n : Touches(port[j], k, id)}
           After(j) == {l \in S : l > j}
           T == {After(j) : j \in S}
<1>1. IsFiniteSet(S)
    <2>1. IsFiniteSet(1 .. n) /\ S \subseteq 1 .. n
        BY FS_Interval
    <2> HIDE DEF S
    <2> QED BY <2>1, FS_Subset
<1>2. T \subseteq SUBSET S /\ T # {}
    <2>1. i \in S
        BY <1>n
    <2>2. \A j \in S : After(j) \subseteq S
        OBVIOUS
    <2> HIDE DEF S, After
    <2> QED BY <2>1, <2>2
<1>3. PICK a \in T : \A b \in T : b \subseteq a => b = a
    <2> HIDE DEF T, S
    <2> QED BY <1>1, <1>2, MinimalSubset
<1>4. PICK j \in S : a = After(j)
    OBVIOUS
<1>5. ASSUME NEW l \in S, l > j PROVE FALSE
    <2>1. After(l) \in T /\ After(l) \subseteq a /\ l \in a /\ l \notin After(l)
        BY <1>4, <1>5
    <2> QED BY <1>3, <2>1
<1> QED BY <1>n, <1>5 DEF LastWord

\* A port or link shown without what it refers to is about to go, or what it
\* refers to is about to come.
LEMMA DanglingNow ==
    ASSUME TypeOK, Convergence, RefsInv, RefsKept
    PROVE  DanglingIsPassing
<1> SUFFICES ASSUME dart = "listening", PostResolved,
                    NEW k \in DOMAIN RefKind, NEW id \in Ids, Has(graph, k, id),
                    NEW r \in graph[k][id].refs,
                    ~ Has(graph, RefKind[k], r), ~ Leaving(k, id)
             PROVE  Coming(RefKind[k], r)
    BY DEF DanglingIsPassing
<1>1. /\ k \in Kinds /\ RefKind[k] \in EventKinds /\ Base = graph
      /\ graph[k][id] \in Objects
    BY DEF RefKind, Kinds, EventKinds, Base, TypeOK, Graphs, ObjectMap, Has
<1>2. Shows(0, k, id, graph[k][id]) /\ ~ Removed(0, k, id) /\ 0 \in 0 .. Len(port)
    BY <1>1 DEF Shows, Has, Removed, Leaving, TypeOK
<1>3. native[k][id] # NoObj /\ native[k][id].refs = graph[k][id].refs
    BY <1>1, <1>2 DEF RefsKept
<1>4. Has(native, RefKind[k], r)
    BY <1>3, RefsInvNow DEF NativeIntegrity, Integrity, Has
<1>5. r \in Ids
    BY <1>1 DEF Objects
<1>6. CASE <<RefKind[k], r>> \in announced
    <2>1. ~ Agrees(NoObj, RefKind[k], r)
        BY <1>4, <1>6 DEF Agrees, Has
    <2>2. PICK i \in DOMAIN port : Touches(port[i], RefKind[k], r)
        BY <1>1, <1>5, <2>1 DEF Convergence, Has
    <2>3. PICK j \in DOMAIN port : LastWord(j, RefKind[k], r)
        BY <2>2, SomeLastWord
    <2>4. port[j].obj # NoObj
        BY <1>1, <1>5, <2>1, <2>3 DEF Convergence
    <2>5. port[j].type \in Upserts
        BY <2>3, <2>4 DEF TypeOK, Events, LastWord, Touches
    <2> QED BY <1>4, <2>3, <2>5 DEF LastWord, Coming
<1>7. CASE <<RefKind[k], r>> \notin announced
    BY <1>4, <1>7 DEF Coming
<1> QED BY <1>6, <1>7

\* PwClient's graph may show a port without its node, or a link without its
\* ports, only while the removal of the one or the arrival of the other is in
\* flight: no reference is left dangling by the replay of older events.
THEOREM Dangling_Is_Passing == Spec => []DanglingIsPassing
<1>1. IndInv => TypeOK /\ FreshGlobals /\ OneKindPerId /\ Convergence
    BY DEF IndInv
<1>2. Spec => []RefsKept
    BY <1>1, KeptInit, KeptStep, Inductive, RefsInvariant, PTL DEF Spec
<1> QED BY <1>1, <1>2, DanglingNow, Inductive, RefsInvariant, PTL

-----------------------------------------------------------------------------
\* The state of an object reaches the maps

\* An info about the object, or, if full, one that has its properties.
InfoOf(m, k, id, full) ==
    m.op = "info" /\ m.kind = k /\ m.id = id /\ (full => m.hasProps)

NoInfo(w, k, id, full) == \A i \in DOMAIN w : ~ InfoOf(w[i], k, id, full)

\* The i-th message is the last such info.
LastInfo(w, i, k, id, full) ==
    /\ i \in DOMAIN w
    /\ InfoOf(w[i], k, id, full)
    /\ \A j \in DOMAIN w : j > i => ~ InfoOf(w[j], k, id, full)

\* The entry e will have these properties, or be in this state, when the infos
\* on the wire w have been handled.
PropsComing(w, e, k, id, val) ==
    \/ \E i \in DOMAIN w : LastInfo(w, i, k, id, TRUE) /\ w[i].props = val
    \/ NoInfo(w, k, id, TRUE) /\ e.props = val

StateComing(w, e, k, id, val) ==
    \/ \E i \in DOMAIN w : LastInfo(w, i, k, id, FALSE) /\ w[i].st = val
    \/ NoInfo(w, k, id, FALSE) /\ e.st = val

\* What no info changes, the global has shown: ports and devices have no state.
FromGlobal(k, e, obj) == k \in {"port", "device"} => e.st = obj.st

\* The three stages of an object of the daemon's registry.  Its global is on
\* its way;
GlobalComing(k, id) ==
    \E i \in DOMAIN wire :
        /\ wire[i].op = "global" /\ wire[i].id = id /\ wire[i].gen = gen[id]
        /\ wire[i].obj.kind = k
        /\ Silent(wire, i, Len(wire), id)

\* or it has an entry, and its bind is on its way;
Entered(k, id) ==
    /\ native[k][id] # NoObj
    /\ FromGlobal(k, native[k][id], world[id])
    /\ Silent(wire, 0, Len(wire), id)

BindComing(id) ==
    \E i \in DOMAIN requests :
        requests[i].op = "bind" /\ requests[i].id = id /\ requests[i].gen = gen[id]

\* or it is bound, and what the entry does not show yet, infos will.
InfosComing(k, id) ==
    /\ id \in bound
    /\ k # "link" => PropsComing(wire, native[k][id], k, id, world[id].props)
    /\ k \in {"node", "link"} =>
          StateComing(wire, native[k][id], k, id, world[id].st)
    /\ NoInfo(wire, k, id, FALSE) => <<k, id>> \in announced

Settling(k, id) ==
    \/ GlobalComing(k, id)
    \/ Entered(k, id) /\ (BindComing(id) \/ InfosComing(k, id))

KindOf(k, id) == world[id] # NoObj /\ world[id].kind = k

IdleInv ==
    /\ \A id \in Present(world) : PossibleState(world[id])
    /\ \A k \in Kinds, id \in Ids : native[k][id] # NoObj => native[k][id].kind = k
    /\ \A k \in Kinds, id \in Ids : KindOf(k, id) => Settling(k, id)

\* An info sent is the last one, and leaves the order of the others.
LEMMA InfoSent ==
    ASSUME NEW w \in Seq(Messages), NEW m, NEW k, NEW id, NEW full
    PROVE  /\ InfoOf(m, k, id, full) =>
                 LastInfo(Append(w, m), Len(w) + 1, k, id, full)
           /\ ~ InfoOf(m, k, id, full) =>
                 /\ NoInfo(w, k, id, full) => NoInfo(Append(w, m), k, id, full)
                 /\ \A i \in DOMAIN w : LastInfo(w, i, k, id, full) =>
                       LastInfo(Append(w, m), i, k, id, full)
<1> DEFINE v == Append(w, m)
<1>n. PICK n \in Nat : n = Len(w)
    OBVIOUS
<1>1. /\ DOMAIN w = 1 .. n /\ DOMAIN v = 1 .. n + 1 /\ v[n + 1] = m
      /\ \A j \in 1 .. n : v[j] = w[j]
    BY <1>n
<1> HIDE DEF v
<1>2. InfoOf(m, k, id, full) => LastInfo(v, n + 1, k, id, full)
    BY <1>1 DEF LastInfo
<1>3. ASSUME ~ InfoOf(m, k, id, full), NoInfo(w, k, id, full)
      PROVE  NoInfo(v, k, id, full)
    BY <1>1, <1>3 DEF NoInfo
<1>4. ASSUME ~ InfoOf(m, k, id, full), NEW i \in DOMAIN w, LastInfo(w, i, k, id, full)
      PROVE  LastInfo(v, i, k, id, full)
    BY <1>1, <1>4 DEF LastInfo
<1> QED BY <1>n, <1>2, <1>3, <1>4 DEF v

\* An info handled was the last one, or the last one comes nearer.
LEMMA InfoTaken ==
    ASSUME NEW w \in Seq(Messages), w # <<>>, NEW k, NEW id, NEW full
    PROVE  /\ NoInfo(w, k, id, full) =>
                 ~ InfoOf(Head(w), k, id, full) /\ NoInfo(Tail(w), k, id, full)
           /\ \A i \in DOMAIN w : LastInfo(w, i, k, id, full) =>
                 \/ /\ i = 1 /\ InfoOf(Head(w), k, id, full) /\ w[i] = Head(w)
                    /\ NoInfo(Tail(w), k, id, full)
                 \/ /\ i - 1 \in DOMAIN Tail(w)
                    /\ LastInfo(Tail(w), i - 1, k, id, full)
                    /\ Tail(w)[i - 1] = w[i]
<1> DEFINE v == Tail(w)
<1>n. PICK n \in Nat : n = Len(w)
    OBVIOUS
<1>1. /\ n >= 1 /\ DOMAIN w = 1 .. n /\ DOMAIN v = 1 .. n - 1 /\ w[1] = Head(w)
      /\ \A j \in 1 .. n - 1 : v[j] = w[j + 1]
    BY <1>n
<1> HIDE DEF v
<1>2. ASSUME NoInfo(w, k, id, full)
      PROVE  ~ InfoOf(w[1], k, id, full) /\ NoInfo(v, k, id, full)
    <2>1. \A j \in 1 .. n - 1 : j + 1 \in 1 .. n
        OBVIOUS
    <2> QED BY SMTT(30), <1>1, <1>2, <2>1 DEF NoInfo
<1>3. ASSUME NEW i \in 1 .. n, LastInfo(w, i, k, id, full), i = 1
      PROVE  InfoOf(w[1], k, id, full) /\ NoInfo(v, k, id, full)
    <2>1. \A j \in 1 .. n - 1 : j + 1 \in 1 .. n /\ j + 1 > 1
        OBVIOUS
    <2> QED BY <1>1, <1>3, <2>1 DEF NoInfo, LastInfo
<1>4. ASSUME NEW i \in 1 .. n, LastInfo(w, i, k, id, full), i # 1
      PROVE  i - 1 \in 1 .. n - 1 /\ LastInfo(v, i - 1, k, id, full) /\ v[i - 1] = w[i]
    <2>1. i - 1 \in 1 .. n - 1 /\ (i - 1) + 1 = i
        BY <1>4
    <2>2. \A j \in 1 .. n - 1 : j + 1 \in 1 .. n /\ (j > i - 1 => j + 1 > i)
        OBVIOUS
    <2> QED BY <1>1, <1>4, <2>1, <2>2 DEF LastInfo
<1> QED BY <1>1, <1>2, <1>3, <1>4 DEF v

\* A message sent leads to the new properties, if it shows them when they are
\* not the old ones.
LEMMA PropsSent ==
    ASSUME NEW w \in Seq(Messages), NEW m, NEW e, NEW k, NEW id, NEW val, NEW new,
           InfoOf(m, k, id, TRUE) => m.props = new,
           ~ InfoOf(m, k, id, TRUE) => new = val /\ PropsComing(w, e, k, id, val)
    PROVE  PropsComing(Append(w, m), e, k, id, new)
<1> DEFINE v == Append(w, m)
<1>1. /\ DOMAIN w \subseteq DOMAIN v /\ v[Len(w) + 1] = m /\ Len(w) + 1 \in DOMAIN v
      /\ \A j \in DOMAIN w : v[j] = w[j]
    OBVIOUS
<1>2. CASE InfoOf(m, k, id, TRUE)
    <2>1. LastInfo(v, Len(w) + 1, k, id, TRUE)
        BY <1>2, InfoSent
    <2> HIDE DEF v
    <2>2. PropsComing(v, e, k, id, new)
        BY <1>1, <1>2, <2>1 DEF PropsComing
    <2> QED BY <2>2 DEF v
<1>3. CASE ~ InfoOf(m, k, id, TRUE)
    <2>1. /\ NoInfo(w, k, id, TRUE) => NoInfo(v, k, id, TRUE)
          /\ \A i \in DOMAIN w : LastInfo(w, i, k, id, TRUE) => LastInfo(v, i, k, id, TRUE)
        BY <1>3, InfoSent
    <2> HIDE DEF v
    <2>2. PropsComing(v, e, k, id, new)
        BY <1>1, <1>3, <2>1 DEF PropsComing
    <2> QED BY <2>2 DEF v
<1> QED BY <1>2, <1>3

\* The same of the state.
LEMMA StateSent ==
    ASSUME NEW w \in Seq(Messages), NEW m, NEW e, NEW k, NEW id, NEW val, NEW new,
           InfoOf(m, k, id, FALSE) => m.st = new,
           ~ InfoOf(m, k, id, FALSE) => new = val /\ StateComing(w, e, k, id, val)
    PROVE  StateComing(Append(w, m), e, k, id, new)
<1> DEFINE v == Append(w, m)
<1>1. /\ DOMAIN w \subseteq DOMAIN v /\ v[Len(w) + 1] = m /\ Len(w) + 1 \in DOMAIN v
      /\ \A j \in DOMAIN w : v[j] = w[j]
    OBVIOUS
<1>2. CASE InfoOf(m, k, id, FALSE)
    <2>1. LastInfo(v, Len(w) + 1, k, id, FALSE)
        BY <1>2, InfoSent
    <2> HIDE DEF v
    <2>2. StateComing(v, e, k, id, new)
        BY <1>1, <1>2, <2>1 DEF StateComing
    <2> QED BY <2>2 DEF v
<1>3. CASE ~ InfoOf(m, k, id, FALSE)
    <2>1. /\ NoInfo(w, k, id, FALSE) => NoInfo(v, k, id, FALSE)
          /\ \A i \in DOMAIN w : LastInfo(w, i, k, id, FALSE) => LastInfo(v, i, k, id, FALSE)
        BY <1>3, InfoSent
    <2> HIDE DEF v
    <2>2. StateComing(v, e, k, id, new)
        BY <1>1, <1>3, <2>1 DEF StateComing
    <2> QED BY <2>2 DEF v
<1> QED BY <1>2, <1>3

\* A message handled leads to the same, if the entry takes what it shows.
LEMMA PropsHandled ==
    ASSUME NEW w \in Seq(Messages), w # <<>>, NEW e, NEW d, NEW k, NEW id, NEW val,
           PropsComing(w, e, k, id, val),
           d.props = IF InfoOf(Head(w), k, id, TRUE) THEN Head(w).props ELSE e.props
    PROVE  PropsComing(Tail(w), d, k, id, val)
<1>1. CASE NoInfo(w, k, id, TRUE) /\ e.props = val
    <2>1. ~ InfoOf(Head(w), k, id, TRUE) /\ NoInfo(Tail(w), k, id, TRUE)
        BY <1>1, InfoTaken
    <2> QED BY <1>1, <2>1 DEF PropsComing
<1>2. ASSUME NEW i \in DOMAIN w, LastInfo(w, i, k, id, TRUE), w[i].props = val
      PROVE  PropsComing(Tail(w), d, k, id, val)
    <2>1. \/ /\ InfoOf(Head(w), k, id, TRUE) /\ w[i] = Head(w)
             /\ NoInfo(Tail(w), k, id, TRUE)
          \/ /\ i - 1 \in DOMAIN Tail(w) /\ LastInfo(Tail(w), i - 1, k, id, TRUE)
             /\ Tail(w)[i - 1] = w[i]
        BY <1>2, InfoTaken
    <2> QED BY <1>2, <2>1 DEF PropsComing
<1> QED BY <1>1, <1>2 DEF PropsComing

\* The same of the state.
LEMMA StateHandled ==
    ASSUME NEW w \in Seq(Messages), w # <<>>, NEW e, NEW d, NEW k, NEW id, NEW val,
           StateComing(w, e, k, id, val),
           d.st = IF InfoOf(Head(w), k, id, FALSE) THEN Head(w).st ELSE e.st
    PROVE  StateComing(Tail(w), d, k, id, val)
<1>1. CASE NoInfo(w, k, id, FALSE) /\ e.st = val
    <2>1. ~ InfoOf(Head(w), k, id, FALSE) /\ NoInfo(Tail(w), k, id, FALSE)
        BY <1>1, InfoTaken
    <2> QED BY <1>1, <2>1 DEF StateComing
<1>2. ASSUME NEW i \in DOMAIN w, LastInfo(w, i, k, id, FALSE), w[i].st = val
      PROVE  StateComing(Tail(w), d, k, id, val)
    <2>1. \/ /\ InfoOf(Head(w), k, id, FALSE) /\ w[i] = Head(w)
             /\ NoInfo(Tail(w), k, id, FALSE)
          \/ /\ i - 1 \in DOMAIN Tail(w) /\ LastInfo(Tail(w), i - 1, k, id, FALSE)
             /\ Tail(w)[i - 1] = w[i]
        BY <1>2, InfoTaken
    <2> QED BY <1>2, <2>1 DEF StateComing
<1> QED BY <1>1, <1>2 DEF StateComing

\* Nothing about the object follows: as before, but for the message sent.
LEMMA QuietSent ==
    ASSUME NEW w \in Seq(Messages), NEW m, NEW id, ~ About(m, id),
           NEW i \in 0 .. Len(w), Silent(w, i, Len(w), id)
    PROVE  Silent(Append(w, m), i, Len(Append(w, m)), id)
<1> DEFINE v == Append(w, m)
<1>n. PICK n \in Nat : n = Len(w)
    OBVIOUS
<1>1. Len(v) = n + 1 /\ v[n + 1] = m /\ \A j \in 1 .. n : v[j] = w[j]
    BY <1>n
<1>2. Silent(w, i, n, id) /\ i \in 0 .. n
    BY <1>n
<1> HIDE DEF v
<1>3. ASSUME NEW l \in i + 1 .. n + 1 PROVE ~ About(v[l], id)
    <2>1. l = n + 1 \/ (l \in 1 .. n /\ l \in i + 1 .. n)
        BY <1>2
    <2> QED BY <1>1, <1>2, <2>1 DEF Silent
<1>4. Silent(v, i, Len(v), id)
    BY <1>1, <1>3 DEF Silent
<1> QED BY <1>4 DEF v

\* As before, and one message nearer.
LEMMA QuietTaken ==
    ASSUME NEW w \in Seq(Messages), w # <<>>, NEW id,
           NEW i \in 1 .. Len(w), Silent(w, i, Len(w), id)
    PROVE  Silent(Tail(w), i - 1, Len(Tail(w)), id)
<1> DEFINE v == Tail(w)
<1>n. PICK n \in Nat : n = Len(w)
    OBVIOUS
<1>1. Len(v) = n - 1 /\ n >= 1 /\ \A j \in 1 .. n - 1 : v[j] = w[j + 1]
    BY <1>n
<1>2. Silent(w, i, n, id) /\ i \in 1 .. n
    BY <1>n
<1> HIDE DEF v
<1>3. ASSUME NEW l \in (i - 1) + 1 .. n - 1 PROVE ~ About(v[l], id)
    <2>1. l \in 1 .. n - 1 /\ l + 1 \in i + 1 .. n
        BY <1>2
    <2> QED BY <1>1, <1>2, <2>1 DEF Silent
<1>4. Silent(v, i - 1, Len(v), id)
    BY <1>1, <1>3 DEF Silent
<1> QED BY <1>4 DEF v

\* What the daemon sends leaves an object settling, if it tells of what changes
\* of an object that is bound.
LEMMA SettlingSent ==
    ASSUME TypeOK, NEW k \in Kinds, NEW id \in Ids, NEW m \in Messages,
           wire' = Append(wire, m), UNCHANGED <<native, announced>>,
           ~ About(m, id), Settling(k, id),
           gen'[id] = gen[id], id \in bound => id \in bound',
           k \in {"port", "device"} => world'[id].st = world[id].st,
           InfoOf(m, k, id, TRUE) => m.props = world'[id].props,
           InfoOf(m, k, id, FALSE) => m.st = world'[id].st,
           id \in bound =>
              /\ ~ InfoOf(m, k, id, TRUE) => world'[id].props = world[id].props
              /\ ~ InfoOf(m, k, id, FALSE) => world'[id].st = world[id].st,
           BindComing(id) =>
              BindComing(id)' \/ (id \in bound' /\ InfoOf(m, k, id, TRUE))
    PROVE  Settling(k, id)'
<1>n. PICK n \in Nat : n = Len(wire)
    BY DEF TypeOK
<1>1. /\ DOMAIN wire = 1 .. n /\ DOMAIN wire' = 1 .. n + 1 /\ wire'[n + 1] = m
      /\ \A i \in 1 .. n : wire'[i] = wire[i]
      /\ wire \in Seq(Messages)
    BY <1>n DEF TypeOK
<1>2. \A i \in 0 .. n : Silent(wire, i, Len(wire), id) => Silent(wire', i, Len(wire'), id)
    BY <1>n, <1>1, QuietSent
<1>3. CASE GlobalComing(k, id)
    <2>1. PICK i \in 1 .. n :
             /\ wire[i].op = "global" /\ wire[i].id = id /\ wire[i].gen = gen[id]
             /\ wire[i].obj.kind = k
             /\ Silent(wire, i, Len(wire), id)
        BY <1>1, <1>3 DEF GlobalComing
    <2>2. Silent(wire', i, Len(wire'), id)
        BY <1>2, <2>1
    <2>3. GlobalComing(k, id)'
        BY <1>1, <2>1, <2>2 DEF GlobalComing
    <2> QED BY <2>3 DEF Settling
<1>4. CASE Entered(k, id) /\ (BindComing(id) \/ InfosComing(k, id))
    <2>1. Entered(k, id)'
        <3>1. Silent(wire', 0, Len(wire'), id)
            BY <1>2, <1>4 DEF Entered
        <3> QED BY <1>4, <3>1 DEF Entered, FromGlobal
    <2>2. ASSUME id \in bound', InfoOf(m, k, id, TRUE)
          PROVE  InfosComing(k, id)'
        <3>1. PropsComing(wire', native[k][id], k, id, world'[id].props)
            BY <1>1, <2>2, PropsSent
        <3>2. InfoOf(m, k, id, FALSE)
            BY <2>2 DEF InfoOf
        <3>3. StateComing(wire', native[k][id], k, id, world'[id].st)
            BY <1>1, <3>2, StateSent
        <3>4. n + 1 \in DOMAIN wire'
            BY <1>1
        <3>5. ~ NoInfo(wire', k, id, FALSE)
            BY <1>1, <3>2, <3>4 DEF NoInfo
        <3> QED BY <2>2, <3>1, <3>3, <3>5 DEF InfosComing
    <2>3. ASSUME InfosComing(k, id)
          PROVE  InfosComing(k, id)'
        <3>1. k # "link" => PropsComing(wire', native[k][id], k, id, world'[id].props)
            BY <1>1, <2>3, PropsSent DEF InfosComing
        <3>2. k \in {"node", "link"} =>
                 StateComing(wire', native[k][id], k, id, world'[id].st)
            BY <1>1, <2>3, StateSent DEF InfosComing
        <3>3. \A i \in 1 .. n : i \in 1 .. n + 1
            OBVIOUS
        <3>4. NoInfo(wire', k, id, FALSE) => NoInfo(wire, k, id, FALSE)
            BY <1>1, <3>3 DEF NoInfo
        <3> QED BY <2>3, <3>1, <3>2, <3>4 DEF InfosComing
    <2> QED BY <1>4, <2>1, <2>2, <2>3 DEF Settling
<1> QED BY <1>3, <1>4 DEF Settling

\* An entry after the message m: it shows what the handler of its kind takes
\* from an info about it.
Shown(m, k, id) ==
    LET old == native[k][id]
        new == native'[k][id]
        here == InfoOf(m, k, id, FALSE)
    IN /\ new # NoObj /\ new.kind = old.kind
       /\ new.st = IF here /\ k \in {"node", "link"} THEN m.st ELSE old.st
       /\ new.props = IF here /\ m.hasProps /\ k # "link" THEN m.props ELSE old.props
       /\ here => <<k, id>> \in announced'
       /\ <<k, id>> \in announced => <<k, id>> \in announced'

\* An info is stored under the id and kind it is about, and nowhere else.
LEMMA InfoValues ==
    ASSUME TypeOK, OneKindPerId, ReceiveInfo
    PROVE  /\ UNCHANGED <<requests, world, bound, gen>>
           /\ \A k \in Kinds, id \in Ids :
                 /\ native[k][id] # NoObj => Shown(Head(wire), k, id)
                 /\ native[k][id] = NoObj => native'[k][id] = NoObj
<1> DEFINE m == Head(wire)  old == native[m.kind][m.id]
<1>t. native \in [Kinds -> [Ids -> Objects \union {NoObj}]]
    BY DEF TypeOK, Graphs, ObjectMap
<1>1. /\ wire # <<>> /\ m \in Infos /\ m.op = "info"
      /\ UNCHANGED <<requests, world, bound, gen>>
    BY MessageOf DEF ReceiveInfo, Receive, TypeOK, daemonVars, OnNodeInfo,
         OnPortInfo, OnLinkInfo, OnDeviceInfo, OnStaleInfo, Enter
<1>2. m.id \in Ids
    BY <1>1 DEF Infos
<1>3. \A k \in Kinds, id \in Ids :
         native[k][id] # NoObj => id \in proxies /\ idTypes[id] = k
    BY DEF OneKindPerId, Has, Kinds
<1>4. CASE /\ m.id \notin proxies \/ OnStaleInfo(m.id, m)
           /\ UNCHANGED <<monitorVars, requests, port>>
    <2>1. \A k \in Kinds, id \in Ids :
             native[k][id] # NoObj => ~ InfoOf(m, k, id, FALSE)
        BY <1>3, <1>4 DEF OnStaleInfo, Has, InfoOf
    <2> QED BY <1>1, <1>4, <2>1 DEF InfoOf, Shown, monitorVars
<1>5. ASSUME m.kind \in Kinds, old \in Objects, NEW obj \in Objects,
             Enter(m.kind, m.id, obj),
             obj.kind = old.kind,
             obj.st = IF m.kind \in {"node", "link"} THEN m.st ELSE old.st,
             obj.props = IF m.hasProps /\ m.kind # "link" THEN m.props ELSE old.props,
             NEW k \in Kinds, NEW id \in Ids
      PROVE  /\ native[k][id] # NoObj => Shown(m, k, id)
             /\ native[k][id] = NoObj => native'[k][id] = NoObj
    <2>1. native' = [native EXCEPT ![m.kind] = [@ EXCEPT ![m.id] = obj]]
          /\ announced' = announced \union {<<m.kind, m.id>>}
        BY <1>5 DEF Enter, WithObject
    <2>2. native'[k][id] = IF k = m.kind /\ id = m.id THEN obj ELSE native[k][id]
        BY <1>t, <1>2, <1>5, <2>1
    <2>3. CASE k = m.kind /\ id = m.id
        BY <1>1, <1>5, <2>1, <2>2, <2>3, NoObjAssumption DEF Shown, InfoOf
    <2>4. CASE ~ (k = m.kind /\ id = m.id)
        BY <2>1, <2>2, <2>4 DEF Shown, InfoOf
    <2> QED BY <2>3, <2>4
<1>6. ASSUME m.kind \in Kinds, Has(native, m.kind, m.id)
      PROVE  /\ old \in Objects
             /\ Updated(old, m) \in Objects /\ Updated(old, m).kind = old.kind
             /\ Updated(old, m).st = old.st
             /\ Updated(old, m).props = IF m.hasProps THEN m.props ELSE old.props
    <2>1. old \in Objects
        BY <1>t, <1>2, <1>6 DEF Has
    <2> QED BY <1>1, <2>1 DEF Updated, Objects, Infos
<1>7. CASE m.kind = "node" /\ OnNodeInfo(m.id, m)
    <2> DEFINE obj == [Updated(old, m) EXCEPT !.st = m.st]
    <2>1. m.kind \in Kinds /\ Enter(m.kind, m.id, obj) /\ Has(native, m.kind, m.id)
        BY <1>7 DEF OnNodeInfo, Kinds
    <2>2. /\ obj \in Objects /\ obj.kind = old.kind /\ obj.st = m.st
          /\ obj.props = Updated(old, m).props
        BY <1>1, <1>6, <2>1 DEF Objects, Infos
    <2> HIDE DEF obj
    <2> QED BY <1>1, <1>5, <1>6, <1>7, <2>1, <2>2
<1>8. CASE m.kind = "port" /\ OnPortInfo(m.id, m)
    <2>1. m.kind \in Kinds /\ Enter(m.kind, m.id, Updated(old, m)) /\ Has(native, m.kind, m.id)
        BY <1>8 DEF OnPortInfo, Kinds
    <2> QED BY <1>1, <1>5, <1>6, <1>8, <2>1
<1>9. CASE m.kind = "link" /\ OnLinkInfo(m.id, m)
    <2> DEFINE obj == [old EXCEPT !.st = m.st, !.refs = m.refs]
    <2>1. m.kind \in Kinds /\ Enter(m.kind, m.id, obj) /\ Has(native, m.kind, m.id)
        BY <1>9 DEF OnLinkInfo, Kinds
    <2>2. /\ obj \in Objects /\ obj.kind = old.kind /\ obj.st = m.st
          /\ obj.props = old.props
        BY <1>1, <1>6, <2>1 DEF Objects, Infos
    <2> HIDE DEF obj
    <2> QED BY <1>1, <1>5, <1>6, <1>9, <2>1, <2>2
<1>10. CASE m.kind = "device" /\ OnDeviceInfo(m.id, m)
    <2>1. m.kind \in Kinds /\ Enter(m.kind, m.id, Updated(old, m)) /\ Has(native, m.kind, m.id)
        BY <1>10 DEF OnDeviceInfo, Kinds
    <2> QED BY <1>1, <1>5, <1>6, <1>10, <2>1
<1> QED
    BY <1>1, <1>4, <1>7, <1>8, <1>9, <1>10 DEF ReceiveInfo, OnStaleInfo

\* A message about other objects leaves an entry, but for what an info shows.
LEMMA LoopShown ==
    ASSUME TypeOK, OneKindPerId, Loop, NEW k \in Kinds, NEW id \in Ids,
           native[k][id] # NoObj, ~ About(Head(wire), id)
    PROVE  Shown(Head(wire), k, id)
<1> DEFINE m == Head(wire)
<1>t. /\ native \in [Kinds -> [Ids -> Objects \union {NoObj}]]
      /\ idTypes \in [Ids -> Kinds \union {"none"}] /\ "none" \notin Kinds
    BY DEF TypeOK, Graphs, ObjectMap, Kinds
<1>0. m \in Messages
    BY LoopCases
<1>1. CASE ReceiveInfo
    BY <1>1, InfoValues
<1>2. ASSUME ~ InfoOf(m, k, id, FALSE), native'[k][id] = native[k][id],
             <<k, id>> \in announced => <<k, id>> \in announced'
      PROVE  Shown(m, k, id)
    BY <1>2 DEF Shown
<1>3. CASE ReceiveGlobal
    <2>1. m.op = "global" /\ m.id \in Ids /\ m.id # id
        BY <1>0, <1>3, MessageOf DEF ReceiveGlobal, Receive, About
    <2>2. CASE OnGlobal(m.id, m.gen, m.obj)
        <3> DEFINE new == [m.obj EXCEPT !.st = FirstState[m.obj.kind]]
        <3>1. /\ native' = [native EXCEPT ![m.obj.kind] = [@ EXCEPT ![m.id] = new]]
              /\ m.obj.kind \in Kinds
              /\ announced' = announced \ {<<m.obj.kind, m.id>>}
            BY <2>2 DEF OnGlobal, WithObject
        <3> HIDE DEF new
        <3>2. native'[k][id] = native[k][id]
            BY <1>t, <2>1, <3>1
        <3> QED BY <1>2, <2>1, <3>1, <3>2 DEF InfoOf
    <2>3. CASE OnUnknownGlobal(m.obj)
        BY <1>2, <2>1, <2>3 DEF OnUnknownGlobal, monitorVars, InfoOf
    <2> QED BY <1>3, <2>2, <2>3 DEF ReceiveGlobal
<1>4. CASE ReceiveGlobalRemove
    <2>1. m.op = "global_remove" /\ m.id \in Ids /\ m.id # id
        BY <1>0, <1>4, MessageOf DEF ReceiveGlobalRemove, Receive, About
    <2>2. CASE OnGlobalRemove(m.id)
        <3>1. /\ native' = [native EXCEPT ![idTypes[m.id]] = [@ EXCEPT ![m.id] = NoObj]]
              /\ announced' = announced \ {<<idTypes[m.id], m.id>>}
            BY <2>2 DEF OnGlobalRemove, WithoutObject
        <3>2. native'[k][id] = native[k][id]
            BY <1>t, <2>1, <3>1
        <3> QED BY <1>2, <2>1, <3>1, <3>2 DEF InfoOf
    <2>3. CASE OnUnknownRemove(m.id)
        BY <1>2, <2>1, <2>3 DEF OnUnknownRemove, monitorVars, InfoOf
    <2> QED BY <1>4, <2>2, <2>3 DEF ReceiveGlobalRemove
<1>5. CASE ReceiveDone \/ ReceiveError
    BY <1>2, <1>5
    DEF ReceiveDone, ReceiveError, Receive, OnCoreError, monitorVars, InfoOf
<1> QED BY <1>1, <1>3, <1>4, <1>5 DEF Loop

\* The loop asks for more, and takes no request back.
LEMMA BindKept ==
    ASSUME TypeOK, NEW id \in Ids, BindComing(id), gen' = gen,
           requests' = requests \/ \E r : requests' = Append(requests, r)
    PROVE  BindComing(id)'
<1>1. requests \in Seq(Requests)
    BY DEF TypeOK
<1>2. PICK i \in DOMAIN requests :
         requests[i].op = "bind" /\ requests[i].id = id /\ requests[i].gen = gen[id]
    BY DEF BindComing
<1>3. i \in DOMAIN requests' /\ requests'[i] = requests[i]
    BY <1>1, <1>2
<1> QED BY <1>2, <1>3 DEF BindComing

\* The request the loop makes for a global, and none otherwise.
LEMMA LoopRequests ==
    ASSUME TypeOK, Loop
    PROVE  requests' = requests \/ \E r : requests' = Append(requests, r)
BY LoopCases DEF OnGlobal, OnGlobalRemove, InfoEffect, Enter, OnCoreError

\* An object's global is entered and its bind asked for; an info of it brings
\* its entry nearer to it.
LEMMA SettlingLoop ==
    ASSUME TypeOK, OneKindPerId, Loop, NEW k \in Kinds, NEW id \in Ids,
           world[id] \in Objects, PossibleState(world[id]), world[id].kind = k,
           Settling(k, id)
    PROVE  Settling(k, id)'
<1> DEFINE m == Head(wire)
<1>t. /\ native \in [Kinds -> [Ids -> Objects \union {NoObj}]]
      /\ requests \in Seq(Requests)
    BY DEF TypeOK, Graphs, ObjectMap
<1>n. PICK n \in Nat : n = Len(wire)
    BY DEF TypeOK
<1>1. /\ wire \in Seq(Messages) /\ wire # <<>> /\ wire' = Tail(wire) /\ m = wire[1]
      /\ m \in Messages /\ UNCHANGED <<world, bound, gen>>
      /\ n >= 1 /\ DOMAIN wire = 1 .. n /\ DOMAIN wire' = 1 .. n - 1
      /\ \A i \in 1 .. n - 1 : wire'[i] = wire[i + 1]
    BY <1>n, LoopCases DEF daemonVars
<1>2. ASSUME NEW i \in 1 .. n, Silent(wire, i, Len(wire), id)
      PROVE  Silent(wire', i - 1, Len(wire'), id)
    BY <1>n, <1>1, <1>2, QuietTaken
<1>3. CASE GlobalComing(k, id)
    <2>1. PICK i \in 1 .. n :
             /\ wire[i].op = "global" /\ wire[i].id = id /\ wire[i].gen = gen[id]
             /\ wire[i].obj.kind = k
             /\ Silent(wire, i, Len(wire), id)
        BY <1>1, <1>3 DEF GlobalComing
    <2>2. Silent(wire', i - 1, Len(wire'), id)
        BY <1>2, <2>1
    <2>3. CASE i = 1
        <3> DEFINE new == [m.obj EXCEPT !.st = FirstState[m.obj.kind]]
                   bind == [op |-> "bind", id |-> m.id, gen |-> m.gen]
        <3>1. OnGlobal(id, m.gen, m.obj)
            BY <1>1, <2>1, <2>3, LoopCases
        <3>2. m.id = id /\ m.gen = gen[id] /\ m.obj.kind = k /\ m.obj \in Objects
            BY <1>1, <2>1, <2>3, MessageOf DEF Globals
        <3>3. /\ native' = [native EXCEPT ![k] = [@ EXCEPT ![id] = new]]
              /\ requests' = Append(requests, bind)
            BY <3>1, <3>2 DEF OnGlobal, WithObject
        <3>4. /\ new \in Objects /\ new.props = m.obj.props
              /\ new.st = FirstState[k]
            BY <3>2 DEF Objects, FirstState, Kinds, States
        <3> HIDE DEF new
        <3>5. native'[k][id] = new
            BY <1>t, <3>3
        <3>6. k \in {"port", "device"} => new.st = world[id].st
            BY <3>4 DEF PossibleState, FirstState, LaterStates
        <3>7. Entered(k, id)'
            <4>1. Silent(wire', 0, Len(wire'), id)
                BY <2>2, <2>3
            <4>2. new # NoObj
                BY <3>4, NoObjAssumption
            <4> QED BY <1>1, <3>5, <3>6, <4>1, <4>2 DEF Entered, FromGlobal
        <3>8. BindComing(id)'
            <4>1. /\ Len(requests) + 1 \in DOMAIN requests'
                  /\ requests'[Len(requests) + 1] = bind
                BY <1>t, <3>3
            <4> QED BY <1>1, <3>2, <4>1 DEF BindComing
        <3> QED BY <3>7, <3>8 DEF Settling
    <2>4. CASE i # 1
        <3>1. i - 1 \in 1 .. n - 1 /\ wire'[i - 1] = wire[i]
            BY <1>1, <2>4
        <3>2. GlobalComing(k, id)'
            BY <1>1, <2>1, <2>2, <3>1 DEF GlobalComing
        <3> QED BY <3>2 DEF Settling
    <2> QED BY <2>3, <2>4
<1>4. CASE Entered(k, id) /\ (BindComing(id) \/ InfosComing(k, id))
    <2>1. native[k][id] # NoObj /\ ~ About(m, id) /\ Silent(wire', 0, Len(wire'), id)
        <3>1. Silent(wire, 0, n, id)
            BY <1>4, <1>n DEF Entered
        <3>2. ~ About(m, id)
            BY <1>1, <3>1 DEF Silent
        <3>3. Silent(wire, 1, Len(wire), id)
            BY <1>n, <1>1, <3>1 DEF Silent
        <3>4. 1 \in 1 .. n /\ 1 - 1 = 0
            BY <1>1
        <3> QED BY <1>2, <1>4, <3>2, <3>3, <3>4 DEF Entered
    <2>2. Shown(m, k, id)
        BY <2>1, LoopShown
    <2> DEFINE old == native[k][id]  new == native'[k][id]
    <2>3. /\ new # NoObj
          /\ new.st = IF InfoOf(m, k, id, FALSE) /\ k \in {"node", "link"} THEN m.st
                      ELSE old.st
          /\ new.props = IF InfoOf(m, k, id, TRUE) /\ k # "link" THEN m.props
                         ELSE old.props
          /\ InfoOf(m, k, id, FALSE) => <<k, id>> \in announced'
          /\ <<k, id>> \in announced => <<k, id>> \in announced'
        BY <2>2 DEF Shown, InfoOf
    <2>4. Entered(k, id)'
        BY <1>1, <1>4, <2>1, <2>3 DEF Entered, FromGlobal
    <2>5. ASSUME InfosComing(k, id)
          PROVE  InfosComing(k, id)'
        <3> HIDE DEF old, new
        <3>1. k # "link" => PropsComing(wire', new, k, id, world[id].props)
            BY <1>1, <2>3, <2>5, PropsHandled DEF InfosComing, old
        <3>2. k \in {"node", "link"} => StateComing(wire', new, k, id, world[id].st)
            BY <1>1, <2>3, <2>5, StateHandled DEF InfosComing, old
        <3>3. NoInfo(wire', k, id, FALSE) => <<k, id>> \in announced'
            <4>1. SUFFICES ASSUME NoInfo(wire', k, id, FALSE), ~ InfoOf(m, k, id, FALSE)
                           PROVE  NoInfo(wire, k, id, FALSE)
                BY <2>3, <2>5 DEF InfosComing
            <4>2. \A i \in 1 .. n : i = 1 \/ (i - 1 \in 1 .. n - 1 /\ (i - 1) + 1 = i)
                OBVIOUS
            <4> QED BY <1>1, <4>1, <4>2 DEF NoInfo
        <3> QED BY <1>1, <2>5, <3>1, <3>2, <3>3 DEF InfosComing, new
    <2>6. BindComing(id) => BindComing(id)'
        BY <1>1, LoopRequests, BindKept
    <2> QED BY <1>4, <2>4, <2>5, <2>6 DEF Settling
<1> QED BY <1>3, <1>4 DEF Settling

\* What the daemon makes it announces, what it changes it tells those who have
\* bound it.
LEMMA SettlingDaemon ==
    ASSUME TypeOK, TypeOK', IdleInv, Daemon
    PROVE  /\ \A id \in Present(world)' : PossibleState(world'[id])
           /\ \A k \in Kinds, id \in Ids : KindOf(k, id)' => Settling(k, id)'
<1>t. /\ world \in [Ids -> Objects \union {NoObj}]
      /\ gen \in [Ids -> Nat] /\ wire \in Seq(Messages)
    BY DEF TypeOK, ObjectMap
<1>1. ASSUME NEW entry \in Catalog, DaemonAdd(entry[1], entry[2])
      PROVE  /\ \A id \in Present(world)' : PossibleState(world'[id])
             /\ \A k \in Kinds, id \in Ids : KindOf(k, id)' => Settling(k, id)'
    <2> DEFINE x == entry[1]  obj == entry[2]  m == Global(x, gen[x] + 1, obj)
    <2>1. x \in Ids /\ obj \in Objects /\ PossibleState(obj)
        BY ConstantsAssumption, StatesAssumption
    <2>2. /\ m \in Messages /\ m.op = "global" /\ m.id = x /\ m.obj = obj
          /\ m.gen = gen[x] + 1
        BY <1>t, <2>1 DEF Global, Messages, Globals
    <2>3. /\ wire' = Append(wire, m) /\ world' = [world EXCEPT ![x] = obj]
          /\ gen' = [gen EXCEPT ![x] = @ + 1]
          /\ UNCHANGED <<native, announced, requests, bound>>
        BY <1>1 DEF DaemonAdd, monitorVars
    <2> HIDE DEF m, x, obj
    <2>4. \A id \in Ids : /\ world'[id] = IF id = x THEN obj ELSE world[id]
                          /\ gen'[id] = IF id = x THEN gen[id] + 1 ELSE gen[id]
        BY <1>t, <2>1, <2>3
    <2>5. \A id \in Present(world)' : PossibleState(world'[id])
        BY <2>1, <2>4 DEF IdleInv, Present
    <2> SUFFICES ASSUME NEW k \in Kinds, NEW id \in Ids, KindOf(k, id)'
                 PROVE  Settling(k, id)'
        BY <2>5
    <2>6. CASE id = x
        <3>n. PICK n \in Nat : n = Len(wire)
            BY <1>t
        <3>1. /\ n + 1 \in DOMAIN wire' /\ Len(wire') = n + 1 /\ wire'[n + 1] = m
            BY <3>n, <1>t, <2>3
        <3>2. Silent(wire', n + 1, Len(wire'), id)
            BY <3>1 DEF Silent
        <3>3. obj.kind = k
            BY <2>4, <2>6 DEF KindOf
        <3>4. GlobalComing(k, id)'
            BY <2>2, <2>4, <2>6, <3>1, <3>2, <3>3 DEF GlobalComing
        <3> QED BY <3>4 DEF Settling
    <2>7. CASE id # x
        <3>1. /\ ~ About(m, id) /\ \A f \in BOOLEAN : ~ InfoOf(m, k, id, f)
            BY <2>2, <2>7 DEF About, InfoOf
        <3>2. world'[id] = world[id] /\ gen'[id] = gen[id] /\ Settling(k, id)
            BY <2>4, <2>7 DEF KindOf, IdleInv
        <3>3. BindComing(id) => BindComing(id)'
            BY <2>3, <3>2 DEF BindComing
        <3> QED BY <2>2, <2>3, <3>1, <3>2, <3>3, SettlingSent
    <2> QED BY <2>6, <2>7
<1>2. ASSUME NEW x \in Ids, DaemonRemove(x)
      PROVE  /\ \A id \in Present(world)' : PossibleState(world'[id])
             /\ \A k \in Kinds, id \in Ids : KindOf(k, id)' => Settling(k, id)'
    <2> DEFINE m == [op |-> "global_remove", id |-> x]
    <2>1. m \in Messages /\ m.op = "global_remove" /\ m.id = x
        BY DEF Messages, Removes
    <2>2. /\ wire' = Append(wire, m) /\ world' = [world EXCEPT ![x] = NoObj]
          /\ bound' = bound \ {x}
          /\ UNCHANGED <<native, announced, requests, gen>>
        BY <1>2 DEF DaemonRemove, monitorVars
    <2> HIDE DEF m
    <2>3. \A id \in Ids : world'[id] = IF id = x THEN NoObj ELSE world[id]
        BY <1>t, <2>2
    <2>4. \A id \in Present(world)' : PossibleState(world'[id])
        BY <2>3 DEF IdleInv, Present
    <2> SUFFICES ASSUME NEW k \in Kinds, NEW id \in Ids, KindOf(k, id)'
                 PROVE  Settling(k, id)'
        BY <2>4
    <2>5. id # x /\ world'[id] = world[id] /\ Settling(k, id)
        BY <2>3 DEF KindOf, IdleInv
    <2>6. /\ ~ About(m, id) /\ \A f \in BOOLEAN : ~ InfoOf(m, k, id, f)
        BY <2>1, <2>5 DEF About, InfoOf
    <2>7. BindComing(id) => BindComing(id)'
        BY <2>2 DEF BindComing
    <2> QED BY <2>1, <2>2, <2>5, <2>6, <2>7, SettlingSent
<1>3. ASSUME NEW x \in Ids, NEW newSt \in States, NEW newProps \in 0 .. MaxChanges,
             DaemonChange(x, newSt, newProps)
      PROVE  /\ \A id \in Present(world)' : PossibleState(world'[id])
             /\ \A k \in Kinds, id \in Ids : KindOf(k, id)' => Settling(k, id)'
    <2> DEFINE old == world[x]
               new == [old EXCEPT !.st = newSt, !.props = newProps]
               m == Info(x, new, newProps # old.props)
    <2>1. /\ old \in Objects /\ PossibleState(old) /\ newProps \in Nat
          /\ old.kind \in AllKinds
        BY <1>3, <1>t, ConstantsAssumption DEF DaemonChange, IdleInv, Present, Objects
    <2>2. /\ new \in Objects /\ new.kind = old.kind
          /\ new.st = newSt /\ new.props = newProps
        BY <2>1 DEF Objects
    <2>3. /\ m \in Messages /\ m.op = "info" /\ m.id = x
          /\ m.kind = old.kind /\ m.st = newSt /\ m.props = newProps
          /\ m.hasProps <=> newProps # old.props
        BY <2>2 DEF Info, Messages, Infos, Objects
    <2>4. /\ newSt \in {old.st} \union LaterStates[old.kind]
          /\ world' = [world EXCEPT ![x] = new]
          /\ wire' = IF x \in bound THEN Append(wire, m) ELSE wire
          /\ UNCHANGED <<native, announced, requests, gen, bound>>
        BY <1>3 DEF DaemonChange, monitorVars
    <2> HIDE DEF m, new, old
    <2>5. \A id \in Ids : world'[id] = IF id = x THEN new ELSE world[id]
        BY <1>t, <2>4
    <2>6. PossibleState(new)
        BY <2>1, <2>2, <2>4 DEF PossibleState
    <2>7. old.kind \in {"port", "device"} => newSt = old.st
        BY <2>4 DEF LaterStates
    <2>8. \A id \in Present(world)' : PossibleState(world'[id])
        BY <2>5, <2>6 DEF IdleInv, Present
    <2> SUFFICES ASSUME NEW k \in Kinds, NEW id \in Ids, KindOf(k, id)'
                 PROVE  Settling(k, id)'
        BY <2>8
    <2>9. /\ KindOf(k, id) /\ Settling(k, id)
          /\ id = x => old.kind = k /\ world'[id] = new /\ world[id] = old
          /\ id # x => world'[id] = world[id]
        BY <2>1, <2>2, <2>5, NoObjAssumption DEF KindOf, IdleInv, old
    <2>10. BindComing(id) => BindComing(id)'
        BY <2>4 DEF BindComing
    <2>11. CASE x \in bound
        <3>1. /\ ~ About(m, id)
              /\ InfoOf(m, k, id, FALSE) <=> id = x
              /\ InfoOf(m, k, id, TRUE) <=> id = x /\ newProps # old.props
            BY <2>3, <2>9 DEF About, InfoOf
        <3>2. k \in {"port", "device"} => world'[id].st = world[id].st
            BY <2>2, <2>4, <2>7, <2>9
        <3>3. /\ InfoOf(m, k, id, TRUE) => m.props = world'[id].props
              /\ InfoOf(m, k, id, FALSE) => m.st = world'[id].st
              /\ ~ InfoOf(m, k, id, TRUE) => world'[id].props = world[id].props
              /\ ~ InfoOf(m, k, id, FALSE) => world'[id].st = world[id].st
            BY <2>2, <2>3, <2>9, <3>1
        <3>4. wire' = Append(wire, m) /\ gen'[id] = gen[id]
            BY <2>4, <2>11
        <3> QED BY <2>3, <2>4, <2>9, <2>10, <3>1, <3>2, <3>3, <3>4, SettlingSent
    <2>12. CASE x \notin bound
        <3>1. /\ k \in {"port", "device"} => world'[id].st = world[id].st
              /\ InfosComing(k, id) => id # x
            BY <2>2, <2>4, <2>7, <2>9, <2>12 DEF InfosComing
        <3>2. wire' = wire
            BY <2>4, <2>12
        <3>3. GlobalComing(k, id) => GlobalComing(k, id)'
            BY <2>4, <3>1, <3>2 DEF GlobalComing
        <3>4. Entered(k, id) => Entered(k, id)'
            BY <2>4, <3>1, <3>2 DEF Entered, FromGlobal
        <3>5. InfosComing(k, id) => InfosComing(k, id)'
            BY <2>4, <2>9, <3>1, <3>2 DEF InfosComing
        <3> QED BY <2>9, <2>10, <3>3, <3>4, <3>5 DEF Settling
    <2> QED BY <2>11, <2>12
<1> QED BY <1>1, <1>2, <1>3 DEF Daemon

\* A bind is answered with all there is to know of the object.
LEMMA SettlingAnswer ==
    ASSUME TypeOK, DaemonAnswer, NEW k \in Kinds, NEW id \in Ids,
           KindOf(k, id), Settling(k, id)
    PROVE  Settling(k, id)'
<1> DEFINE r == Head(requests)
<1>1. /\ requests \in Seq(Requests) /\ requests # <<>> /\ requests' = Tail(requests)
      /\ UNCHANGED <<world, gen, native, announced>>
    BY DEF DaemonAnswer, DaemonBind, DaemonSync, TypeOK, daemonVars, monitorVars
<1>2. r \in Requests /\ r = requests[1]
    BY <1>1
<1>3. ASSUME BindComing(id), ~ (r.op = "bind" /\ r.id = id /\ r.gen = gen[id])
      PROVE  BindComing(id)'
    <2>1. PICK i \in DOMAIN requests :
             requests[i].op = "bind" /\ requests[i].id = id /\ requests[i].gen = gen[id]
        BY <1>3 DEF BindComing
    <2>2. i # 1
        BY <1>2, <1>3, <2>1
    <2>3. i - 1 \in DOMAIN requests' /\ requests'[i - 1] = requests[i]
        BY <1>1, <2>1, <2>2
    <2> QED BY <1>1, <2>1, <2>3 DEF BindComing
<1>4. CASE DaemonBind /\ world[r.id] # NoObj /\ gen[r.id] = r.gen
    <2> DEFINE m == Info(r.id, world[r.id], TRUE)
    <2>1. r.id \in Ids /\ world[r.id] \in Objects
        BY <1>2, <1>4 DEF DaemonBind, Requests, TypeOK, ObjectMap
    <2>2. /\ m \in Messages /\ m.op = "info" /\ m.id = r.id /\ m.hasProps
          /\ m.kind = world[r.id].kind /\ m.st = world[r.id].st
          /\ m.props = world[r.id].props
        BY <2>1 DEF Info, Messages, Infos, Objects
    <2>3. wire' = Append(wire, m) /\ bound' = bound \union {r.id}
        BY <1>4 DEF DaemonBind
    <2> HIDE DEF m
    <2>4. ~ About(m, id) /\ \A f \in BOOLEAN : InfoOf(m, k, id, f) <=> r.id = id
        BY <2>2 DEF About, InfoOf, KindOf
    <2>5. BindComing(id) => BindComing(id)' \/ (id \in bound' /\ InfoOf(m, k, id, TRUE))
        BY <1>3, <2>3, <2>4
    <2> QED BY <1>1, <2>2, <2>3, <2>4, <2>5, SettlingSent
<1>5. ASSUME NEW m \in Messages, m.op \in {"error", "done"}, wire' = Append(wire, m),
             bound' = bound, BindComing(id) => BindComing(id)'
      PROVE  Settling(k, id)'
    <2>1. ~ About(m, id) /\ \A f \in BOOLEAN : ~ InfoOf(m, k, id, f)
        BY <1>5 DEF About, InfoOf
    <2> QED BY <1>1, <1>5, <2>1, SettlingSent
<1>6. CASE DaemonBind /\ ~ (world[r.id] # NoObj /\ gen[r.id] = r.gen)
    <2>1. [op |-> "error", id |-> r.id] \in Messages
        BY <1>2, <1>6 DEF DaemonBind, Requests, Messages, Errors
    <2>2. ~ (r.op = "bind" /\ r.id = id /\ r.gen = gen[id])
        BY <1>6 DEF KindOf
    <2>3. wire' = Append(wire, [op |-> "error", id |-> r.id]) /\ bound' = bound
        BY <1>6 DEF DaemonBind
    <2> QED BY <1>3, <1>5, <2>1, <2>2, <2>3
<1>7. CASE DaemonSync
    <2>1. [op |-> "done", seq |-> r.seq] \in Messages
        BY <1>2, <1>7 DEF DaemonSync, Requests, Messages, Dones
    <2>2. ~ (r.op = "bind" /\ r.id = id /\ r.gen = gen[id])
        BY <1>7 DEF DaemonSync
    <2>3. wire' = Append(wire, [op |-> "done", seq |-> r.seq]) /\ bound' = bound
        BY <1>7 DEF DaemonSync, daemonVars
    <2> QED BY <1>3, <1>5, <2>1, <2>2, <2>3
<1> QED BY <1>4, <1>6, <1>7 DEF DaemonAnswer

\* An entry is of the kind of its map.
LEMMA KindKept ==
    ASSUME TypeOK, OneKindPerId, Loop, NEW k \in Kinds, NEW id \in Ids,
           native[k][id] # NoObj => native[k][id].kind = k, native'[k][id] # NoObj
    PROVE  native'[k][id].kind = k
<1> DEFINE m == Head(wire)
<1>t. /\ native \in [Kinds -> [Ids -> Objects \union {NoObj}]]
      /\ idTypes \in [Ids -> Kinds \union {"none"}] /\ "none" \notin Kinds
    BY DEF TypeOK, Graphs, ObjectMap, Kinds
<1>0. m \in Messages
    BY LoopCases
<1>1. CASE ReceiveInfo
    BY <1>1, InfoValues DEF Shown
<1>2. CASE ReceiveGlobal
    <2>1. m.op = "global" /\ m.id \in Ids /\ m.obj \in Objects
        BY <1>0, <1>2, MessageOf DEF ReceiveGlobal, Receive, Globals
    <2>2. CASE OnGlobal(m.id, m.gen, m.obj)
        <3> DEFINE new == [m.obj EXCEPT !.st = FirstState[m.obj.kind]]
        <3>1. /\ native' = [native EXCEPT ![m.obj.kind] = [@ EXCEPT ![m.id] = new]]
              /\ m.obj.kind \in Kinds /\ new.kind = m.obj.kind
            BY <2>1, <2>2 DEF OnGlobal, WithObject, Objects
        <3> HIDE DEF new
        <3> QED BY <1>t, <2>1, <3>1
    <2>3. CASE OnUnknownGlobal(m.obj)
        BY <2>3 DEF OnUnknownGlobal, monitorVars
    <2> QED BY <1>2, <2>2, <2>3 DEF ReceiveGlobal
<1>3. CASE ReceiveGlobalRemove
    <2>1. m.op = "global_remove" /\ m.id \in Ids
        BY <1>0, <1>3, MessageOf DEF ReceiveGlobalRemove, Receive
    <2>2. CASE OnGlobalRemove(m.id)
        <3>1. /\ native' = [native EXCEPT ![idTypes[m.id]] = [@ EXCEPT ![m.id] = NoObj]]
              /\ idTypes[m.id] \in Kinds
            BY <1>t, <2>1, <2>2 DEF OnGlobalRemove, WithoutObject
        <3> QED BY <1>t, <2>1, <3>1
    <2>3. CASE OnUnknownRemove(m.id)
        BY <2>3 DEF OnUnknownRemove, monitorVars
    <2> QED BY <1>3, <2>2, <2>3 DEF ReceiveGlobalRemove
<1>4. CASE ReceiveDone \/ ReceiveError
    BY <1>4 DEF ReceiveDone, ReceiveError, OnCoreError, monitorVars
<1> QED BY <1>1, <1>2, <1>3, <1>4 DEF Loop

\* No step forgets an object.
LEMMA IdleStep ==
    TypeOK /\ TypeOK' /\ OneKindPerId /\ IdleInv /\ [Next]_vars => IdleInv'
<1> SUFFICES ASSUME TypeOK, TypeOK', OneKindPerId, IdleInv, [Next]_vars
             PROVE  IdleInv'
    OBVIOUS
<1>1. CASE Daemon
    <2>1. native' = native
        BY <1>1 DEF Daemon, DaemonAdd, DaemonRemove, DaemonChange, monitorVars
    <2> QED BY <1>1, <2>1, SettlingDaemon DEF IdleInv
<1>2. CASE DaemonAnswer
    <2>1. world' = world /\ native' = native
        BY <1>2 DEF DaemonAnswer, DaemonBind, DaemonSync, monitorVars, daemonVars
    <2>2. \A k \in Kinds, id \in Ids : KindOf(k, id)' => Settling(k, id)'
        BY <1>2, <2>1, SettlingAnswer DEF IdleInv, KindOf
    <2> QED BY <2>1, <2>2 DEF IdleInv, Present
<1>3. CASE Loop
    <2>1. world' = world
        BY <1>3, LoopCases DEF daemonVars
    <2>2. \A k \in Kinds, id \in Ids : native'[k][id] # NoObj => native'[k][id].kind = k
        BY <1>3, KindKept DEF IdleInv
    <2>3. ASSUME NEW k \in Kinds, NEW id \in Ids, KindOf(k, id)' PROVE Settling(k, id)'
        <3>1. /\ world[id] \in Objects /\ PossibleState(world[id])
              /\ world[id].kind = k /\ Settling(k, id)
            BY <2>1, <2>3 DEF KindOf, IdleInv, Present, TypeOK, ObjectMap
        <3> QED BY <1>3, <3>1, SettlingLoop
    <2> QED BY <2>1, <2>2, <2>3 DEF IdleInv, Present
<1>4. ASSUME UNCHANGED <<native, announced, world, gen, bound, wire>>,
             requests' = requests \/ \E r : requests' = Append(requests, r)
      PROVE  IdleInv'
    <2> SUFFICES ASSUME NEW k \in Kinds, NEW id \in Ids, KindOf(k, id)
                 PROVE  Settling(k, id)'
        BY <1>4 DEF IdleInv, Present, KindOf
    <2>1. Settling(k, id)
        BY DEF IdleInv
    <2>2. BindComing(id) => BindComing(id)'
        BY <1>4, BindKept
    <2> QED
        BY <1>4, <2>1, <2>2 DEF Settling, GlobalComing, Entered, InfosComing
<1> QED
    BY <1>1, <1>2, <1>3, <1>4
    DEF Next, Connect, Isolate, StartRound1, StartRound2, StartRound,
        FinishConnect, TakeFirstSnapshot, TakeSnapshot, AssignGraph, Deliver,
        vars, monitorVars, daemonVars

\* At first every object's global is on the wire.
LEMMA IdleInit == Init => IdleInv
<1> SUFFICES ASSUME Init PROVE IdleInv
    OBVIOUS
<1>1. \A id \in Present(world) : PossibleState(world[id])
    BY StatesAssumption DEF Init
<1>2. \A k \in Kinds, id \in Ids : native[k][id] = NoObj
    BY DEF Init, MonitorInit, EmptyGraph
<1>3. ASSUME NEW k \in Kinds, NEW id \in Ids, KindOf(k, id) PROVE GlobalComing(k, id)
    <2>1. WorldHeld /\ TypeOK
        BY RefsInit, TypeInit DEF RefsInv
    <2>2. world[id].refs \in SUBSET Ids
        BY <1>3, <2>1 DEF KindOf, TypeOK, ObjectMap, Objects
    <2>3. Held(native, wire, Len(wire), k, id, world[id].refs)
        BY <1>3, <2>1, <2>2 DEF WorldHeld, KindOf
    <2>4. PICK j \in 1 .. Len(wire) :
             /\ wire[j].op = "global" /\ wire[j].id = id
             /\ wire[j].obj.kind = k /\ Silent(wire, j, Len(wire), id)
        BY <1>2, <2>3 DEF Held
    <2>5. PICK order :
             wire = [i \in 1 .. Cardinality(Present(world)) |->
                        Global(order[i], 0, world[order[i]])]
        BY DEF Init
    <2>6. j \in DOMAIN wire
        BY <2>1, <2>4 DEF TypeOK
    <2>7. wire[j] = Global(order[j], 0, world[order[j]])
        BY <2>5, <2>6
    <2>8. wire[j].gen = 0 /\ wire[j].obj = world[id]
        BY <2>4, <2>7 DEF Global
    <2>9. gen[id] = 0
        BY DEF Init
    <2> QED BY <2>4, <2>6, <2>8, <2>9 DEF GlobalComing
<1> QED BY <1>1, <1>2, <1>3 DEF IdleInv, Settling

\* What Kept leaves of an entry.
LEMMA KeptSame ==
    ASSUME NEW k, NEW a \in Objects \union {NoObj}, NEW b \in Objects \union {NoObj},
           Kept(k, a) = Kept(k, b)
    PROVE  (a = NoObj <=> b = NoObj) /\ (a # NoObj => a.refs = b.refs)
<1>1. \A o \in Objects : [o EXCEPT !.props = 0] \in Objects /\ [o EXCEPT !.props = 0].refs = o.refs
    BY DEF Objects
<1>2. CASE k = "link"
    BY <1>1, <1>2, NoObjAssumption DEF Kept
<1>3. CASE k # "link"
    BY <1>3 DEF Kept
<1> QED BY <1>2, <1>3

\* With nothing under way an object is bound, and its entry shows all of it but
\* the properties of a link.
LEMMA IdleEntry ==
    ASSUME TypeOK, RefsInv, IdleInv, NativeIdle, NEW k \in Kinds, NEW id \in Ids,
           KindOf(k, id)
    PROVE  Kept(k, native[k][id]) = Kept(k, world[id]) /\ <<k, id>> \in announced
<1>t. native \in [Kinds -> [Ids -> Objects \union {NoObj}]]
      /\ world \in [Ids -> Objects \union {NoObj}]
    BY DEF TypeOK, Graphs, ObjectMap
<1>1. Len(wire) = 0 /\ DOMAIN wire = {} /\ DOMAIN requests = {}
    BY DEF NativeIdle
<1>2. ~ GlobalComing(k, id) /\ ~ BindComing(id) /\ \A f : NoInfo(wire, k, id, f)
    BY <1>1 DEF GlobalComing, BindComing, NoInfo
<1>3. Entered(k, id) /\ InfosComing(k, id)
    BY <1>2 DEF IdleInv, Settling
<1>4. native[k][id] # NoObj
    BY <1>3 DEF Entered
<1>5. native[k][id] \in Objects /\ world[id] \in Objects
    BY <1>t, <1>1, <1>4 DEF KindOf
<1>6. native[k][id].kind = k /\ world[id].kind = k
    BY <1>4 DEF IdleInv, KindOf
<1>7. native[k][id].refs = world[id].refs
    <2>1. native[k][id].refs \in SUBSET Ids
        BY <1>5 DEF Objects
    <2>2. Held(native, wire, 0, k, id, native[k][id].refs)
        BY <1>4, HeldNow
    <2> QED BY <1>1, <2>1, <2>2 DEF RefsInv, WorldHeld
<1>8. k # "link" => native[k][id].props = world[id].props
    BY <1>1, <1>2, <1>3 DEF Entered, InfosComing, PropsComing
<1>9. native[k][id].st = world[id].st
    <2>1. CASE k \in {"port", "device"}
        BY <1>3, <2>1 DEF Entered, FromGlobal
    <2>2. CASE k \in {"node", "link"}
        <3>1. StateComing(wire, native[k][id], k, id, world[id].st)
            BY <1>3, <2>2 DEF InfosComing
        <3> QED BY <1>1, <3>1 DEF StateComing
    <2> QED BY <2>1, <2>2 DEF Kinds
<1>10. \A a, b \in Objects :
          a.kind = b.kind /\ a.refs = b.refs /\ a.st = b.st /\ a.props = b.props
             => a = b
    BY DEF Objects
<1>11. CASE k # "link"
    <2>1. native[k][id] = world[id]
        BY <1>5, <1>6, <1>7, <1>8, <1>9, <1>10, <1>11
    <2> QED BY <1>2, <1>3, <2>1 DEF InfosComing
<1>12. CASE k = "link"
    <2>1. ASSUME NEW a \in Objects, NEW b \in Objects,
                 a.kind = b.kind, a.refs = b.refs, a.st = b.st
          PROVE  [a EXCEPT !.props = 0] = [b EXCEPT !.props = 0]
        BY <2>1 DEF Objects
    <2>2. [native[k][id] EXCEPT !.props = 0] = [world[id] EXCEPT !.props = 0]
        BY <1>5, <1>6, <1>7, <1>9, <2>1
    <2>3. Kept(k, native[k][id]) = Kept(k, world[id])
        BY <1>4, <1>12, <2>2 DEF Kept, KindOf
    <2> QED BY <1>2, <1>3, <2>3 DEF InfosComing
<1> QED BY <1>11, <1>12

\* So the maps are the registry, and the graph, which has converged, too.
LEMMA IdleNow ==
    ASSUME TypeOK, Convergence, RefsInv, IdleInv
    PROVE  InStepWhenIdle
<1>t. native \in [Kinds -> [Ids -> Objects \union {NoObj}]]
      /\ world \in [Ids -> Objects \union {NoObj}]
    BY DEF TypeOK, Graphs, ObjectMap
<1>1. ASSUME NativeIdle, NEW k \in Kinds, NEW id \in Ids, KindOf(k, id)
      PROVE  Kept(k, native[k][id]) = Kept(k, world[id]) /\ <<k, id>> \in announced
    BY <1>1, IdleEntry
<1>2. ASSUME NativeIdle, NEW k \in Kinds, NEW id \in Ids
      PROVE  EntryInStep(native, k, id)
    <2>1. CASE KindOf(k, id)
        BY <1>1, <1>2, <2>1 DEF KindOf, DaemonEntry, EntryInStep
    <2>2. CASE ~ KindOf(k, id)
        <3>1. SUFFICES ASSUME native[k][id] # NoObj PROVE FALSE
            BY <2>2 DEF KindOf, DaemonEntry, EntryInStep
        <3>2. native[k][id].refs \in SUBSET Ids
            BY <1>t, <3>1 DEF Objects
        <3>3. Held(native, wire, 0, k, id, native[k][id].refs) /\ Len(wire) = 0
            BY <1>2, <3>1, HeldNow DEF NativeIdle
        <3> QED BY <2>2, <3>2, <3>3 DEF RefsInv, WorldHeld, KindOf
    <2> QED BY <2>1, <2>2
<1>3. ASSUME GraphIdle, PostResolved, NEW k \in EventKinds, NEW id \in Ids
      PROVE  EntryInStep(graph, k, id)
    <2>1. Base = graph /\ DOMAIN port = {} /\ k \in Kinds /\ NativeIdle
        BY <1>3 DEF GraphIdle, Base, EventKinds, Kinds
    <2>2. Agrees(graph[k][id], k, id)
        BY <1>3, <2>1 DEF Convergence
    <2>3. EntryInStep(native, k, id)
        BY <1>2, <2>1
    <2>4. native[k][id] # NoObj => <<k, id>> \in announced
        <3>1. /\ native[k][id] \in Objects \union {NoObj}
              /\ DaemonEntry(k, id) \in Objects \union {NoObj}
            BY <1>t, <2>1 DEF DaemonEntry
        <3>2. native[k][id] # NoObj => DaemonEntry(k, id) # NoObj
            BY <2>3, <3>1, KeptSame DEF EntryInStep
        <3> QED BY <1>1, <2>1, <3>2 DEF DaemonEntry, KindOf
    <2> QED BY <2>2, <2>3, <2>4 DEF Agrees, EntryInStep
<1>4. ASSUME GraphInStep PROVE QueriesInStep
    <2>1. "port" \in EventKinds /\ "link" \in EventKinds
        BY DEF EventKinds
    <2>2. ASSUME NEW k \in {"port", "link"}, NEW p \in Ids
          PROVE  /\ Has(graph, k, p) <=> DaemonEntry(k, p) # NoObj
                 /\ Has(graph, k, p) => graph[k][p].refs = DaemonEntry(k, p).refs
        <3>1. /\ graph[k][p] \in Objects \union {NoObj}
              /\ DaemonEntry(k, p) \in Objects \union {NoObj}
            BY <1>t DEF DaemonEntry, TypeOK, Graphs, ObjectMap, Kinds
        <3>2. Kept(k, graph[k][p]) = Kept(k, DaemonEntry(k, p))
            BY <1>4, <2>1 DEF GraphInStep, EntryInStep
        <3> QED BY <3>1, <3>2, KeptSame DEF Has
    <2>3. \A k, p : DaemonEntry(k, p) # NoObj =>
             world[p] # NoObj /\ world[p].kind = k /\ DaemonEntry(k, p) = world[p]
        BY DEF DaemonEntry
    <2>4. ASSUME NEW n \in Ids
          PROVE  PortsForNode(graph, n) =
                    {p \in Ids : DaemonEntry("port", p) # NoObj /\ n \in world[p].refs}
        BY <2>2, <2>3 DEF PortsForNode, Has
    <2>5. ASSUME NEW l \in Ids, DaemonEntry("link", l) # NoObj, NEW p \in world[l].refs
          PROVE  p \in Ids /\ DaemonEntry("port", p) # NoObj
        <3>1. world[l] \in Objects /\ l \in Present(world) /\ world[l].kind = "link"
            BY <1>t, <2>3, <2>5 DEF Present
        <3>2. p \in Ids /\ world[p] # NoObj /\ world[p].kind = "port"
            BY <2>5, <3>1 DEF RefsInv, WorldRooted, Rooted, Objects
        <3> QED BY <3>2 DEF DaemonEntry
    <2>6. ASSUME NEW n \in Ids, NEW l \in Ids
          PROVE  l \in LinksForNode(graph, n) <=>
                    /\ DaemonEntry("link", l) # NoObj
                    /\ \E p \in world[l].refs : n \in world[p].refs
        <3>1. l \in LinksForNode(graph, n) <=>
                 /\ DaemonEntry("link", l) # NoObj
                 /\ world[l].refs \intersect PortsForNode(graph, n) # {}
            BY <2>2, <2>3 DEF LinksForNode, Has
        <3> QED BY <2>4, <2>5, <3>1
    <2> QED BY <2>4, <2>6 DEF QueriesInStep
<1> QED BY <1>2, <1>3, <1>4 DEF InStepWhenIdle, NativeInStep, GraphInStep

\* No object is ever forgotten.
LEMMA IdleInvariant == Spec => []IdleInv
<1>1. IndInv => TypeOK /\ OneKindPerId
    BY DEF IndInv
<1> QED BY <1>1, IdleInit, IdleStep, Inductive, PTL DEF Spec

\* Whenever nothing is under way, the native maps are the daemon's registry and
\* PwClient's graph shows its nodes, ports and links, with their latest states
\* and, links excepted, properties: no bind, info, event or copy has been missed,
\* and of all the daemon tells only a link's properties are.
THEOREM In_Step_When_Idle == Spec => []InStepWhenIdle
<1>1. IndInv => TypeOK /\ Convergence
    BY DEF IndInv
<1> QED BY <1>1, IdleNow, Inductive, RefsInvariant, IdleInvariant, PTL
=============================================================================
