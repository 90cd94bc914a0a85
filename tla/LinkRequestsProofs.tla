------------------------- MODULE LinkRequestsProofs -------------------------
(***************************************************************************)
(* For any number of calls, any ring and any daemon: the mirror keeps its  *)
(* properties while links are asked for, and no createLink is left without *)
(* the LinkAdded it waits for.                                             *)
(***************************************************************************)
EXTENDS LinkRequests, GraphIntegrityProofs

-----------------------------------------------------------------------------
\* The mirror inside

\* Every step of the program with requests is one of the mirror, or changes
\* nothing of it.
LEMMA MirrorStep == [LinkNext]_linkVars => [Next]_vars
<1> SUFFICES ASSUME [LinkNext]_linkVars PROVE [Next]_vars
    OBVIOUS
<1>1. CASE CallStep
    BY <1>1 DEF CallStep, CallCreate, CallDestroy, CallRefused, Accept
<1>2. CASE DeliverToAll
    BY <1>2 DEF DeliverToAll, Next, Isolate
<1>3. CASE Serve
    BY <1>3 DEF Serve
<1>4. CASE OrderStep
    <2>1. ASSUME NEW entry \in Catalog, GrantCreate(entry[1], entry[2])
          PROVE  Daemon
        BY <2>1 DEF GrantCreate, Daemon
    <2>2. CASE GrantDestroy
        BY <2>2 DEF GrantDestroy, Daemon, Next
    <2> QED BY <1>4, <2>1, <2>2 DEF OrderStep, RefuseCreate, RefuseDestroy, Next
<1>5. CASE \/ \E c \in Calls : Timeout(c)
           \/ BeginDispose \/ EndDispose
    BY <1>5 DEF Timeout, BeginDispose, EndDispose
<1>6. CASE OtherChange
    BY <1>6 DEF OtherChange, Daemon, Next
<1>7. ASSUME NEW entry \in Catalog, OtherAdd(entry[1], entry[2])
      PROVE  Next
    BY <1>7 DEF OtherAdd, Daemon, Next
<1>8. CASE LoopStep \/ AnswerStep \/ ConnectStep \/ RefreshStep
    BY <1>8 DEF LoopStep, AnswerStep, ConnectStep, RefreshStep, Next, Isolate
<1>9. CASE UNCHANGED linkVars
    BY <1>9 DEF linkVars
<1> QED BY <1>1, <1>2, <1>3, <1>4, <1>5, <1>6, <1>7, <1>8, <1>9 DEF LinkNext

\* So what holds of every behaviour of GraphMirror holds here.
LEMMA MirrorInside == LinkSpec => Spec
<1>1. LinkInit => Init
    BY DEF LinkInit
<1> QED BY <1>1, MirrorStep, PTL DEF LinkSpec, Spec

\* Whatever links the program asks for and whatever other clients do, PwClient's
\* graph converges to the native maps, no snapshot and no graph breaks a
\* reference for good, and with nothing under way maps and graph are the
\* daemon's registry, but for the link properties on_link_info leaves out.
THEOREM Mirror_With_Requests ==
    LinkSpec =>
        [](Convergence /\ NativeIntegrity /\ DanglingIsPassing /\ InStepWhenIdle)
BY MirrorInside, Graph_Converges, Native_Integrity, Dangling_Is_Passing,
   In_Step_When_Idle, PTL

-----------------------------------------------------------------------------
\* Type correctness

\* A command put at the end, and the oldest one taken.
LEMMA CommandSeqs ==
    ASSUME NEW s \in Seq(Commands)
    PROVE  /\ \A x \in Commands : /\ Append(s, x) \in Seq(Commands)
                                  /\ Len(Append(s, x)) = Len(s) + 1
                                  /\ \A i \in DOMAIN Append(s, x) :
                                        \/ i \in DOMAIN s /\ Append(s, x)[i] = s[i]
                                        \/ Append(s, x)[i] = x
           /\ s # <<>> => /\ Head(s) \in Commands /\ Head(s) = s[1]
                          /\ 1 \in DOMAIN s
                          /\ Tail(s) \in Seq(Commands)
                          /\ Len(Tail(s)) = Len(s) - 1
                          /\ \A i \in DOMAIN Tail(s) :
                                i + 1 \in DOMAIN s /\ Tail(s)[i] = s[i + 1]
           /\ Len(s) \in Nat
OBVIOUS

\* Initially nothing is asked for.
LEMMA LinkTypeInit == LinkInit => LinkTypeOK
BY LinkConstantsAssumption
DEF LinkInit, LinkTypeOK, CallStates, Outcomes

\* Setting the state of a call keeps it a call, with its ports.
LEMMA SetState ==
    ASSUME NEW r \in CallStates, NEW st \in {"waiting"} \union Outcomes
    PROVE  /\ [r EXCEPT !.st = st] \in CallStates
           /\ [r EXCEPT !.st = st].st = st
           /\ [r EXCEPT !.st = st].ports = r.ports
BY DEF CallStates

\* The same with its ports.
LEMMA SetPorts ==
    ASSUME NEW r \in CallStates, NEW ps \in SUBSET Ids
    PROVE  /\ [r EXCEPT !.st = "waiting", !.ports = ps] \in CallStates
           /\ [r EXCEPT !.st = "waiting", !.ports = ps].st = "waiting"
           /\ [r EXCEPT !.st = "waiting", !.ports = ps].ports = ps
BY DEF CallStates

\* The same with its link.
LEMMA SetLinks ==
    ASSUME NEW r \in CallStates, NEW id \in Ids
    PROVE  /\ [r EXCEPT !.st = "returned", !.links = {id}] \in CallStates
           /\ [r EXCEPT !.st = "returned", !.links = {id}].st = "returned"
           /\ [r EXCEPT !.st = "returned", !.links = {id}].ports = r.ports
BY DEF CallStates, Outcomes

\* What any step may do to the calls: an outcome is final, and a call that
\* waits keeps its ports.
CallsStep ==
    \A c \in Calls :
        \/ calls'[c] = calls[c]
        \/ calls[c].st = "idle" /\ calls'[c].st # "idle"
        \/ /\ calls[c].st = "waiting" /\ calls'[c].st \in Outcomes
           /\ calls'[c].ports = calls[c].ports

\* The part of the type invariant the calls have.
CallTypes ==
    /\ calls \in [Calls -> CallStates]
    /\ listeners \subseteq {c \in Calls : calls[c].st \in {"waiting", "timedOut"}}
    /\ {c \in Calls : calls[c].st = "waiting"} \subseteq listeners

\* A step that sets one call to another state.
LEMMA OneCall ==
    ASSUME LinkTypeOK, NEW c \in Calls, NEW new \in CallStates,
           calls' = [calls EXCEPT ![c] = new],
           new.st # "idle",
           \/ calls[c].st = "idle"
           \/ calls[c].st = "waiting" /\ new.st = "timedOut"
                                     /\ new.ports = calls[c].ports,
           listeners' = IF new.st = "waiting" THEN listeners \union {c}
                                              ELSE listeners
    PROVE  CallTypes' /\ CallsStep
<1>1. /\ calls' \in [Calls -> CallStates] /\ calls'[c] = new
      /\ \A d \in Calls : d # c => calls'[d] = calls[d]
    BY DEF LinkTypeOK
<1>2. CallsStep
    BY <1>1 DEF CallsStep, Outcomes
<1>3. CallTypes'
    BY <1>1 DEF CallTypes, LinkTypeOK
<1> QED BY <1>2, <1>3

\* Every step keeps the calls, the ring and the orders typed.
LEMMA LinkTypeInd ==
    TypeOK /\ LinkTypeOK /\ [LinkNext]_linkVars => LinkTypeOK' /\ CallsStep
<1> SUFFICES ASSUME TypeOK, LinkTypeOK, [LinkNext]_linkVars
             PROVE  LinkTypeOK' /\ CallsStep
    OBVIOUS
<1>t. /\ calls \in [Calls -> CallStates]
      /\ ring \in Seq(Commands) /\ orders \in Seq(Commands)
      /\ Len(ring) \in Nat /\ Capacity \in Nat
      /\ maker \in [Ids -> Calls \union {Others}]
    BY LinkConstantsAssumption DEF LinkTypeOK
<1>s. calls' = calls => CallsStep
    BY DEF CallsStep
<1>1. ASSUME NEW c \in Calls, NEW ports \in SUBSET Ids, CallCreate(c, ports)
      PROVE  LinkTypeOK' /\ CallsStep
    <2> DEFINE x == [op |-> "create", call |-> c, ports |-> ports]
               new == [calls[c] EXCEPT !.st = "waiting", !.ports = ports]
    <2>1. /\ x \in Commands
          /\ ring' = Append(ring, x) /\ Len(ring) < Capacity
          /\ UNCHANGED <<orders, maker, disposal>>
          /\ calls[c].st = "idle"
          /\ listeners' = listeners \union {c}
          /\ calls' = [calls EXCEPT ![c] = new]
        BY <1>1, <1>t DEF CallCreate, Accept, Commands
    <2>2. new \in CallStates /\ new.st = "waiting"
        <3>1. calls[c] \in CallStates
            BY <1>t
        <3> QED BY <3>1, SetPorts
    <2> HIDE DEF x, new
    <2>3. CallTypes' /\ CallsStep
        BY <2>1, <2>2, OneCall
    <2>4. ring' \in Seq(Commands) /\ Len(ring') <= Capacity
        BY <1>t, <2>1, CommandSeqs
    <2> QED BY <2>1, <2>3, <2>4 DEF LinkTypeOK, CallTypes
<1>2. ASSUME NEW c \in Calls, NEW id \in Ids, CallDestroy(c, id)
      PROVE  LinkTypeOK' /\ CallsStep
    <2> DEFINE x == [op |-> "destroy", call |-> c, link |-> id]
               new == [calls[c] EXCEPT !.st = "returned", !.links = {id}]
    <2>1. /\ x \in Commands
          /\ ring' = Append(ring, x) /\ Len(ring) < Capacity
          /\ UNCHANGED <<orders, maker, disposal, listeners>>
          /\ calls[c].st = "idle"
          /\ calls' = [calls EXCEPT ![c] = new]
        BY <1>2, <1>t DEF CallDestroy, Accept, Commands
    <2>2. new \in CallStates /\ new.st = "returned"
        <3>1. calls[c] \in CallStates
            BY <1>t
        <3> QED BY <3>1, SetLinks
    <2> HIDE DEF x, new
    <2>3. CallTypes' /\ CallsStep
        BY <2>1, <2>2, OneCall
    <2>4. ring' \in Seq(Commands) /\ Len(ring') <= Capacity
        BY <1>t, <2>1, CommandSeqs
    <2> QED BY <2>1, <2>3, <2>4 DEF LinkTypeOK, CallTypes
<1>3. ASSUME NEW c \in Calls, CallRefused(c) \/ Timeout(c)
      PROVE  LinkTypeOK' /\ CallsStep
    <2>1. PICK st \in {"refused", "timedOut"} :
             /\ calls' = [calls EXCEPT ![c] = [calls[c] EXCEPT !.st = st]]
             /\ \/ calls[c].st = "idle"
                \/ calls[c].st = "waiting" /\ st = "timedOut"
        BY <1>3 DEF CallRefused, Timeout
    <2>2. UNCHANGED <<listeners, commandVars, maker, disposal>>
        BY <1>3 DEF CallRefused, Timeout
    <2>3. /\ [calls[c] EXCEPT !.st = st] \in CallStates
          /\ [calls[c] EXCEPT !.st = st].st = st
          /\ [calls[c] EXCEPT !.st = st].ports = calls[c].ports
        <3>1. calls[c] \in CallStates /\ st \in {"waiting"} \union Outcomes
            BY <1>t DEF Outcomes
        <3> QED BY <3>1, SetState
    <2>4. CallTypes' /\ CallsStep
        BY <2>1, <2>2, <2>3, OneCall
    <2> QED BY <2>2, <2>4 DEF LinkTypeOK, CallTypes, commandVars
<1>4. CASE DeliverToAll
    <2> DEFINE e == Head(port)  matched == Matching(e)
    <2>1. /\ e.id \in Ids
          /\ listeners' = listeners \ matched
          /\ calls' = [c \in Calls |->
                 IF c \in matched /\ calls[c].st = "waiting"
                 THEN [calls[c] EXCEPT !.st = "returned", !.links = {e.id}]
                 ELSE calls[c]]
          /\ UNCHANGED <<commandVars, maker, disposal>>
        <3>1. e \in Events
            BY <1>4 DEF DeliverToAll, Deliver, TypeOK
        <3>2. e.id \in Ids
            BY <3>1 DEF Events
        <3> HIDE DEF matched
        <3> QED BY <1>4, <3>2 DEF DeliverToAll, Answer, matched
    <2> HIDE DEF e, matched
    <2>2. ASSUME NEW c \in Calls
          PROVE  /\ calls'[c] \in CallStates
                 /\ \/ calls'[c] = calls[c] /\ ~ (c \in matched /\ calls[c].st = "waiting")
                    \/ /\ calls[c].st = "waiting" /\ c \in matched
                       /\ calls'[c].st = "returned"
                       /\ calls'[c].ports = calls[c].ports
        <3>1. /\ [calls[c] EXCEPT !.st = "returned", !.links = {e.id}] \in CallStates
              /\ [calls[c] EXCEPT !.st = "returned", !.links = {e.id}].st = "returned"
              /\ [calls[c] EXCEPT !.st = "returned", !.links = {e.id}].ports
                    = calls[c].ports
            <4>1. calls[c] \in CallStates /\ e.id \in Ids
                BY <1>t, <2>1
            <4> QED BY <4>1, SetLinks
        <3> QED BY <1>t, <2>1, <3>1
    <2>3. calls' \in [Calls -> CallStates]
        <3>1. calls' = [c \in Calls |-> calls'[c]]
            BY <2>1
        <3> QED BY <2>2, <3>1
    <2>4. CallsStep
        BY <2>2 DEF CallsStep, Outcomes
    <2>5. CallTypes'
        BY <2>1, <2>2, <2>3 DEF CallTypes, LinkTypeOK
    <2> QED BY <2>1, <2>4, <2>5 DEF LinkTypeOK, CallTypes, commandVars
<1>5. CASE BeginDispose
    <2>1. /\ calls' = [c \in Calls |-> IF calls[c].st = "waiting"
                                     THEN [calls[c] EXCEPT !.st = "closed"]
                                     ELSE calls[c]]
          /\ listeners' = {} /\ disposal' = "closing"
          /\ UNCHANGED <<commandVars, maker>>
        BY <1>5 DEF BeginDispose
    <2>2. ASSUME NEW c \in Calls
          PROVE  /\ calls'[c] \in CallStates /\ calls'[c].st # "waiting"
                 /\ \/ calls'[c] = calls[c]
                    \/ /\ calls[c].st = "waiting" /\ calls'[c].st = "closed"
                       /\ calls'[c].ports = calls[c].ports
        <3>1. /\ [calls[c] EXCEPT !.st = "closed"] \in CallStates
              /\ [calls[c] EXCEPT !.st = "closed"].st = "closed"
              /\ [calls[c] EXCEPT !.st = "closed"].ports = calls[c].ports
            <4>1. calls[c] \in CallStates /\ "closed" \in {"waiting"} \union Outcomes
                BY <1>t DEF Outcomes
            <4> QED BY <4>1, SetState
        <3> QED BY <1>t, <2>1, <3>1
    <2>3. calls' \in [Calls -> CallStates]
        <3>1. calls' = [c \in Calls |-> calls'[c]]
            BY <2>1
        <3> QED BY <2>2, <3>1
    <2>4. CallsStep
        BY <2>2 DEF CallsStep, Outcomes
    <2> QED BY <2>1, <2>2, <2>3, <2>4 DEF LinkTypeOK, commandVars
<1>6. CASE Serve
    <2>1. /\ ring # <<>> /\ ring' = Tail(ring)
          /\ orders' \in {orders, Append(orders, Head(ring))}
          /\ UNCHANGED <<callVars, maker, disposal>>
        BY <1>6 DEF Serve
    <2>2. /\ ring' \in Seq(Commands) /\ Len(ring') <= Capacity
          /\ orders' \in Seq(Commands)
        <3>1. Head(ring) \in Commands /\ Tail(ring) \in Seq(Commands)
              /\ Len(Tail(ring)) = Len(ring) - 1
            BY <1>t, <2>1, CommandSeqs
        <3>2. Append(orders, Head(ring)) \in Seq(Commands)
            BY <1>t, <3>1, CommandSeqs
        <3>3. Len(Tail(ring)) <= Capacity
            BY <1>t, <3>1 DEF LinkTypeOK
        <3> QED BY <1>t, <2>1, <3>1, <3>2, <3>3
    <2> QED BY <1>s, <2>1, <2>2 DEF LinkTypeOK, callVars
<1>7. CASE EndDispose
    <2>1. ring' = <<>> /\ disposal' = "done" /\ UNCHANGED <<orders, callVars, maker>>
        BY <1>7 DEF EndDispose
    <2>2. ring' \in Seq(Commands) /\ Len(ring') <= Capacity
        BY <1>t, <2>1, LinkConstantsAssumption
    <2> QED BY <1>s, <2>1, <2>2 DEF LinkTypeOK, callVars
<1>8. CASE OrderStep
    <2>1. /\ orders # <<>> /\ orders' \in {orders, Tail(orders)}
          /\ UNCHANGED <<callVars, ring, disposal>>
          /\ \/ maker' = maker
             \/ \E id \in Ids : /\ Head(orders).op = "create"
                                /\ maker' = [maker EXCEPT ![id] = Head(orders).call]
        BY <1>8, ConstantsAssumption
        DEF OrderStep, GrantCreate, RefuseCreate, GrantDestroy, RefuseDestroy, Made
    <2>2. orders' \in Seq(Commands) /\ Head(orders) \in Commands
        <3>1. orders \in Seq(Commands) /\ orders # <<>>
            BY <1>t, <2>1
        <3>2. Head(orders) \in Commands /\ Tail(orders) \in Seq(Commands)
            BY ZenonT(30), <3>1, CommandSeqs
        <3> QED BY <2>1, <3>1, <3>2
    <2>3. maker' \in [Ids -> Calls \union {Others}]
        BY <1>t, <2>1, <2>2 DEF Commands
    <2> QED BY <1>s, <2>1, <2>2, <2>3 DEF LinkTypeOK, callVars
<1>9. CASE OtherChange
    BY <1>9, <1>s DEF OtherChange, LinkTypeOK, callVars, commandVars
<1>10. ASSUME NEW entry \in Catalog, OtherAdd(entry[1], entry[2])
       PROVE  LinkTypeOK' /\ CallsStep
    <2>1. entry[1] \in Ids /\ maker' = [maker EXCEPT ![entry[1]] = Others]
        BY <1>10, ConstantsAssumption DEF OtherAdd, Made
    <2>2. maker' \in [Ids -> Calls \union {Others}]
        BY <1>t, <2>1
    <2> QED BY <1>10, <1>s, <2>2 DEF OtherAdd, LinkTypeOK, callVars, commandVars
<1>11. CASE LoopStep \/ AnswerStep \/ ConnectStep \/ RefreshStep
    BY <1>11, <1>s
    DEF LoopStep, AnswerStep, ConnectStep, RefreshStep, Quiet, LinkTypeOK,
        callVars, commandVars
<1>12. CASE UNCHANGED linkVars
    BY <1>12, <1>s DEF linkVars, LinkTypeOK, callVars, commandVars
<1>13. CASE CallStep
    <2>1. ASSUME NEW c \in Calls, NEW p \in Ids, NEW q \in Ids,
                 CallCreate(c, {p, q})
          PROVE  LinkTypeOK' /\ CallsStep
        BY <1>1, <2>1
    <2> QED BY <1>2, <1>3, <1>13, <2>1 DEF CallStep
<1> QED
    BY <1>3, <1>4, <1>5, <1>6, <1>7, <1>8, <1>9, <1>10, <1>11, <1>12, <1>13
    DEF LinkNext

\* The whole is typed: the mirror and the requests.
LEMMA LinkTypes == LinkSpec => [](TypeOK /\ LinkTypeOK)
<1>1. LinkInit => TypeOK /\ LinkTypeOK
    BY TypeInit, LinkTypeInit DEF LinkInit
<1>2. TypeOK /\ LinkTypeOK /\ [LinkNext]_linkVars => (TypeOK /\ LinkTypeOK)'
    BY MirrorStep, TypeInd, LinkTypeInd
<1> QED BY <1>1, <1>2, PTL DEF LinkSpec

\* Type correctness of the requests.
THEOREM Link_Type_Correct == LinkSpec => []LinkTypeOK
<1>1. TypeOK /\ LinkTypeOK => LinkTypeOK
    OBVIOUS
<1> QED BY <1>1, LinkTypes, PTL

\* A call that has come to its end stays as it ended, whatever answer arrives
\* later.
THEOREM Outcomes_Are_Final == LinkSpec => OutcomesAreFinal
<1>1. TypeOK /\ LinkTypeOK /\ [LinkNext]_linkVars
         => [\A c \in Calls : calls[c].st \in Outcomes => calls'[c] = calls[c]]_linkVars
    BY LinkTypeInd DEF CallsStep, Outcomes
<1> QED BY <1>1, LinkTypes, PTL DEF LinkSpec, OutcomesAreFinal

-----------------------------------------------------------------------------
\* Dispose

\* From the close of the stream on nothing waits.
Ended ==
    disposal # "open" => listeners = {} /\ \A c \in Calls : calls[c].st # "waiting"

\* No step makes a call wait once dispose() has begun.
LEMMA EndedInd == LinkTypeOK /\ Ended /\ [LinkNext]_linkVars => Ended'
<1> SUFFICES ASSUME LinkTypeOK, Ended, [LinkNext]_linkVars PROVE Ended'
    OBVIOUS
<1>1. CASE UNCHANGED <<callVars, disposal>>
    BY <1>1 DEF Ended, callVars
<1>2. CASE CallStep \/ DeliverToAll
    BY <1>2
    DEF Ended, CallStep, CallCreate, CallDestroy, CallRefused, Accept,
        DeliverToAll, Ready
<1>3. ASSUME NEW c \in Calls, Timeout(c) PROVE Ended'
    BY <1>3 DEF Ended, Timeout
<1>4. CASE BeginDispose
    <2>1. \A c \in Calls : calls'[c].st # "waiting"
        <3> SUFFICES ASSUME NEW c \in Calls PROVE calls'[c].st # "waiting"
            OBVIOUS
        <3>1. calls[c] \in CallStates /\ "closed" \in {"waiting"} \union Outcomes
            BY DEF LinkTypeOK, Outcomes
        <3>2. [calls[c] EXCEPT !.st = "closed"].st = "closed"
            BY <3>1, SetState
        <3> QED BY <1>4, <3>2 DEF BeginDispose
    <2> QED BY <1>4, <2>1 DEF BeginDispose, Ended
<1>5. CASE EndDispose
    BY <1>5 DEF EndDispose, Ended, callVars
<1>6. CASE Serve \/ OrderStep \/ OtherChange
    BY <1>1, <1>6
    DEF Serve, OrderStep, GrantCreate, RefuseCreate, GrantDestroy,
        RefuseDestroy, OtherChange
<1>7. CASE \E entry \in Catalog : OtherAdd(entry[1], entry[2])
    BY <1>1, <1>7 DEF OtherAdd
<1>8. CASE LoopStep \/ AnswerStep \/ ConnectStep \/ RefreshStep
    BY <1>1, <1>8 DEF LoopStep, AnswerStep, ConnectStep, RefreshStep, Quiet
<1>9. CASE UNCHANGED linkVars
    BY <1>1, <1>9 DEF linkVars
<1> QED
    BY <1>2, <1>3, <1>4, <1>5, <1>6, <1>7, <1>8, <1>9 DEF LinkNext

\* No future of the program outlives the native client it depends on.
THEOREM Calls_End == LinkSpec => []CallsEndBeforeDisconnect
<1>1. LinkInit => Ended
    BY DEF LinkInit, Ended
<1>2. (TypeOK /\ LinkTypeOK) /\ Ended /\ [LinkNext]_linkVars => Ended'
    BY EndedInd
<1>3. Ended => CallsEndBeforeDisconnect
    BY DEF Ended, CallsEndBeforeDisconnect
<1> QED BY <1>1, <1>2, <1>3, LinkTypes, PTL DEF LinkSpec

-----------------------------------------------------------------------------
\* The answer on the way: what the wire says

\* No global for the id comes after message i of the wire w.
LastOf(w, i, id) ==
    \A j \in DOMAIN w : j > i => ~ (w[j].op = "global" /\ w[j].id = id)

\* Message i of w, if it is about the object objs has under its id by now,
\* which it is from that object's global on, shows its kind and refs.
UpToDate(w, i, objs) ==
    (/\ w[i].op \in {"global", "info"}
     /\ objs[w[i].id] # NoObj
     /\ LastOf(w, i, w[i].id))
    => /\ w[i].op = "global" => w[i].obj.kind = objs[w[i].id].kind
       /\ w[i].op = "info" => w[i].refs = objs[w[i].id].refs

Current == \A i \in DOMAIN wire : UpToDate(wire, i, world)

\* The daemon sends a message.
LEMMA CurrentAppend ==
    ASSUME TypeOK, Current, NEW m \in Messages, wire' = Append(wire, m),
           \A id \in Ids : world'[id] # NoObj =>
               \/ m.op = "global" /\ m.id = id
               \/ /\ world[id] # NoObj
                  /\ world'[id].kind = world[id].kind
                  /\ world'[id].refs = world[id].refs,
           m.op = "global" => m.obj.kind = world'[m.id].kind,
           m.op = "info" => m.refs = world'[m.id].refs
    PROVE  Current'
<1>n. PICK n \in Nat : n = Len(wire)
    BY DEF TypeOK
<1>1. /\ DOMAIN wire = 1 .. n /\ DOMAIN wire' = 1 .. n + 1
      /\ wire'[n + 1] = m
      /\ \A i \in 1 .. n : wire'[i] = wire[i] /\ wire[i] \in Messages
    BY <1>n DEF TypeOK
<1>2. UpToDate(wire', n + 1, world')
    BY <1>1 DEF UpToDate
<1>3. ASSUME NEW i \in 1 .. n PROVE UpToDate(wire', i, world')
    <2>1. SUFFICES ASSUME wire'[i].op \in {"global", "info"},
                          world'[wire'[i].id] # NoObj,
                          LastOf(wire', i, wire'[i].id)
                   PROVE  /\ wire'[i].op = "global" =>
                                wire'[i].obj.kind = world'[wire'[i].id].kind
                          /\ wire'[i].op = "info" =>
                                wire'[i].refs = world'[wire'[i].id].refs
        BY DEF UpToDate
    <2>2. wire'[i] = wire[i] /\ wire[i].id \in Ids
        BY <1>1, <2>1, MessageOf
    <2>3. ~ (m.op = "global" /\ m.id = wire[i].id)
        <3>1. n + 1 \in DOMAIN wire' /\ n + 1 > i
            BY <1>1
        <3> QED BY <1>1, <2>1, <2>2, <3>1 DEF LastOf
    <2>4. LastOf(wire, i, wire[i].id)
        BY <1>1, <2>1, <2>2 DEF LastOf
    <2>5. UpToDate(wire, i, world)
        BY <1>1 DEF Current
    <2> QED BY <2>1, <2>2, <2>3, <2>4, <2>5 DEF UpToDate
<1> QED BY <1>1, <1>2, <1>3 DEF Current

\* A message is the last of its kind in the rest of the wire if it is in the
\* wire.
LEMMA LastOfTail ==
    ASSUME TypeOK, wire # <<>>, NEW i \in DOMAIN Tail(wire), NEW id,
           LastOf(Tail(wire), i, id)
    PROVE  /\ i + 1 \in DOMAIN wire /\ Tail(wire)[i] = wire[i + 1]
           /\ LastOf(wire, i + 1, id)
<1>n. PICK n \in Nat : n = Len(wire)
    BY DEF TypeOK
<1>1. /\ DOMAIN wire = 1 .. n /\ DOMAIN Tail(wire) = 1 .. n - 1
      /\ \A k \in 1 .. n - 1 : Tail(wire)[k] = wire[k + 1]
    BY <1>n DEF TypeOK
<1>2. ASSUME NEW j \in 1 .. n, j > i + 1
      PROVE  ~ (wire[j].op = "global" /\ wire[j].id = id)
    <2>1. j - 1 \in 1 .. n - 1 /\ j - 1 > i
        BY <1>1, <1>2
    <2>2. Tail(wire)[j - 1] = wire[j]
        BY <1>1, <2>1
    <2> QED BY <1>1, <2>1, <2>2 DEF LastOf
<1> QED BY <1>1, <1>2 DEF LastOf

\* The loop takes a message.
LEMMA CurrentTail ==
    ASSUME TypeOK, Current, wire # <<>>, wire' = Tail(wire), world' = world
    PROVE  Current'
<1> SUFFICES ASSUME NEW i \in DOMAIN Tail(wire) PROVE UpToDate(Tail(wire), i, world)
    BY DEF Current
<1> QED BY LastOfTail DEF Current, UpToDate

\* Objects keep their kind and what they refer to for as long as they live.
LEMMA CurrentKeep ==
    ASSUME TypeOK, Current, wire' = wire,
           \A id \in Ids : world'[id] # NoObj =>
               /\ world[id] # NoObj
               /\ world'[id].kind = world[id].kind
               /\ world'[id].refs = world[id].refs
    PROVE  Current'
<1>1. \A i \in DOMAIN wire : wire[i].op \in {"global", "info"} => wire[i].id \in Ids
    BY MessageOf DEF TypeOK
<1> QED BY <1>1 DEF Current, UpToDate

\* The first announcements name each object once and show it as it is.
LEMMA CurrentInit == Init => Current
<1> SUFFICES ASSUME Init PROVE Current
    OBVIOUS
<1>1. PICK order \in Announcements(world) :
         wire = [i \in 1 .. Cardinality(Present(world)) |->
                    Global(order[i], 0, world[order[i]])]
    BY DEF Init
<1> QED BY <1>1 DEF Current, UpToDate, Global

\* A change of state or properties leaves an object what it is.
LEMMA ChangedObject ==
    ASSUME NEW obj \in Objects, NEW st \in States, NEW props \in Nat
    PROVE  /\ [obj EXCEPT !.st = st, !.props = props] \in Objects
           /\ [obj EXCEPT !.st = st, !.props = props].kind = obj.kind
           /\ [obj EXCEPT !.st = st, !.props = props].refs = obj.refs
BY DEF Objects

\* Every step of the mirror keeps what is on the wire current.
LEMMA CurrentInd == TypeOK /\ Current /\ [Next]_vars => Current'
<1> SUFFICES ASSUME TypeOK, Current, [Next]_vars PROVE Current'
    OBVIOUS
<1>w. world \in [Ids -> Objects \union {NoObj}]
    BY DEF TypeOK, ObjectMap
<1>1. ASSUME NEW entry \in Catalog, DaemonAdd(entry[1], entry[2]) PROVE Current'
    <2> DEFINE m == Global(entry[1], gen[entry[1]] + 1, entry[2])
    <2>1. /\ entry[1] \in Ids /\ entry[2] \in Objects
          /\ gen[entry[1]] + 1 \in Nat
        BY ConstantsAssumption DEF TypeOK
    <2>2. /\ m \in Messages /\ m.op = "global" /\ m.id = entry[1]
          /\ m.obj = entry[2]
        BY <2>1 DEF Messages, Globals, Global
    <2>3. /\ wire' = Append(wire, m)
          /\ world' = [world EXCEPT ![entry[1]] = entry[2]]
        BY <1>1 DEF DaemonAdd
    <2> HIDE DEF m
    <2> QED BY <1>w, <2>1, <2>2, <2>3, CurrentAppend
<1>2. ASSUME NEW id \in Ids, DaemonRemove(id) PROVE Current'
    <2> DEFINE m == [op |-> "global_remove", id |-> id]
    <2>1. m \in Messages /\ m.op = "global_remove"
        BY DEF Messages, Removes
    <2>2. wire' = Append(wire, m) /\ world' = [world EXCEPT ![id] = NoObj]
        BY <1>2 DEF DaemonRemove
    <2> HIDE DEF m
    <2> QED BY <1>w, <2>1, <2>2, CurrentAppend
<1>3. ASSUME NEW id \in Ids, NEW newSt \in States, NEW newProps \in 0 .. MaxChanges,
             DaemonChange(id, newSt, newProps)
      PROVE  Current'
    <2> DEFINE new == [world[id] EXCEPT !.st = newSt, !.props = newProps]
               m == Info(id, new, newProps # world[id].props)
    <2>1. /\ world[id] \in Objects /\ world[id] # NoObj
          /\ world' = [world EXCEPT ![id] = new]
          /\ wire' = wire \/ wire' = Append(wire, m)
        BY <1>3, <1>w DEF DaemonChange
    <2>2. new \in Objects /\ new.kind = world[id].kind /\ new.refs = world[id].refs
        <3>1. newProps \in Nat
            BY ConstantsAssumption
        <3> HIDE DEF m
        <3> QED BY ONLY <2>1, <3>1, newSt \in States, ChangedObject
    <2> HIDE DEF new
    <2>3. m \in Messages /\ m.op = "info" /\ m.id = id /\ m.refs = new.refs
        BY <2>2 DEF Messages, Infos, Info, Objects
    <2> HIDE DEF m
    <2>4. \A k \in Ids : world'[k] # NoObj =>
             /\ world[k] # NoObj /\ world'[k].kind = world[k].kind
             /\ world'[k].refs = world[k].refs
        BY <1>w, <2>1, <2>2
    <2>5. world'[id] = new
        BY <1>w, <2>1
    <2>6. CASE wire' = wire
        BY <2>4, <2>6, CurrentKeep
    <2>7. CASE wire' = Append(wire, m)
        BY <2>3, <2>4, <2>5, <2>7, CurrentAppend
    <2> QED BY <2>1, <2>6, <2>7
<1>4. CASE DaemonBind
    <2> DEFINE r == Head(requests)
               m == IF world[r.id] # NoObj /\ gen[r.id] = r.gen
                    THEN Info(r.id, world[r.id], TRUE)
                    ELSE [op |-> "error", id |-> r.id]
    <2>1. r \in Requests /\ r.op = "bind"
        BY <1>4 DEF DaemonBind, TypeOK
    <2>2. r.id \in Ids
        BY <2>1 DEF Requests
    <2>3. /\ m \in Messages
          /\ m.op # "global"
          /\ m.op = "info" => m.refs = world[m.id].refs
        <3>1. CASE world[r.id] # NoObj /\ gen[r.id] = r.gen
            <4>1. world[r.id] \in Objects
                BY <1>w, <2>2, <3>1
            <4> QED BY <2>2, <3>1, <4>1 DEF Messages, Infos, Info, Objects
        <3>2. CASE ~ (world[r.id] # NoObj /\ gen[r.id] = r.gen)
            BY <2>2, <3>2 DEF Messages, Errors
        <3> QED BY <3>1, <3>2
    <2>4. wire' = Append(wire, m) /\ world' = world
        BY <1>4 DEF DaemonBind
    <2> HIDE DEF m
    <2> QED BY <2>3, <2>4, CurrentAppend
<1>5. CASE DaemonSync
    <2> DEFINE m == [op |-> "done", seq |-> Head(requests).seq]
    <2>1. Head(requests) \in Requests /\ Head(requests).op = "sync"
        BY <1>5 DEF DaemonSync, TypeOK
    <2>2. m \in Messages /\ m.op = "done"
        BY <2>1 DEF Messages, Dones, Requests
    <2>3. wire' = Append(wire, m) /\ world' = world
        BY <1>5 DEF DaemonSync, daemonVars
    <2> HIDE DEF m
    <2> QED BY <2>2, <2>3, CurrentAppend
<1>6. CASE Loop
    BY <1>6, LoopCases, CurrentTail DEF daemonVars
<1>7. CASE Connect \/ Isolate
    <2>1. wire' = wire /\ world' = world
        BY <1>7
        DEF Connect, StartRound1, StartRound2, StartRound, FinishConnect, Isolate,
            TakeFirstSnapshot, TakeSnapshot, AssignGraph, Deliver, daemonVars
    <2> QED BY <2>1, CurrentKeep
<1>8. CASE UNCHANGED vars
    BY <1>8, CurrentKeep DEF vars, daemonVars
<1> QED
    BY <1>1, <1>2, <1>3, <1>4, <1>5, <1>6, <1>7, <1>8
    DEF Next, Daemon, DaemonAnswer

-----------------------------------------------------------------------------
\* The answer on the way: what the monitor does

\* A link entry no info has been applied to is in its first state, the one on
\* which OnLinkInfo tells a new link from a known one.
Unannounced ==
    \A id \in Ids :
        Has(native, "link", id) /\ <<"link", id>> \notin announced
            => native["link"][id].st = "init"

\* Initially there is no entry.
LEMMA UnannouncedInit == Init => Unannounced
BY DEF Init, MonitorInit, EmptyGraph, Kinds, Unannounced, Has

\* A global enters a link in its first state, and only an info moves it on.
LEMMA UnannouncedInd ==
    TypeOK /\ Unannounced /\ [Next]_vars => Unannounced'
<1> SUFFICES ASSUME TypeOK, Unannounced, [Next]_vars PROVE Unannounced'
    OBVIOUS
<1> DEFINE m == Head(wire)
<1>t. /\ native \in [Kinds -> [Ids -> Objects \union {NoObj}]]
      /\ idTypes \in [Ids -> Kinds \union {"none"}]
      /\ "none" \notin Kinds /\ "link" \in Kinds
    BY DEF TypeOK, Graphs, ObjectMap, Kinds
<1>1. CASE Loop /\ m.op = "global" /\ OnGlobal(m.id, m.gen, m.obj)
    <2> DEFINE id == m.id  kind == m.obj.kind
               new == [m.obj EXCEPT !.st = FirstState[kind]]
    <2>1. id \in Ids /\ kind \in Kinds /\ m.obj \in Objects
        <3>1. m \in Globals
            BY <1>1, LoopCases, MessageOf
        <3> QED BY <1>1, <3>1 DEF OnGlobal, Globals
    <2>2. kind = "link" => new.st = "init"
        BY <2>1 DEF Objects, FirstState
    <2>3. /\ native' = [native EXCEPT ![kind] = [@ EXCEPT ![id] = new]]
          /\ announced' = announced \ {<<kind, id>>}
        BY <1>1 DEF OnGlobal, WithObject
    <2> HIDE DEF new, kind, id
    <2> QED BY <1>t, <2>1, <2>2, <2>3 DEF Unannounced, Has
<1>2. CASE Loop /\ m.op = "global_remove" /\ OnGlobalRemove(m.id)
    <2> DEFINE id == m.id
    <2>1. id \in Ids
        BY <1>2, LoopCases, MessageOf
    <2>2. /\ idTypes[id] \in Kinds
          /\ native' = [native EXCEPT ![idTypes[id]] = [@ EXCEPT ![id] = NoObj]]
          /\ announced' = announced \ {<<idTypes[id], id>>}
        BY <1>2, <1>t, <2>1 DEF OnGlobalRemove, WithoutObject
    <2> HIDE DEF id
    <2> QED BY <1>t, <2>1, <2>2 DEF Unannounced, Has
<1>3. CASE /\ Loop /\ m.op = "info" /\ m.kind \in Kinds
           /\ \E obj \in Objects : InfoEffect(m.kind, m.id, obj)
    <2> DEFINE id == m.id  kind == m.kind
    <2>1. PICK obj \in Objects : InfoEffect(kind, id, obj)
        BY <1>3
    <2>2. id \in Ids /\ kind \in Kinds
        BY <1>3, LoopCases, MessageOf
    <2>3. /\ native' = [native EXCEPT ![kind] = [@ EXCEPT ![id] = obj]]
          /\ announced' = announced \union {<<kind, id>>}
        BY <2>1 DEF InfoEffect, Enter, WithObject
    <2> HIDE DEF id, kind
    <2> QED BY <1>t, <2>2, <2>3 DEF Unannounced, Has
<1>4. CASE UNCHANGED monitorVars
    BY <1>4 DEF Unannounced, Has, monitorVars
<1>5. CASE Loop
    BY <1>1, <1>2, <1>3, <1>4, <1>5, LoopCases DEF OnCoreError, monitorVars
<1> QED
    BY <1>4, <1>5
    DEF Next, Daemon, DaemonAnswer, DaemonAdd, DaemonRemove, DaemonChange,
        DaemonBind, DaemonSync, Connect, Isolate, StartRound1, StartRound2,
        StartRound, FinishConnect, TakeFirstSnapshot, TakeSnapshot, AssignGraph,
        Deliver, vars, monitorVars

\* What is posted is behind what was posted before.
LEMMA LoopPosts ==
    ASSUME TypeOK, Loop
    PROVE  \A i \in DOMAIN port : i \in DOMAIN port' /\ port'[i] = port[i]
<1>1. port' = port \/ \E e : port' = Append(port, e)
    BY LoopCases
    DEF OnGlobal, OnGlobalRemove, InfoEffect, OnCoreError, PostEvent
<1>2. ASSUME NEW e, port' = Append(port, e)
      PROVE  \A i \in DOMAIN port : i \in DOMAIN port' /\ port'[i] = port[i]
    <2>1. port \in Seq(Events \union {e})
        BY DEF TypeOK
    <2> QED BY <1>2, <2>1
<1> QED BY <1>1, <1>2

\* The info that announces a link is posted as LinkAdded, with its ports.
LEMMA LinkAnnounced ==
    ASSUME TypeOK, Unannounced, PostResolved, Loop, NEW id \in Ids,
           <<"link", id>> \notin announced, <<"link", id>> \in announced'
    PROVE  /\ Head(wire).op = "info" /\ Head(wire).id = id
           /\ \E i \in DOMAIN port' :
                 /\ port'[i].type = "LinkAdded" /\ port'[i].id = id
                 /\ port'[i].obj.refs = Head(wire).refs
<1> DEFINE m == Head(wire)
<1>1. ReceiveInfo /\ m.op = "info" /\ m \in Infos
    <2>1. ~ (ReceiveGlobal \/ ReceiveGlobalRemove \/ ReceiveDone \/ ReceiveError)
        BY DEF ReceiveGlobal, ReceiveGlobalRemove, ReceiveDone, ReceiveError,
               OnGlobal, OnUnknownGlobal, OnGlobalRemove, OnUnknownRemove,
               OnCoreError, monitorVars
    <2> QED BY <2>1, LoopCases, MessageOf DEF Loop, ReceiveInfo, Receive
<1>2. m.id = id /\ OnLinkInfo(id, m)
    <2>1. \/ m.kind = "node" /\ OnNodeInfo(m.id, m)
          \/ m.kind = "port" /\ OnPortInfo(m.id, m)
          \/ m.kind = "link" /\ OnLinkInfo(m.id, m)
          \/ m.kind = "device" /\ OnDeviceInfo(m.id, m)
        BY <1>1 DEF ReceiveInfo, OnStaleInfo, monitorVars
    <2>2. /\ OnNodeInfo(m.id, m) => announced' = announced \union {<<"node", m.id>>}
          /\ OnPortInfo(m.id, m) => announced' = announced \union {<<"port", m.id>>}
          /\ OnLinkInfo(m.id, m) => announced' = announced \union {<<"link", m.id>>}
          /\ OnDeviceInfo(m.id, m) =>
                announced' = announced \union {<<"device", m.id>>}
        BY DEF OnNodeInfo, OnPortInfo, OnLinkInfo, OnDeviceInfo, Enter
    <2>3. announced' = announced \union {<<"link", m.id>>} => m.id = id
        OBVIOUS
    <2>4. \A k \in {"node", "port", "device"} :
             announced' # announced \union {<<k, m.id>>}
        OBVIOUS
    <2> HIDE DEF m
    <2> QED BY <2>1, <2>2, <2>3, <2>4
<1> DEFINE old == native["link"][id]
           link == [old EXCEPT !.st = m.st, !.refs = m.refs]
<1>3. old.st = "init"
    BY <1>2 DEF Unannounced, OnLinkInfo
<1>4. port' = Append(port, Upsert("LinkAdded", id, link))
    BY <1>2, <1>3 DEF OnLinkInfo, PostEvent
<1>5. link.refs = m.refs
    <2>1. old \in Objects
        BY <1>2 DEF OnLinkInfo, Has, TypeOK, Graphs, ObjectMap, Kinds
    <2> QED BY <2>1 DEF Objects
<1> HIDE DEF link, old
<1>6. /\ Len(port) + 1 \in DOMAIN port'
      /\ port'[Len(port) + 1] = Upsert("LinkAdded", id, link)
    BY <1>4 DEF TypeOK
<1> QED BY <1>1, <1>2, <1>5, <1>6 DEF Upsert

-----------------------------------------------------------------------------
\* The answer on the way: whose link it is

\* The command is no idle call's, and asks for the call's ports.
Asked(x, cs) ==
    x.op = "create" => cs[x.call].st # "idle" /\ x.ports = cs[x.call].ports

\* A command on its way is of a call, and a link made for a call is a link
\* between the ports the call asked for.
Owned ==
    /\ \A i \in DOMAIN ring : Asked(ring[i], calls)
    /\ \A i \in DOMAIN orders : Asked(orders[i], calls)
    /\ \A c \in Calls, id \in Ids :
          maker[id] = c /\ world[id] # NoObj =>
              /\ calls[c].st # "idle"
              /\ world[id].kind = "link" /\ world[id].refs = calls[c].ports

\* A call keeps its ports, so its commands stay asked for.
LEMMA AskedKeep ==
    ASSUME LinkTypeOK, CallsStep, NEW x \in Commands, Asked(x, calls)
    PROVE  Asked(x, calls')
<1>1. x.op = "create" => x.call \in Calls
    BY DEF Commands
<1> QED BY <1>1 DEF Asked, CallsStep, Outcomes

\* The steps that add no object to the daemon's registry.
LEMMA OwnedKeep ==
    ASSUME LinkTypeOK, Owned, CallsStep, maker' = maker,
           \A id \in Ids : world'[id] # NoObj =>
               /\ world[id] # NoObj
               /\ world'[id].kind = world[id].kind
               /\ world'[id].refs = world[id].refs,
           \A i \in DOMAIN ring' : \/ \E j \in DOMAIN ring : ring'[i] = ring[j]
                                   \/ Asked(ring'[i], calls'),
           \A i \in DOMAIN orders' :
               \/ \E j \in DOMAIN orders : orders'[i] = orders[j]
               \/ \E j \in DOMAIN ring : orders'[i] = ring[j]
    PROVE  Owned'
<1>1. /\ \A i \in DOMAIN ring : ring[i] \in Commands
      /\ \A i \in DOMAIN orders : orders[i] \in Commands
    BY DEF LinkTypeOK
<1>2. /\ \A i \in DOMAIN ring : Asked(ring[i], calls')
      /\ \A i \in DOMAIN orders : Asked(orders[i], calls')
    BY <1>1, AskedKeep DEF Owned
<1>3. ASSUME NEW c \in Calls, NEW id \in Ids, maker[id] = c, world'[id] # NoObj
      PROVE  /\ calls'[c].st # "idle"
             /\ world'[id].kind = "link" /\ world'[id].refs = calls'[c].ports
    <2>1. /\ calls[c].st # "idle"
          /\ world[id].kind = "link" /\ world[id].refs = calls[c].ports
        BY <1>3 DEF Owned
    <2> QED BY <1>3, <2>1 DEF CallsStep, Outcomes
<1> QED BY <1>2, <1>3 DEF Owned

\* The daemon adds an object: another's, or the link of the oldest order.
LEMMA OwnedAdd ==
    ASSUME TypeOK, LinkTypeOK, Owned, NEW id \in Ids, NEW obj \in Objects,
           NEW by \in Calls \union {Others}, DaemonAdd(id, obj), Made(id, by),
           UNCHANGED <<calls, ring>>, orders' \in {orders, Tail(orders)},
           orders # <<>> \/ orders' = orders,
           by \in Calls => /\ calls[by].st # "idle"
                           /\ obj.kind = "link" /\ obj.refs = calls[by].ports
    PROVE  Owned'
<1>1. \A i \in DOMAIN orders' : Asked(orders'[i], calls')
    <2>1. \A i \in DOMAIN orders' : \E j \in DOMAIN orders : orders'[i] = orders[j]
        <3>1. orders \in Seq(Commands)
            BY DEF LinkTypeOK
        <3>2. CASE orders' = orders
            BY <3>2
        <3>3. CASE orders # <<>> /\ orders' = Tail(orders)
            BY <3>1, <3>3, CommandSeqs
        <3> QED BY <3>2, <3>3
    <2> QED BY <2>1 DEF Owned
<1>2. /\ world' = [world EXCEPT ![id] = obj] /\ world \in [Ids -> Objects \union {NoObj}]
      /\ maker' = [maker EXCEPT ![id] = by] /\ maker \in [Ids -> Calls \union {Others}]
    BY DEF DaemonAdd, Made, TypeOK, ObjectMap, LinkTypeOK
<1>3. ASSUME NEW c \in Calls, NEW k \in Ids, maker'[k] = c, world'[k] # NoObj
      PROVE  /\ calls'[c].st # "idle"
             /\ world'[k].kind = "link" /\ world'[k].refs = calls'[c].ports
    BY <1>2, <1>3 DEF Owned
<1>4. \A i \in DOMAIN ring' : Asked(ring'[i], calls')
    BY DEF Owned
<1> QED BY <1>1, <1>3, <1>4 DEF Owned

\* Initially nothing is asked for and nothing made for a call.
LEMMA OwnedInit == LinkInit => Owned
BY LinkConstantsAssumption DEF LinkInit, Owned

\* No step asks for an idle call, or makes a link for one.
LEMMA OwnedInd ==
    TypeOK /\ LinkTypeOK /\ Owned /\ [LinkNext]_linkVars => Owned'
<1> SUFFICES ASSUME TypeOK, LinkTypeOK, Owned, [LinkNext]_linkVars PROVE Owned'
    OBVIOUS
<1>s. CallsStep
    BY LinkTypeInd
<1>t. /\ ring \in Seq(Commands) /\ orders \in Seq(Commands)
      /\ world \in [Ids -> Objects \union {NoObj}]
    BY DEF LinkTypeOK, TypeOK, ObjectMap
<1>1. CASE OtherChange
    <2>1. \A id \in Ids : world'[id] # NoObj =>
             /\ world[id] # NoObj /\ world'[id].kind = world[id].kind
             /\ world'[id].refs = world[id].refs
        <3>1. ASSUME NEW id \in Ids, DaemonRemove(id)
              PROVE  world' = [world EXCEPT ![id] = NoObj]
            BY <3>1 DEF DaemonRemove
        <3>2. ASSUME NEW id \in Ids, NEW st \in States, NEW n \in 0 .. MaxChanges,
                     DaemonChange(id, st, n)
              PROVE  \A k \in Ids : world'[k] # NoObj =>
                        /\ world[k] # NoObj /\ world'[k].kind = world[k].kind
                        /\ world'[k].refs = world[k].refs
            <4> DEFINE new == [world[id] EXCEPT !.st = st, !.props = n]
            <4>1. world[id] # NoObj /\ world' = [world EXCEPT ![id] = new]
                BY <3>2 DEF DaemonChange
            <4>2. world[id] \in Objects /\ n \in Nat
                BY <1>t, <4>1, ConstantsAssumption
            <4>3. new.kind = world[id].kind /\ new.refs = world[id].refs
                BY ONLY <4>2, st \in States, ChangedObject
            <4> HIDE DEF new
            <4> QED BY <1>t, <4>1, <4>3
        <3> QED BY <1>t, <1>1, <3>1, <3>2 DEF OtherChange
    <2> QED BY <1>1, <1>s, <2>1, OwnedKeep DEF OtherChange, commandVars
<1>2. ASSUME NEW entry \in Catalog, OtherAdd(entry[1], entry[2]) PROVE Owned'
    BY <1>2, OwnedAdd, ConstantsAssumption, LinkConstantsAssumption
    DEF OtherAdd, callVars, commandVars
<1>3. CASE OrderStep
    <2>1. ASSUME NEW entry \in Catalog, GrantCreate(entry[1], entry[2]) PROVE Owned'
        <3>1. /\ orders # <<>> /\ Head(orders).op = "create"
              /\ entry[2].kind = "link" /\ entry[2].refs = Head(orders).ports
              /\ DaemonAdd(entry[1], entry[2]) /\ Made(entry[1], Head(orders).call)
              /\ UNCHANGED <<calls, ring>> /\ orders' = Tail(orders)
            BY <2>1 DEF GrantCreate, callVars
        <3>2. Head(orders) = orders[1] /\ 1 \in DOMAIN orders
              /\ Head(orders) \in Commands
            BY <1>t, <3>1, CommandSeqs
        <3>3. Head(orders).call \in Calls
            BY <3>1, <3>2 DEF Commands
        <3>4. /\ calls[Head(orders).call].st # "idle"
              /\ Head(orders).ports = calls[Head(orders).call].ports
            BY <3>1, <3>2 DEF Owned, Asked
        <3> QED BY <3>1, <3>3, <3>4, OwnedAdd, ConstantsAssumption
    <2>2. CASE GrantDestroy \/ RefuseCreate \/ RefuseDestroy
        <3>1. /\ orders # <<>> /\ orders' \in {orders, Tail(orders)}
              /\ maker' = maker /\ ring' = ring
              /\ \A id \in Ids : world'[id] # NoObj =>
                    world[id] # NoObj /\ world'[id] = world[id]
            BY <1>t, <2>2
            DEF GrantDestroy, DaemonRemove, RefuseCreate, RefuseDestroy, vars,
                daemonVars
        <3>2. \A i \in DOMAIN orders' : \E j \in DOMAIN orders : orders'[i] = orders[j]
            <4>1. CASE orders' = orders
                BY <4>1
            <4>2. CASE orders' = Tail(orders)
                BY <1>t, <3>1, <4>2, CommandSeqs
            <4> QED BY <3>1, <4>1, <4>2
        <3> QED BY <1>s, <3>1, <3>2, OwnedKeep
    <2> QED BY <1>3, <2>1, <2>2 DEF OrderStep
<1>4. CASE CallStep
    <2>1. UNCHANGED <<maker, orders, world>>
        BY <1>4
        DEF CallStep, CallCreate, CallDestroy, CallRefused, Accept, commandVars,
            vars, daemonVars
    <2>2. \A i \in DOMAIN ring' : \/ \E j \in DOMAIN ring : ring'[i] = ring[j]
                                  \/ Asked(ring'[i], calls')
        <3>1. ASSUME NEW x \in Commands, Accept(x), Asked(x, calls')
              PROVE  \A i \in DOMAIN ring' :
                        \/ \E j \in DOMAIN ring : ring'[i] = ring[j]
                        \/ Asked(ring'[i], calls')
            <4>1. ring' = Append(ring, x)
                BY <3>1 DEF Accept
            <4>2. \A i \in DOMAIN ring' :
                     (i \in DOMAIN ring /\ ring'[i] = ring[i]) \/ ring'[i] = x
                BY <1>t, <4>1, CommandSeqs
            <4> QED BY <3>1, <4>2
        <3>2. ASSUME NEW c \in Calls, NEW p \in Ids, NEW q \in Ids,
                     CallCreate(c, {p, q})
              PROVE  \E x \in Commands : Accept(x) /\ Asked(x, calls')
            <4> DEFINE x == [op |-> "create", call |-> c, ports |-> {p, q}]
            <4>1. x \in Commands
                BY DEF Commands
            <4>2. /\ calls[c] \in CallStates
                  /\ calls' = [calls EXCEPT ![c] =
                                  [calls[c] EXCEPT !.st = "waiting", !.ports = {p, q}]]
                  /\ calls \in [Calls -> CallStates]
                <5>1. calls \in [Calls -> CallStates]
                    BY DEF LinkTypeOK
                <5>2. calls' = [calls EXCEPT ![c] =
                                  [calls[c] EXCEPT !.st = "waiting", !.ports = {p, q}]]
                    BY <3>2 DEF CallCreate
                <5> QED BY <5>1, <5>2
            <4>3. calls'[c].st = "waiting" /\ calls'[c].ports = {p, q}
                <5> DEFINE new == [calls[c] EXCEPT !.st = "waiting", !.ports = {p, q}]
                <5>1. new.st = "waiting" /\ new.ports = {p, q}
                    BY <4>2, SetPorts
                <5> HIDE DEF new
                <5> QED BY <4>2, <5>1
            <4>4. Asked(x, calls')
                BY <4>3 DEF Asked
            <4>5. Accept(x)
                BY <3>2 DEF CallCreate
            <4> QED BY <4>1, <4>4, <4>5
        <3>3. ASSUME NEW c \in Calls, NEW id \in Ids, CallDestroy(c, id)
              PROVE  \E x \in Commands : Accept(x) /\ Asked(x, calls')
            <4> DEFINE x == [op |-> "destroy", call |-> c, link |-> id]
            <4>1. x \in Commands /\ Asked(x, calls') /\ Accept(x)
                BY <3>3 DEF Commands, Asked, CallDestroy
            <4> QED BY <4>1
        <3>4. ASSUME NEW c \in Calls, CallRefused(c) PROVE ring' = ring
            BY <3>4 DEF CallRefused, commandVars
        <3> QED BY <1>4, <3>1, <3>2, <3>3, <3>4 DEF CallStep
    <2> QED BY <1>s, <2>1, <2>2, OwnedKeep
<1>5. CASE Serve
    <2>1. /\ ring # <<>> /\ ring' = Tail(ring)
          /\ orders' \in {orders, Append(orders, Head(ring))}
          /\ UNCHANGED <<maker, world>>
        BY <1>5 DEF Serve, vars, daemonVars
    <2>2. /\ \A i \in DOMAIN ring' : \E j \in DOMAIN ring : ring'[i] = ring[j]
          /\ \A i \in DOMAIN orders' :
                \/ \E j \in DOMAIN orders : orders'[i] = orders[j]
                \/ \E j \in DOMAIN ring : orders'[i] = ring[j]
        <3>1. Head(ring) \in Commands /\ Head(ring) = ring[1] /\ 1 \in DOMAIN ring
            BY <1>t, <2>1, CommandSeqs
        <3>2. \A i \in DOMAIN ring' : \E j \in DOMAIN ring : ring'[i] = ring[j]
            BY <1>t, <2>1, CommandSeqs
        <3>3. CASE orders' = orders
            BY <3>2, <3>3
        <3>4. CASE orders' = Append(orders, Head(ring))
            <4>1. \A i \in DOMAIN orders' :
                     \/ i \in DOMAIN orders /\ orders'[i] = orders[i]
                     \/ orders'[i] = Head(ring)
                BY <1>t, <3>1, <3>4, CommandSeqs
            <4> QED BY <3>1, <3>2, <4>1
        <3> QED BY <2>1, <3>3, <3>4
    <2> QED BY <1>s, <2>1, <2>2, OwnedKeep
<1>6. CASE EndDispose
    BY <1>6, <1>s, OwnedKeep DEF EndDispose, vars, daemonVars
<1>7. CASE UNCHANGED <<ring, orders, maker, world>>
    BY <1>7, <1>s, OwnedKeep
<1>8. CASE \/ DeliverToAll \/ \E c \in Calls : Timeout(c)
           \/ BeginDispose
    <2>1. UNCHANGED <<ring, orders, maker, world>>
        BY <1>8
        DEF DeliverToAll, Deliver, Timeout, BeginDispose, vars, daemonVars, commandVars
    <2> QED BY <1>7, <2>1
<1>9. CASE LoopStep \/ AnswerStep \/ ConnectStep \/ RefreshStep
    <2>1. UNCHANGED <<ring, orders, maker>>
        BY <1>9 DEF LoopStep, AnswerStep, ConnectStep, RefreshStep, Quiet, commandVars
    <2>2. world' = world
        <3>1. CASE Loop
            BY <3>1, LoopCases DEF daemonVars
        <3> QED
            BY <1>9, <3>1
            DEF LoopStep, AnswerStep, ConnectStep, RefreshStep, DaemonAnswer,
                DaemonBind, DaemonSync, Connect, StartRound1, StartRound2,
                StartRound, FinishConnect, TakeFirstSnapshot, TakeSnapshot,
                AssignGraph, daemonVars
    <2> QED BY <1>7, <2>1, <2>2
<1>10. CASE UNCHANGED linkVars
    BY <1>7, <1>10 DEF linkVars, commandVars, vars, daemonVars
<1> QED
    BY <1>1, <1>2, <1>3, <1>4, <1>5, <1>6, <1>8, <1>9, <1>10 DEF LinkNext

-----------------------------------------------------------------------------
\* The answer on the way

\* The LinkAdded that ends the call is in the port.
Promised(c, id) ==
    \E i \in DOMAIN port :
        /\ port[i].type = "LinkAdded" /\ port[i].id = id
        /\ port[i].obj.refs = calls[c].ports

AnswerInv == Unannounced /\ Current /\ Owned /\ AnswerOnTheWay

\* A step that leaves the port and the infos applied alone owes no new answer.
LEMMA DueKeep ==
    ASSUME AnswerOnTheWay, PostResolved, NEW c \in Calls, NEW id \in Ids,
           Due(c, id)', UNCHANGED <<port, announced>>,
           calls'[c] = calls[c], maker'[id] = maker[id], world[id] # NoObj,
           \A i \in DOMAIN wire : i \in DOMAIN wire' /\ wire'[i] = wire[i]
    PROVE  Promised(c, id)'
<1>1. Due(c, id)
    BY DEF Due
<1>2. Promised(c, id)
    BY <1>1 DEF AnswerOnTheWay, Promised
<1> QED BY <1>2 DEF Promised

\* The daemon's steps only add to the wire, and an object they add is not due
\* before its global has been handled.
LEMMA DueDaemon ==
    ASSUME TypeOK, AnswerOnTheWay, PostResolved,
           NEW c \in Calls, NEW id \in Ids, Due(c, id)',
           Daemon \/ DaemonAnswer, calls'[c] = calls[c],
           world[id] # NoObj => maker'[id] = maker[id]
    PROVE  Promised(c, id)'
<1>t. /\ wire \in Seq(Messages) /\ world \in [Ids -> Objects \union {NoObj}]
    BY DEF TypeOK, ObjectMap
<1>1. UNCHANGED <<port, announced>>
    BY DEF Daemon, DaemonAnswer, DaemonAdd, DaemonRemove, DaemonChange,
           DaemonBind, DaemonSync, monitorVars
<1>2. wire' = wire \/ \E m : wire' = Append(wire, m)
    BY DEF Daemon, DaemonAnswer, DaemonAdd, DaemonRemove, DaemonChange,
           DaemonBind, DaemonSync
<1>3. \A i \in DOMAIN wire : i \in DOMAIN wire' /\ wire'[i] = wire[i]
    <2>1. ASSUME NEW m, wire' = Append(wire, m)
          PROVE  \A i \in DOMAIN wire : i \in DOMAIN wire' /\ wire'[i] = wire[i]
        <3>1. wire \in Seq(Messages \union {m})
            BY <1>t
        <3> QED BY <2>1, <3>1
    <2> QED BY <1>2, <2>1
<1>4. world[id] # NoObj
    <2>1. ASSUME NEW entry \in Catalog, DaemonAdd(entry[1], entry[2]),
                 entry[1] = id
          PROVE  FALSE
        <3> DEFINE m == Global(entry[1], gen[entry[1]] + 1, entry[2])
        <3>1. wire' = Append(wire, m)
            BY <2>1 DEF DaemonAdd
        <3>2. wire \in Seq(Messages \union {m})
            BY <1>t
        <3>3. Len(wire) + 1 \in DOMAIN wire' /\ wire'[Len(wire) + 1] = m
            BY <3>1, <3>2
        <3>4. m.op = "global" /\ m.id = id
            BY <2>1 DEF Global
        <3> QED BY <3>3, <3>4 DEF Due
    <2>2. ASSUME NEW entry \in Catalog, DaemonAdd(entry[1], entry[2]),
                 entry[1] # id
          PROVE  world'[id] = world[id]
        BY <1>t, <2>2, ConstantsAssumption DEF DaemonAdd
    <2>3. ASSUME NEW k \in Ids, DaemonRemove(k)
          PROVE  world'[id] = NoObj \/ world'[id] = world[id]
        BY <1>t, <2>3 DEF DaemonRemove
    <2>4. ASSUME NEW k \in Ids, NEW st \in States, NEW n \in 0 .. MaxChanges,
                 DaemonChange(k, st, n)
          PROVE  world[id] # NoObj \/ world'[id] = world[id]
        <3> DEFINE new == [world[k] EXCEPT !.st = st, !.props = n]
        <3>1. world[k] # NoObj /\ world' = [world EXCEPT ![k] = new]
            BY <2>4 DEF DaemonChange
        <3> HIDE DEF new
        <3> QED BY <1>t, <3>1
    <2>5. world'[id] # NoObj
        BY DEF Due
    <2>6. CASE DaemonAnswer
        BY <2>5, <2>6 DEF DaemonAnswer, DaemonBind, DaemonSync, daemonVars
    <2>7. CASE \E entry \in Catalog : DaemonAdd(entry[1], entry[2])
        BY <2>1, <2>2, <2>5, <2>7
    <2>8. CASE \E k \in Ids : DaemonRemove(k)
        BY <2>3, <2>5, <2>8
    <2>9. CASE \E k \in Ids, st \in States, n \in 0 .. MaxChanges :
                  DaemonChange(k, st, n)
        BY <2>4, <2>5, <2>9
    <2> QED BY <2>5, <2>6, <2>7, <2>8, <2>9 DEF Daemon
<1> QED BY <1>1, <1>3, <1>4, DueKeep

\* The client's loop: what it announces to the program it posts.
LEMMA DueLoop ==
    ASSUME TypeOK, AnswerInv, PostResolved, NEW c \in Calls, NEW id \in Ids,
           Due(c, id)', Loop, UNCHANGED <<calls, maker>>
    PROVE  Promised(c, id)'
<1>1. /\ wire \in Seq(Messages) /\ wire # <<>> /\ wire' = Tail(wire)
      /\ world' = world /\ Head(wire) = wire[1] /\ 1 \in DOMAIN wire
    BY LoopCases DEF daemonVars
<1>2. /\ calls[c].st = "waiting" /\ world[id] # NoObj /\ maker[id] = c
      /\ <<"link", id>> \in announced'
      /\ \A i \in DOMAIN Tail(wire) :
            ~ (Tail(wire)[i].op = "global" /\ Tail(wire)[i].id = id)
    BY <1>1 DEF Due
<1>3. world[id].kind = "link" /\ world[id].refs = calls[c].ports
    BY <1>2 DEF AnswerInv, Owned
<1>4. \A j \in DOMAIN wire : j > 1 => ~ (wire[j].op = "global" /\ wire[j].id = id)
    <2> SUFFICES ASSUME NEW j \in DOMAIN wire, j > 1
                 PROVE  ~ (wire[j].op = "global" /\ wire[j].id = id)
        OBVIOUS
    <2>1. j - 1 \in DOMAIN Tail(wire) /\ Tail(wire)[j - 1] = wire[j]
        BY <1>1
    <2> QED BY <1>2, <2>1
<1>5. LastOf(wire, 1, id) /\ UpToDate(wire, 1, world)
    BY <1>1, <1>4 DEF LastOf, AnswerInv, Current
<1>6. ~ (Head(wire).op = "global" /\ Head(wire).id = id)
    <2> SUFFICES ASSUME Head(wire).op = "global", Head(wire).id = id
                 PROVE  FALSE
        OBVIOUS
    <2>1. Head(wire).obj.kind = "link"
        BY <1>1, <1>2, <1>3, <1>5 DEF UpToDate
    <2>2. OnGlobal(id, Head(wire).gen, Head(wire).obj)
        BY <2>1, LoopCases DEF Kinds
    <2>3. <<"link", id>> \notin announced'
        BY <2>1, <2>2 DEF OnGlobal
    <2> QED BY <1>2, <2>3
<1>7. CASE <<"link", id>> \in announced
    <2>1. Due(c, id)
        <3>1. \A i \in DOMAIN wire : wire[i].op = "global" => wire[i].id # id
            BY <1>1, <1>4, <1>6
        <3> QED BY <1>2, <1>7, <3>1 DEF Due
    <2>2. PICK i \in DOMAIN port : /\ port[i].type = "LinkAdded" /\ port[i].id = id
                                   /\ port[i].obj.refs = calls[c].ports
        BY <2>1 DEF AnswerInv, AnswerOnTheWay
    <2>3. i \in DOMAIN port' /\ port'[i] = port[i]
        BY LoopPosts
    <2> QED BY <2>2, <2>3 DEF Promised
<1>8. CASE <<"link", id>> \notin announced
    <2>1. /\ Head(wire).op = "info" /\ Head(wire).id = id
          /\ \E i \in DOMAIN port' :
                /\ port'[i].type = "LinkAdded" /\ port'[i].id = id
                /\ port'[i].obj.refs = Head(wire).refs
        BY <1>2, <1>8, LinkAnnounced DEF AnswerInv
    <2>2. Head(wire).refs = calls[c].ports
        BY <1>1, <1>2, <1>3, <1>5, <2>1 DEF UpToDate
    <2> QED BY <2>1, <2>2 DEF Promised
<1> QED BY <1>7, <1>8

\* The isolate handles an event: the call it answers no longer waits.
LEMMA DueDeliver ==
    ASSUME TypeOK, LinkTypeOK, AnswerInv, PostResolved, DeliverToAll,
           NEW c \in Calls, NEW id \in Ids, Due(c, id)'
    PROVE  Promised(c, id)'
<1>1. /\ port \in Seq(Events) /\ port # <<>> /\ port' = Tail(port)
      /\ UNCHANGED <<announced, wire, world, maker>>
      /\ Head(port) = port[1]
    BY DEF DeliverToAll, Deliver, TypeOK, monitorVars, daemonVars
<1> DEFINE e == Head(port)
<1>2. calls' = [d \in Calls |->
          IF d \in Matching(e) /\ calls[d].st = "waiting"
          THEN [calls[d] EXCEPT !.st = "returned", !.links = {e.id}]
          ELSE calls[d]]
    BY DEF DeliverToAll, Answer
<1>3. calls'[c].st = "waiting"
    BY DEF Due
<1>4. ~ (c \in Matching(e) /\ calls[c].st = "waiting")
    <2> SUFFICES ASSUME c \in Matching(e), calls[c].st = "waiting" PROVE FALSE
        OBVIOUS
    <2>1. calls[c] \in CallStates /\ e.id \in Ids
        BY <1>1 DEF LinkTypeOK, Events
    <2>2. calls'[c] = [calls[c] EXCEPT !.st = "returned", !.links = {e.id}]
        BY <1>2
    <2>3. calls'[c].st = "returned"
        BY <2>1, <2>2, SetLinks
    <2> QED BY <1>3, <2>3
<1>5. calls'[c] = calls[c] /\ calls[c].st = "waiting"
    BY <1>2, <1>3, <1>4
<1>6. Due(c, id)
    BY <1>1, <1>5 DEF Due
<1>7. PICK i \in DOMAIN port : /\ port[i].type = "LinkAdded" /\ port[i].id = id
                               /\ port[i].obj.refs = calls[c].ports
    BY <1>6 DEF AnswerInv, AnswerOnTheWay
<1>8. i # 1
    <2>1. c \in listeners
        BY <1>5 DEF LinkTypeOK
    <2>2. i = 1 => c \in Matching(e)
        BY <1>1, <1>7, <2>1 DEF Matching
    <2> QED BY <1>4, <1>5, <2>2
<1>9. i - 1 \in DOMAIN port' /\ port'[i - 1] = port[i]
    BY <1>1, <1>7, <1>8
<1> QED BY <1>5, <1>7, <1>9 DEF Promised

\* A call that waits after a step waited before it, or is being made.
LEMMA StillWaiting ==
    ASSUME LinkTypeOK, CallsStep, NEW c \in Calls, calls'[c].st = "waiting"
    PROVE  calls'[c] = calls[c] \/ calls[c].st = "idle"
BY DEF CallsStep, Outcomes

\* Every step keeps the answer on its way.
LEMMA AnswerInd ==
    TypeOK /\ LinkTypeOK /\ AnswerInv /\ [LinkNext]_linkVars => AnswerInv'
<1> SUFFICES ASSUME TypeOK, LinkTypeOK, AnswerInv, [LinkNext]_linkVars
             PROVE  AnswerInv'
    OBVIOUS
<1>1. Unannounced' /\ Current' /\ Owned'
    BY MirrorStep, UnannouncedInd, CurrentInd, OwnedInd DEF AnswerInv
<1> SUFFICES ASSUME PostResolved, NEW c \in Calls, NEW id \in Ids, Due(c, id)'
             PROVE  Promised(c, id)'
    BY <1>1 DEF AnswerInv, AnswerOnTheWay, Promised
<1>2. calls'[c].st = "waiting" /\ CallsStep /\ world'[id] # NoObj /\ maker'[id] = c
    BY LinkTypeInd DEF Due
<1>o. AnswerOnTheWay
    BY DEF AnswerInv
<1>3. CASE UNCHANGED <<port, announced, world, wire, maker>>
    <2>1. calls[c].st # "idle"
        BY <1>2, <1>3 DEF AnswerInv, Owned
    <2>2. calls'[c] = calls[c]
        BY <1>2, <2>1, StillWaiting
    <2> QED BY <1>2, <1>3, <1>o, <2>2, DueKeep
<1>4. CASE DeliverToAll
    BY <1>4, DueDeliver
<1>5. CASE LoopStep
    BY <1>5, DueLoop DEF LoopStep, Quiet, callVars
<1>6. CASE AnswerStep
    BY <1>6, <1>o, DueDaemon DEF AnswerStep, Quiet, callVars
<1>7. CASE OtherChange
    <2>1. Daemon /\ UNCHANGED <<calls, maker>>
        BY <1>7 DEF OtherChange, Daemon, callVars
    <2> QED BY <1>o, <2>1, DueDaemon
<1>8. ASSUME NEW k \in Ids, NEW obj \in Objects, NEW by, DaemonAdd(k, obj),
             <<k, obj>> \in Catalog, Made(k, by), UNCHANGED calls
      PROVE  Promised(c, id)'
    <2>1. Daemon
        BY <1>8 DEF Daemon
    <2>2. world[id] # NoObj => maker'[id] = maker[id]
        BY <1>8 DEF DaemonAdd, Made, LinkTypeOK
    <2> QED BY <1>8, <1>o, <2>1, <2>2, DueDaemon
<1>9. ASSUME NEW entry \in Catalog
      PROVE  entry[1] \in Ids /\ entry[2] \in Objects /\ <<entry[1], entry[2]>> = entry
    BY ConstantsAssumption
<1>10. ASSUME NEW entry \in Catalog, OtherAdd(entry[1], entry[2])
       PROVE  Promised(c, id)'
    BY <1>8, <1>9, <1>10 DEF OtherAdd, callVars
<1>11. CASE OrderStep
    <2>1. ASSUME NEW entry \in Catalog, GrantCreate(entry[1], entry[2])
          PROVE  Promised(c, id)'
        BY <1>8, <1>9, <2>1 DEF GrantCreate, callVars
    <2>2. CASE GrantDestroy
        <3>1. Daemon /\ UNCHANGED <<calls, maker>>
            BY <2>2 DEF GrantDestroy, Daemon, callVars
        <3> QED BY <1>o, <3>1, DueDaemon
    <2>3. CASE RefuseCreate \/ RefuseDestroy
        BY <1>3, <2>3
        DEF RefuseCreate, RefuseDestroy, vars, monitorVars, daemonVars
    <2> QED BY <1>11, <2>1, <2>2, <2>3 DEF OrderStep
<1>12. CASE ConnectStep \/ RefreshStep
    <2>1. UNCHANGED <<port, announced, world, wire, maker>>
        BY <1>12
        DEF ConnectStep, RefreshStep, Quiet, Connect, StartRound1, StartRound2,
            StartRound, FinishConnect, TakeFirstSnapshot, TakeSnapshot,
            AssignGraph, monitorVars, daemonVars
    <2> QED BY <1>3, <2>1
<1>13. CASE \/ CallStep \/ Serve \/ \E d \in Calls : Timeout(d)
            \/ BeginDispose \/ EndDispose
    <2>1. UNCHANGED <<vars, maker>>
        BY <1>13
        DEF CallStep, CallCreate, CallDestroy, CallRefused, Accept, Serve, Timeout,
            BeginDispose, EndDispose
    <2>2. UNCHANGED <<port, announced, world, wire, maker>>
        BY <2>1 DEF vars, monitorVars, daemonVars
    <2> QED BY <1>3, <2>2
<1>14. CASE UNCHANGED linkVars
    BY <1>3, <1>14 DEF linkVars, vars, monitorVars, daemonVars
<1> QED
    BY <1>4, <1>5, <1>6, <1>7, <1>10, <1>11, <1>12, <1>13, <1>14 DEF LinkNext

\* The four together hold throughout.
LEMMA AnswerInvariant == LinkSpec => []AnswerInv
<1>1. LinkInit => AnswerInv
    BY CurrentInit, UnannouncedInit, OwnedInit
    DEF LinkInit, AnswerInv, AnswerOnTheWay, Due
<1>2. (TypeOK /\ LinkTypeOK) /\ AnswerInv /\ [LinkNext]_linkVars => AnswerInv'
    BY AnswerInd
<1> QED BY <1>1, <1>2, LinkTypes, PTL DEF LinkSpec

\* Whenever a link that was made for a call has been announced, the call has
\* ended or its LinkAdded is on the way to it: createLink may subscribe after
\* the push without looking at the graph.
THEOREM Answer_On_The_Way == LinkSpec => []AnswerOnTheWay
<1>1. AnswerInv => AnswerOnTheWay
    BY DEF AnswerInv
<1> QED BY <1>1, AnswerInvariant, PTL

\* With nothing under way between the daemon and the graph, no createLink is
\* waiting whose link is there: an answer may be late, but is never lost.
THEOREM No_Answer_Lost == LinkSpec => []NoAnswerLost
<1>1. TypeOK /\ RefsInv /\ IdleInv /\ AnswerInv => NoAnswerLost
    <2> SUFFICES ASSUME TypeOK, RefsInv, IdleInv, AnswerInv, GraphIdle, PostResolved,
                        NEW c \in Calls, NEW id \in Ids,
                        world[id] # NoObj, maker[id] = c, calls[c].st = "waiting"
                 PROVE  FALSE
        BY DEF NoAnswerLost
    <2>1. NativeIdle /\ DOMAIN port = {} /\ DOMAIN wire = {}
        BY DEF GraphIdle, NativeIdle
    <2>2. "link" \in Kinds /\ KindOf("link", id)
        BY DEF AnswerInv, Owned, KindOf, Kinds
    <2>3. <<"link", id>> \in announced
        BY <2>1, <2>2, IdleEntry
    <2>4. Due(c, id)
        BY <2>1, <2>3 DEF Due
    <2> QED BY <2>1, <2>4 DEF AnswerInv, AnswerOnTheWay
<1>2. IndInv => TypeOK
    BY DEF IndInv
<1> QED
    BY <1>1, <1>2, AnswerInvariant, MirrorInside, Inductive, RefsInvariant,
       IdleInvariant, PTL
=============================================================================
