----------------------- MODULE ClientLifecycleProofs -----------------------
(***************************************************************************)
(* Proofs about ClientLifecycle, for a ring of any size and any number of  *)
(* commands: types, the nesting of the objects, the listener hooks, what   *)
(* the PipeWire thread may rely on, that nothing is left behind, the ring  *)
(* as a queue, and that disconnect() does not wait in vain.                *)
(***************************************************************************)
EXTENDS ClientLifecycle, SequenceTheorems, TLAPS

-----------------------------------------------------------------------------
\* The inductive invariant

\* While connect() runs there is no thread and nothing is released; each
\* component comes with the others, and each hook with its object.
Connecting ==
    api = "connecting" =>
        /\ todo = <<>> /\ thread = "none" /\ "linkProxies" \notin alive
        /\ "source" \in alive => "monitor" \in alive
        /\ \A obj \in {"params", "links"} : obj \in alive <=> "monitor" \in alive
        /\ "registryHook" \in allocated => "monitor" \in alive
        /\ "proxyHooks" \in allocated => "proxies" \in alive

\* What a plan can destroy: nothing points to the proxies of links.
Ownable == DOMAIN Needs \ {"linkProxies"}

\* What connect() creates, proxies aside: they come and go with the daemon's
\* objects.
Built == Ownable \ {"proxies"}

\* It is all there as long as the thread may run.
Connected ==
    api \in {"open", "quitting", "joining"} => todo = <<>> /\ Built \subseteq alive

\* Otherwise it does not.
ThreadOver == api \in {"releasing", "gone"} => thread \in {"none", "exited"}

\* What there is and can be reached will be released, whatever needs it first, and a hook's
\* memory when it is out of its list.  The core's hook is left to the
\* client's own destructor.
Destroys(s, i, obj) == s[i] = <<"destroy", obj>>

ReleasedBy(s) ==
    /\ \A obj \in Owned : \E i \in DOMAIN s : Destroys(s, i, obj)
    /\ \A i, j \in DOMAIN s, x, y \in Ownable :
          Destroys(s, i, x) /\ Destroys(s, j, y) /\ x \in Needs[y] => j < i
    /\ \A h \in allocated \ {"coreHook"} : \E i \in DOMAIN s : s[i] = <<"free", h>>
    /\ \A h \in linked, i \in DOMAIN s : s[i] = <<"free", h>> =>
          \E j \in DOMAIN s : j < i /\ s[j] \in {<<"unlink", h>>,
                                                <<"destroy", HookOf[h]>>}

Releasing == api = "releasing" => ReleasedBy(todo)

Gone == api = "gone" => Owned = {} /\ allocated = {}

IndInv ==
    /\ TypeOK /\ Nested /\ HooksIntact
    /\ Connecting /\ Connected /\ ThreadOver /\ Releasing /\ Gone

-----------------------------------------------------------------------------
\* The plans

\* Where disconnect() destroys each object, and frees each hook.
DestroyedAt == [proxies |-> 2, monitor |-> 6, params |-> 7, links |-> 8,
                source |-> 9, registry |-> 10, core |-> 13, context |-> 14,
                loop |-> 15]

FreedAt == [proxyHooks |-> 3, registryHook |-> 5, coreHook |-> 12]

\* Two plans, one after the other.
LEMMA Joined ==
    ASSUME NEW s \in Seq(Steps), NEW t \in Seq(Steps)
    PROVE  /\ s \o t \in Seq(Steps) /\ Len(s \o t) = Len(s) + Len(t)
           /\ \A i \in 1 .. Len(s) : (s \o t)[i] = s[i]
           /\ \A i \in Len(s) + 1 .. Len(s) + Len(t) : (s \o t)[i] = t[i - Len(s)]
    OBVIOUS

\* disconnect(), step by step.
LEMMA Plan ==
    /\ DisconnectSteps \in Seq(Steps) /\ Len(DisconnectSteps) = 15
    /\ DisconnectSteps[1] = <<"unlink", "proxyHooks">>
    /\ DisconnectSteps[2] = <<"destroy", "proxies">>
    /\ DisconnectSteps[3] = <<"free", "proxyHooks">>
    /\ DisconnectSteps[4] = <<"unlink", "registryHook">>
    /\ DisconnectSteps[5] = <<"free", "registryHook">>
    /\ DisconnectSteps[6] = <<"destroy", "monitor">>
    /\ DisconnectSteps[7] = <<"destroy", "params">>
    /\ DisconnectSteps[8] = <<"destroy", "links">>
    /\ DisconnectSteps[9] = <<"destroy", "source">>
    /\ DisconnectSteps[10] = <<"destroy", "registry">>
    /\ DisconnectSteps[11] = <<"unlink", "coreHook">>
    /\ DisconnectSteps[12] = <<"free", "coreHook">>
    /\ DisconnectSteps[13] = <<"destroy", "core">>
    /\ DisconnectSteps[14] = <<"destroy", "context">>
    /\ DisconnectSteps[15] = <<"destroy", "loop">>
<1> DEFINE Front == << <<"unlink", "proxyHooks">>, <<"destroy", "proxies">>,
       <<"free", "proxyHooks">>, <<"unlink", "registryHook">>,
       <<"free", "registryHook">>, <<"destroy", "monitor">>,
       <<"destroy", "params">>, <<"destroy", "links">>, <<"destroy", "source">>,
       <<"destroy", "registry">>, <<"unlink", "coreHook">>,
       <<"free", "coreHook">>, <<"destroy", "core">> >>
<1>1. /\ \A obj \in DOMAIN Needs : <<"destroy", obj>> \in Steps
      /\ \A h \in DOMAIN HookOf : /\ <<"unlink", h>> \in Steps
                                  /\ <<"free", h>> \in Steps
    BY DEF Steps
<1>2. /\ DOMAIN Needs = {"loop", "context", "core", "registry", "monitor",
                         "proxies", "params", "links", "source", "linkProxies"}
      /\ DOMAIN HookOf = {"coreHook", "registryHook", "proxyHooks"}
    BY DEF Needs, HookOf
<1>3. Front \in Seq(Steps) /\ Len(Front) = 13
    BY <1>1, <1>2
<1>4. ReleaseContext \in Seq(Steps) /\ Len(ReleaseContext) = 2
    BY <1>1, <1>2 DEF ReleaseContext
<1>5. DisconnectSteps = Front \o ReleaseContext
    BY DEF DisconnectSteps
<1>6. /\ DisconnectSteps \in Seq(Steps) /\ Len(DisconnectSteps) = 15
      /\ \A i \in 1 .. 13 : DisconnectSteps[i] = Front[i]
      /\ \A i \in 14 .. 15 : DisconnectSteps[i] = ReleaseContext[i - 13]
    <2>1. PICK s \in Seq(Steps) : s = Front
        BY <1>3
    <2>2. PICK t \in Seq(Steps) : t = ReleaseContext
        BY <1>4
    <2>3. DisconnectSteps = s \o t /\ Len(s) = 13 /\ Len(t) = 2
        BY <1>3, <1>4, <1>5, <2>1, <2>2
    <2> HIDE DEF Front
    <2>4. /\ DisconnectSteps \in Seq(Steps) /\ Len(DisconnectSteps) = 15
          /\ \A i \in 1 .. 13 : DisconnectSteps[i] = s[i]
          /\ \A i \in 14 .. 15 : DisconnectSteps[i] = t[i - 13]
        <3>1. /\ s \o t \in Seq(Steps) /\ Len(s \o t) = Len(s) + Len(t)
              /\ \A i \in 1 .. Len(s) : (s \o t)[i] = s[i]
              /\ \A i \in Len(s) + 1 .. Len(s) + Len(t) : (s \o t)[i] = t[i - Len(s)]
            BY Joined
        <3>2. PICK u : u = s \o t
            OBVIOUS
        <3>3. /\ u \in Seq(Steps) /\ Len(u) = 13 + 2
              /\ \A i \in 1 .. 13 : u[i] = s[i]
              /\ \A i \in 13 + 1 .. 13 + 2 : u[i] = t[i - 13]
            BY <2>3, <3>1, <3>2, Zenon
        <3>4. 13 + 1 = 14 /\ 13 + 2 = 15 /\ u = DisconnectSteps
            BY <2>3, <3>2
        <3> QED BY <3>3, <3>4, Zenon
    <2> QED BY <2>1, <2>2, <2>4
<1>7. DisconnectSteps[14] = ReleaseContext[1] /\ DisconnectSteps[15] = ReleaseContext[2]
    BY <1>6
<1> QED BY <1>6, <1>7 DEF ReleaseContext

\* Every step of it that destroys or frees is where the tables say.
LEMMA PlanPlaces ==
    /\ \A i \in 1 .. 15, obj \in Ownable :
          Destroys(DisconnectSteps, i, obj) <=> i = DestroyedAt[obj]
    /\ \A i \in 1 .. 15, h \in DOMAIN HookOf :
          DisconnectSteps[i] = <<"free", h>> <=> i = FreedAt[h]
<1>1. \A i \in 1 .. 15 :
         \/ i = 1 \/ i = 2 \/ i = 3 \/ i = 4 \/ i = 5 \/ i = 6 \/ i = 7 \/ i = 8
         \/ i = 9 \/ i = 10 \/ i = 11 \/ i = 12 \/ i = 13 \/ i = 14 \/ i = 15
    OBVIOUS
<1>2. \A a, b, c, d : <<a, b>> = <<c, d>> <=> a = c /\ b = d
    OBVIOUS
<1>3. Ownable = {"loop", "context", "core", "registry", "monitor",
                 "proxies", "params", "links", "source"}
    BY DEF Ownable, Needs
<1>4. DOMAIN HookOf = {"coreHook", "registryHook", "proxyHooks"}
    BY DEF HookOf
<1>5. ASSUME NEW i \in 1 .. 15, NEW obj \in Ownable
      PROVE  Destroys(DisconnectSteps, i, obj) <=> i = DestroyedAt[obj]
    BY <1>1, <1>2, <1>3, Plan DEF Destroys, DestroyedAt
<1>6. ASSUME NEW i \in 1 .. 15, NEW h \in DOMAIN HookOf
      PROVE  DisconnectSteps[i] = <<"free", h>> <=> i = FreedAt[h]
    BY <1>1, <1>2, <1>4, Plan DEF FreedAt
<1> QED BY <1>5, <1>6

\* disconnect() releases all there can be, in an order that works.
LEMMA PlanReleases ==
    ASSUME alive \subseteq DOMAIN Needs, allocated \subseteq DOMAIN HookOf,
           linked \subseteq DOMAIN HookOf
    PROVE  ReleasedBy(DisconnectSteps)
<1>0. DOMAIN DisconnectSteps = 1 .. 15
    BY Plan
<1>1. \A obj \in Ownable : DestroyedAt[obj] \in 1 .. 15
    BY DEF DestroyedAt, Ownable, Needs
<1>2. \A h \in DOMAIN HookOf : FreedAt[h] \in 1 .. 15
    BY DEF FreedAt, HookOf
<1>3. \A x, y \in Ownable : x \in Needs[y] => DestroyedAt[y] < DestroyedAt[x]
    BY DEF DestroyedAt, Ownable, Needs
<1>4. ASSUME NEW h \in DOMAIN HookOf
      PROVE  \E j \in 1 .. 15 : j < FreedAt[h] /\ DisconnectSteps[j] = <<"unlink", h>>
    <2>1. h \in {"coreHook", "registryHook", "proxyHooks"}
        BY DEF HookOf
    <2>2. CASE h = "coreHook"
        <3>1. 11 \in 1 .. 15 /\ 11 < FreedAt[h]
            BY <2>2 DEF FreedAt
        <3> QED BY <2>2, <3>1, Plan
    <2>3. CASE h = "registryHook"
        <3>1. 4 \in 1 .. 15 /\ 4 < FreedAt[h]
            BY <2>3 DEF FreedAt
        <3> QED BY <2>3, <3>1, Plan
    <2>4. CASE h = "proxyHooks"
        <3>1. 1 \in 1 .. 15 /\ 1 < FreedAt[h]
            BY <2>4 DEF FreedAt
        <3> QED BY <2>4, <3>1, Plan
    <2> QED BY <2>1, <2>2, <2>3, <2>4
<1>5. \A obj \in Owned : \E i \in DOMAIN DisconnectSteps : Destroys(DisconnectSteps, i, obj)
    BY <1>0, <1>1, PlanPlaces DEF Owned, Ownable
<1>6. \A i, j \in DOMAIN DisconnectSteps, x, y \in Ownable :
         Destroys(DisconnectSteps, i, x) /\ Destroys(DisconnectSteps, j, y)
            /\ x \in Needs[y] => j < i
    BY <1>0, <1>3, PlanPlaces
<1>7. \A h \in allocated : \E i \in DOMAIN DisconnectSteps :
         DisconnectSteps[i] = <<"free", h>>
    BY <1>0, <1>2, PlanPlaces
<1>8. \A h \in linked, i \in DOMAIN DisconnectSteps :
         DisconnectSteps[i] = <<"free", h>> =>
            \E j \in DOMAIN DisconnectSteps :
               j < i /\ DisconnectSteps[j] = <<"unlink", h>>
    BY <1>0, <1>4, PlanPlaces
<1> QED BY <1>5, <1>6, <1>7, <1>8 DEF ReleasedBy

\* A step of a plan leaves the rest of it a plan for what is left, and breaks
\* no nesting and no hook.
LEMMA ReleaseStep ==
    ASSUME TypeOK, Nested, HooksIntact, ReleasedBy(todo), Release
    PROVE  /\ TypeOK' /\ Nested' /\ HooksIntact' /\ ReleasedBy(todo)'
<1> DEFINE step == todo[1][1]  what == todo[1][2]
<1>n. PICK n \in Nat : n = Len(todo)
    BY DEF TypeOK
<1>1. /\ n >= 1 /\ DOMAIN todo = 1 .. n /\ DOMAIN todo' = 1 .. n - 1
      /\ todo' \in Seq(Steps) /\ todo[1] \in Steps /\ Head(todo) = todo[1]
      /\ \A i \in 1 .. n - 1 : todo'[i] = todo[i + 1]
    BY <1>n DEF Release, TypeOK
<1>2. /\ alive' = (IF step = "destroy" THEN alive \ {what} ELSE alive)
      /\ allocated' = (IF step = "free" THEN allocated \ {what} ELSE allocated)
      /\ linked' = linked \ (IF step = "destroy" THEN HooksOf(what)
                             ELSE IF step = "unlink" THEN {what} ELSE {})
      /\ UNCHANGED <<api, connected, queueVars, loopVars, thread>>
    BY <1>1 DEF Release
<1>3. /\ todo[1] = <<step, what>>
      /\ \/ step = "destroy" /\ what \in DOMAIN Needs
         \/ step \in {"unlink", "free"} /\ what \in DOMAIN HookOf
    BY <1>1 DEF Steps
<1> HIDE DEF step, what
<1>4. alive' \subseteq alive /\ allocated' \subseteq allocated /\ linked' \subseteq linked
    BY <1>2
<1>5. TypeOK'
    BY <1>1, <1>2, <1>4 DEF TypeOK, queueVars, loopVars
<1>6. \A i \in 1 .. n : i = 1 \/ (i - 1 \in 1 .. n - 1 /\ todo'[i - 1] = todo[i])
    <2> SUFFICES ASSUME NEW i \in 1 .. n, i # 1
                 PROVE  i - 1 \in 1 .. n - 1 /\ todo'[i - 1] = todo[i]
        OBVIOUS
    <2>1. i - 1 \in 1 .. n - 1 /\ (i - 1) + 1 = i
        OBVIOUS
    <2> QED BY <1>1, <2>1
<1>7. 1 \in 1 .. n /\ \A i \in 1 .. n - 1 : i + 1 \in 1 .. n
    BY <1>1
<1>8. \A obj \in Owned' : \E i \in DOMAIN todo' : Destroys(todo', i, obj)
    <2> SUFFICES ASSUME NEW obj \in Owned'
                 PROVE  \E i \in 1 .. n - 1 : Destroys(todo', i, obj)
        BY <1>1
    <2>1. PICK i \in 1 .. n : Destroys(todo, i, obj)
        BY <1>1, <1>4 DEF ReleasedBy, Owned
    <2>2. i # 1
        BY <1>2, <1>3, <2>1 DEF Destroys, Owned
    <2>3. i - 1 \in 1 .. n - 1 /\ todo'[i - 1] = todo[i]
        BY <1>6, <2>2
    <2> QED BY <2>1, <2>3 DEF Destroys
<1>9. \A i, j \in DOMAIN todo', x, y \in Ownable :
         Destroys(todo', i, x) /\ Destroys(todo', j, y) /\ x \in Needs[y] => j < i
    <2> SUFFICES ASSUME NEW i \in 1 .. n - 1, NEW j \in 1 .. n - 1,
                        NEW x \in Ownable, NEW y \in Ownable,
                        Destroys(todo', i, x), Destroys(todo', j, y), x \in Needs[y]
                 PROVE  j < i
        BY <1>1
    <2>1. Destroys(todo, i + 1, x) /\ Destroys(todo, j + 1, y)
        BY <1>1 DEF Destroys
    <2>2. j + 1 < i + 1
        BY <1>1, <1>7, <2>1 DEF ReleasedBy
    <2> QED BY <2>2
<1>10. \A h \in allocated' \ {"coreHook"} : \E i \in DOMAIN todo' :
          todo'[i] = <<"free", h>>
    <2> SUFFICES ASSUME NEW h \in allocated', h # "coreHook"
                 PROVE  \E i \in 1 .. n - 1 : todo'[i] = <<"free", h>>
        BY <1>1
    <2>1. PICK i \in 1 .. n : todo[i] = <<"free", h>>
        BY <1>1, <1>4 DEF ReleasedBy
    <2>2. i # 1
        BY <1>2, <1>3, <2>1
    <2> QED BY <1>6, <2>1, <2>2
<1>11. \A h \in linked', i \in DOMAIN todo' : todo'[i] = <<"free", h>> =>
          \E j \in DOMAIN todo' : j < i /\ todo'[j] \in {<<"unlink", h>>,
                                                        <<"destroy", HookOf[h]>>}
    <2> SUFFICES ASSUME NEW h \in linked', NEW i \in 1 .. n - 1,
                        todo'[i] = <<"free", h>>
                 PROVE  \E j \in 1 .. n - 1 :
                           j < i /\ todo'[j] \in {<<"unlink", h>>,
                                                 <<"destroy", HookOf[h]>>}
        BY <1>1
    <2>1. h \in linked /\ h \in DOMAIN HookOf /\ todo[i + 1] = <<"free", h>>
        BY <1>1, <1>4 DEF TypeOK
    <2>2. PICK j \in 1 .. n : j < i + 1 /\ todo[j] \in {<<"unlink", h>>,
                                                       <<"destroy", HookOf[h]>>}
        BY <1>1, <1>7, <2>1 DEF ReleasedBy
    <2>3. j # 1
        BY <1>2, <1>3, <2>1, <2>2 DEF HooksOf
    <2>4. j - 1 \in 1 .. n - 1 /\ todo'[j - 1] = todo[j] /\ j - 1 < i
        BY <1>6, <2>2, <2>3
    <2> QED BY <2>2, <2>4
<1>12. ReleasedBy(todo)'
    BY <1>8, <1>9, <1>10, <1>11 DEF ReleasedBy, Destroys
<1>13. Nested'
    <2> SUFFICES ASSUME NEW y \in Owned', NEW x \in Needs[y]
                 PROVE  x \in alive'
        BY DEF Nested
    <2>0. y \in Owned /\ x \in alive /\ y \in Ownable
        BY <1>4 DEF Nested, TypeOK, Owned, Ownable
    <2>1. y \in Owned /\ x \in alive /\ y \in Ownable /\ x \in Ownable
        BY <2>0 DEF Ownable, Needs
    <2>2. CASE step = "destroy" /\ what = x
        <3>1. Destroys(todo, 1, x)
            BY <1>3, <2>2 DEF Destroys
        <3>2. PICK j \in 1 .. n : Destroys(todo, j, y)
            BY <1>1, <2>1 DEF ReleasedBy
        <3>3. j < 1
            BY <1>1, <1>7, <2>1, <3>1, <3>2 DEF ReleasedBy
        <3> QED BY <3>3
    <2> QED BY <1>2, <2>1, <2>2
<1>14. HooksIntact'
    <2> SUFFICES ASSUME NEW h \in linked'
                 PROVE  h \in allocated' /\ HookOf[h] \in alive'
        BY DEF HooksIntact
    <2>1. /\ h \in linked /\ h \in allocated /\ HookOf[h] \in alive
          /\ h \in DOMAIN HookOf
        BY <1>4 DEF HooksIntact, TypeOK
    <2>2. ~ (step = "destroy" /\ what = HookOf[h])
        BY <1>2, <2>1 DEF HooksOf
    <2>3. ~ (step = "free" /\ what = h)
        <3> SUFFICES ASSUME step = "free", what = h PROVE FALSE
            OBVIOUS
        <3>1. PICK j \in 1 .. n : j < 1
            BY <1>1, <1>3, <1>7, <2>1 DEF ReleasedBy
        <3> QED BY <3>1
    <2> QED BY <1>2, <2>1, <2>2, <2>3
<1> QED BY <1>5, <1>12, <1>13, <1>14

-----------------------------------------------------------------------------
\* The invariant is inductive

\* A client that pw_dart_connect has just made has nothing.
LEMMA InvInit == ASSUME Init PROVE IndInv
<1>1. TypeOK
    <2>1. todo \in Seq(Steps) /\ accepted \in Seq(Commands) /\ Len(accepted) = 0
        BY DEF Init
    <2>2. taken \in 0 .. Len(accepted) /\ Len(accepted) - taken <= Capacity
        BY <2>1, LifecycleAssumption DEF Init
    <2> QED BY <2>1, <2>2 DEF Init, TypeOK
<1>2. Nested /\ HooksIntact
    BY DEF Init, Nested, HooksIntact, Owned
<1>3. Connecting /\ Connected /\ ThreadOver /\ Releasing /\ Gone
    BY DEF Init, Connecting, Connected, ThreadOver, Releasing, Gone
<1> QED BY <1>1, <1>2, <1>3 DEF IndInv

\* A call of connect() that succeeds adds objects whose needs are met, and
\* hooks on objects that are there.
LEMMA CreateStep ==
    ASSUME NEW objs \in SUBSET DOMAIN Needs, NEW hooks \in SUBSET DOMAIN HookOf,
           IndInv, api = "connecting", Create(objs, hooks),
           \A obj \in objs : Needs[obj] \subseteq alive \union objs,
           \A h \in hooks : HookOf[h] \in alive \union objs,
           Connecting'
    PROVE  IndInv'
<1>1. TypeOK'
    BY DEF IndInv, TypeOK, Create, queueVars, loopVars
<1>2. Nested'
    BY DEF IndInv, Nested, Create, Owned
<1>3. HooksIntact'
    BY DEF IndInv, HooksIntact, Create
<1>4. Connected' /\ ThreadOver' /\ Releasing' /\ Gone'
    BY DEF Create, Connected, ThreadOver, Releasing, Gone
<1> QED BY <1>1, <1>2, <1>3, <1>4 DEF IndInv

\* A call that fails leaves with a plan for all there is.
LEMMA CreateFailsStep ==
    ASSUME NEW steps \in Seq(Steps), IndInv, api = "connecting",
           CreateFails(steps), ReleasedBy(steps)
    PROVE  IndInv'
<1>1. TypeOK'
    BY DEF IndInv, TypeOK, CreateFails, objectVars, queueVars, loopVars
<1>2. Nested' /\ HooksIntact'
    BY DEF IndInv, Nested, HooksIntact, CreateFails, objectVars, Owned
<1>3. thread' = "none" /\ api' = "releasing" /\ todo' = steps
    BY DEF IndInv, Connecting, CreateFails
<1>4. ReleasedBy(todo)'
    BY <1>3 DEF ReleasedBy, Destroys, CreateFails, objectVars, Owned
<1>5. Connecting' /\ Connected' /\ ThreadOver' /\ Releasing' /\ Gone'
    BY <1>3, <1>4 DEF Connecting, Connected, ThreadOver, Releasing, Gone
<1> QED BY <1>1, <1>2, <1>5 DEF IndInv

\* What can be there when one of the first four calls fails.
LEMMA BeforeMonitor ==
    ASSUME IndInv, api = "connecting"
    PROVE  /\ "loop" \notin alive => "context" \notin alive
           /\ "context" \notin alive => "core" \notin alive
           /\ "core" \notin alive => "registry" \notin alive
           /\ "registry" \notin alive =>
                 /\ alive \subseteq {"loop", "context", "core"}
                 /\ allocated \subseteq {"coreHook"}
<1>1. /\ alive \subseteq DOMAIN Needs /\ allocated \subseteq DOMAIN HookOf
      /\ \A obj \in alive : Needs[obj] \subseteq alive
      /\ "linkProxies" \notin alive
    BY DEF IndInv, TypeOK, Nested, Connecting, Owned
<1>2. DOMAIN Needs = {"loop", "context", "core", "registry", "monitor",
                      "proxies", "params", "links", "source", "linkProxies"}
    BY DEF Needs
<1>3. DOMAIN HookOf = {"coreHook", "registryHook", "proxyHooks"}
    BY DEF HookOf
<1>4. /\ "context" \in alive => "loop" \in alive
      /\ "core" \in alive => "context" \in alive
      /\ "registry" \in alive => "core" \in alive
      /\ "monitor" \in alive => "registry" \in alive
      /\ "proxies" \in alive => "monitor" \in alive
    BY <1>1 DEF Needs
<1>5. /\ "source" \in alive => "monitor" \in alive
      /\ "params" \in alive => "monitor" \in alive
      /\ "links" \in alive => "monitor" \in alive
      /\ "registryHook" \in allocated => "monitor" \in alive
      /\ "proxyHooks" \in allocated => "proxies" \in alive
    BY DEF IndInv, Connecting
<1>6. ASSUME "registry" \notin alive
      PROVE  alive \subseteq {"loop", "context", "core"} /\ allocated \subseteq {"coreHook"}
    <2>1. {"registry", "monitor", "proxies", "params", "links", "source"}
             \intersect alive = {}
        BY <1>4, <1>5, <1>6
    <2>2. {"registryHook", "proxyHooks"} \intersect allocated = {}
        BY <1>5, <2>1
    <2> QED BY <1>1, <1>2, <1>3, <2>1, <2>2
<1> QED BY <1>4, <1>6

\* A plan of destroy steps only, each object before what it needs, will do
\* when there is no hook but the core's.
LEMMA ShortPlan ==
    ASSUME NEW s \in Seq(Steps), allocated \subseteq {"coreHook"},
           \A i \in DOMAIN s : s[i][1] = "destroy",
           \A obj \in alive : \E i \in DOMAIN s : Destroys(s, i, obj),
           \A i, j \in DOMAIN s, x, y \in Ownable :
              Destroys(s, i, x) /\ Destroys(s, j, y) /\ x \in Needs[y] => j < i
    PROVE  ReleasedBy(s)
<1>1. \A h : \A i \in DOMAIN s : s[i] # <<"free", h>>
    OBVIOUS
<1> QED BY <1>1 DEF ReleasedBy, Owned

\* The steps of connect() that create, or fail to.
LEMMA CreateLoopStep == ASSUME IndInv, CreateLoop PROVE IndInv'
<1>1. api = "connecting" /\ "loop" \notin alive
    BY DEF CreateLoop, CanCreate
<1>2. CASE Create({"loop"}, {})
    <2>1. Connecting'
        BY <1>2, <1>1 DEF IndInv, Connecting, Create
    <2>2. \A obj \in {"loop"} : Needs[obj] \subseteq alive \union {"loop"}
        BY DEF Needs
    <2>3. {"loop"} \in SUBSET DOMAIN Needs /\ {} \in SUBSET DOMAIN HookOf
        BY DEF Needs
    <2> QED BY <1>1, <1>2, <2>1, <2>2, <2>3, CreateStep
<1>3. CASE CreateFails(<<>>)
    <2>1. alive = {} /\ allocated \subseteq {"coreHook"}
        BY <1>1, BeforeMonitor
    <2>2. <<>> \in Seq(Steps) /\ DOMAIN <<>> = {}
        OBVIOUS
    <2>3. ReleasedBy(<<>>)
        BY <2>1, <2>2, ShortPlan
    <2> QED BY <1>1, <1>3, <2>2, <2>3, CreateFailsStep
<1> QED BY <1>2, <1>3 DEF CreateLoop

\* pw_context_new.
LEMMA CreateContextStep == ASSUME IndInv, CreateContext PROVE IndInv'
<1>1. api = "connecting" /\ "context" \notin alive /\ "loop" \in alive
    BY DEF CreateContext, CanCreate, Needs
<1>2. CASE Create({"context"}, {})
    <2>1. Connecting'
        BY <1>2, <1>1 DEF IndInv, Connecting, Create
    <2>2. \A obj \in {"context"} : Needs[obj] \subseteq alive \union {"context"}
        BY <1>1 DEF Needs
    <2>3. {"context"} \in SUBSET DOMAIN Needs /\ {} \in SUBSET DOMAIN HookOf
        BY DEF Needs
    <2> QED BY <1>1, <1>2, <2>1, <2>2, <2>3, CreateStep
<1>3. CASE CreateFails(<<<<"destroy", "loop">>>>)
    <2>1. alive \subseteq {"loop"} /\ allocated \subseteq {"coreHook"}
        BY <1>1, BeforeMonitor
    <2>2. PICK s : s = <<<<"destroy", "loop">>>>
        OBVIOUS
    <2>3. <<"destroy", "loop">> \in Steps
        BY DEF Steps, Needs
    <2>4. s \in Seq(Steps) /\ DOMAIN s = {1} /\ s[1] = <<"destroy", "loop">>
        BY <2>2, <2>3
    <2>5. \A obj \in alive : \E i \in DOMAIN s : Destroys(s, i, obj)
        BY <2>1, <2>4 DEF Destroys
    <2>6. \A i, j \in DOMAIN s, x, y \in Ownable :
             Destroys(s, i, x) /\ Destroys(s, j, y) /\ x \in Needs[y] => j < i
        BY <2>4 DEF Destroys, Ownable, Needs
    <2>7. \A i \in DOMAIN s : s[i][1] = "destroy"
        BY <2>4
    <2>8. s \in Seq(Steps) /\ allocated \subseteq {"coreHook"}
        BY <2>1, <2>4
    <2>9. ReleasedBy(s)
        BY <2>5, <2>6, <2>7, <2>8, ShortPlan
    <2> QED BY <1>1, <1>3, <2>2, <2>4, <2>9, CreateFailsStep
<1> QED BY <1>2, <1>3 DEF CreateContext

\* pw_context_connect, and the core's listener.
LEMMA ConnectCoreStep == ASSUME IndInv, ConnectCore PROVE IndInv'
<1>1. api = "connecting" /\ "core" \notin alive /\ "context" \in alive
    BY DEF ConnectCore, CanCreate, Needs
<1>2. CASE Create({"core"}, {"coreHook"})
    <2>1. Connecting'
        BY <1>2, <1>1 DEF IndInv, Connecting, Create
    <2>2. \A obj \in {"core"} : Needs[obj] \subseteq alive \union {"core"}
        BY <1>1 DEF Needs
    <2>3. /\ {"core"} \in SUBSET DOMAIN Needs /\ {"coreHook"} \in SUBSET DOMAIN HookOf
          /\ HookOf["coreHook"] = "core"
        BY DEF Needs, HookOf
    <2> QED BY <1>1, <1>2, <2>1, <2>2, <2>3, CreateStep
<1>3. CASE CreateFails(ReleaseContext)
    <2>1. alive \subseteq {"loop", "context"} /\ allocated \subseteq {"coreHook"}
        BY <1>1, BeforeMonitor
    <2>2. PICK s : s = ReleaseContext
        OBVIOUS
    <2>3. <<"destroy", "context">> \in Steps /\ <<"destroy", "loop">> \in Steps
        BY DEF Steps, Needs
    <2>4. /\ s \in Seq(Steps) /\ DOMAIN s = {1, 2}
          /\ s[1] = <<"destroy", "context">> /\ s[2] = <<"destroy", "loop">>
        BY <2>2, <2>3 DEF ReleaseContext
    <2>5. \A obj \in alive : \E i \in DOMAIN s : Destroys(s, i, obj)
        BY <2>1, <2>4 DEF Destroys
    <2>6. \A i, j \in DOMAIN s, x, y \in Ownable :
             Destroys(s, i, x) /\ Destroys(s, j, y) /\ x \in Needs[y] => j < i
        BY <2>4 DEF Destroys, Ownable, Needs
    <2>7. \A i \in DOMAIN s : s[i][1] = "destroy"
        BY <2>4
    <2>8. s \in Seq(Steps) /\ allocated \subseteq {"coreHook"}
        BY <2>1, <2>4
    <2>9. ReleasedBy(s)
        BY <2>5, <2>6, <2>7, <2>8, ShortPlan
    <2> QED BY <1>1, <1>3, <2>2, <2>4, <2>9, CreateFailsStep
<1> QED BY <1>2, <1>3 DEF ConnectCore

\* pw_core_get_registry.
LEMMA GetRegistryStep == ASSUME IndInv, GetRegistry PROVE IndInv'
<1>1. api = "connecting" /\ "registry" \notin alive /\ "core" \in alive
    BY DEF GetRegistry, CanCreate, Needs
<1>2. CASE Create({"registry"}, {})
    <2>1. Connecting'
        BY <1>2, <1>1 DEF IndInv, Connecting, Create
    <2>2. \A obj \in {"registry"} : Needs[obj] \subseteq alive \union {"registry"}
        BY <1>1 DEF Needs
    <2>3. {"registry"} \in SUBSET DOMAIN Needs /\ {} \in SUBSET DOMAIN HookOf
        BY DEF Needs
    <2> QED BY <1>1, <1>2, <2>1, <2>2, <2>3, CreateStep
<1>3. CASE CreateFails(<<<<"destroy", "core">>>> \o ReleaseContext)
    <2>1. alive \subseteq {"loop", "context", "core"} /\ allocated \subseteq {"coreHook"}
        BY <1>1, BeforeMonitor
    <2>2. PICK s : s = <<<<"destroy", "core">>>> \o ReleaseContext
        OBVIOUS
    <2>3. /\ <<"destroy", "core">> \in Steps /\ <<"destroy", "context">> \in Steps
          /\ <<"destroy", "loop">> \in Steps
        BY DEF Steps, Needs
    <2>4. /\ s \in Seq(Steps) /\ DOMAIN s = {1, 2, 3} /\ s[1] = <<"destroy", "core">>
          /\ s[2] = <<"destroy", "context">> /\ s[3] = <<"destroy", "loop">>
        BY <2>2, <2>3 DEF ReleaseContext
    <2>5. \A obj \in alive : \E i \in DOMAIN s : Destroys(s, i, obj)
        BY <2>1, <2>4 DEF Destroys
    <2>6. \A i, j \in DOMAIN s, x, y \in Ownable :
             Destroys(s, i, x) /\ Destroys(s, j, y) /\ x \in Needs[y] => j < i
        BY <2>4 DEF Destroys, Ownable, Needs
    <2>7. \A i \in DOMAIN s : s[i][1] = "destroy"
        BY <2>4
    <2>8. s \in Seq(Steps) /\ allocated \subseteq {"coreHook"}
        BY <2>1, <2>4
    <2>9. ReleasedBy(s)
        BY <2>5, <2>6, <2>7, <2>8, ShortPlan
    <2> QED BY <1>1, <1>3, <2>2, <2>4, <2>9, CreateFailsStep
<1> QED BY <1>2, <1>3 DEF GetRegistry

\* The monitor with its listener, the other components, the event source, and
\* a proxy bound in a round of sync.
LEMMA CreateRestStep ==
    ASSUME IndInv, CreateComponents \/ AddEventSource \/ BindInConnect
    PROVE  IndInv'
<1>1. api = "connecting"
    BY DEF CreateComponents, AddEventSource, BindInConnect, CanCreate
<1>2. CASE CreateComponents
    <2>1. "registry" \in alive /\ Create({"monitor", "params", "links"}, {"registryHook"})
        BY <1>2 DEF CreateComponents, CanCreate, Needs
    <2>2. /\ \A obj \in {"monitor", "params", "links"} :
                Needs[obj] \subseteq alive \union {"monitor", "params", "links"}
          /\ \A h \in {"registryHook"} : HookOf[h] \in alive \union {"monitor", "params", "links"}
          /\ {"monitor", "params", "links"} \in SUBSET DOMAIN Needs
          /\ {"registryHook"} \in SUBSET DOMAIN HookOf
        BY <2>1 DEF Needs, HookOf
    <2>3. Connecting'
        BY <1>1, <2>1 DEF IndInv, Connecting, Create
    <2> QED BY <1>1, <2>1, <2>2, <2>3, CreateStep
<1>3. CASE AddEventSource
    <2>1. "loop" \in alive /\ "monitor" \in alive /\ Create({"source"}, {})
        BY <1>3 DEF AddEventSource, CanCreate, Needs
    <2>2. /\ \A obj \in {"source"} : Needs[obj] \subseteq alive \union {"source"}
          /\ {"source"} \in SUBSET DOMAIN Needs /\ {} \in SUBSET DOMAIN HookOf
        BY <2>1 DEF Needs
    <2>3. Connecting'
        BY <1>1, <2>1 DEF IndInv, Connecting, Create
    <2> QED BY <1>1, <2>1, <2>2, <2>3, CreateStep
<1>4. CASE BindInConnect
    <2>1. /\ {"registry", "monitor"} \subseteq alive
          /\ Create({"proxies"}, {"proxyHooks"})
        BY <1>4 DEF BindInConnect, CanCreate, Needs
    <2>2. /\ \A obj \in {"proxies"} : Needs[obj] \subseteq alive \union {"proxies"}
          /\ HookOf["proxyHooks"] = "proxies"
          /\ {"proxies"} \in SUBSET DOMAIN Needs
          /\ {"proxyHooks"} \in SUBSET DOMAIN HookOf
        BY <2>1 DEF Needs, HookOf
    <2>3. Connecting'
        BY <1>1, <2>1 DEF IndInv, Connecting, Create
    <2> QED BY <1>1, <2>1, <2>2, <2>3, CreateStep
<1> QED BY <1>2, <1>3, <1>4

\* connect() returns with everything built.
LEMMA StartThreadStep == ASSUME IndInv, StartThread PROVE IndInv'
<1>1. /\ api = "connecting" /\ "source" \in alive
      /\ api' = "open" /\ thread' = "started" /\ todo' = todo
      /\ UNCHANGED <<objectVars, queueVars, loopVars>>
    BY DEF StartThread
<1>2. TypeOK'
    BY <1>1 DEF StartThread, IndInv, TypeOK, objectVars, queueVars, loopVars
<1>3. Nested' /\ HooksIntact'
    BY <1>1 DEF IndInv, Nested, HooksIntact, objectVars, Owned
<1>4. todo' = <<>> /\ "monitor" \in alive /\ "params" \in alive /\ "links" \in alive
    BY <1>1 DEF IndInv, Connecting
<1>5. \A obj \in alive : Needs[obj] \subseteq alive
    BY <1>1 DEF IndInv, Nested, Connecting, Owned
<1>6. "registry" \in alive
    BY <1>4, <1>5 DEF Needs
<1>7. "core" \in alive
    BY <1>5, <1>6 DEF Needs
<1>8. "context" \in alive
    BY <1>5, <1>7 DEF Needs
<1>9. "loop" \in alive
    BY <1>5, <1>8 DEF Needs
<1>10. Built \subseteq alive
    BY <1>1, <1>4, <1>6, <1>7, <1>8, <1>9 DEF Built, Ownable, Needs
<1>11. Connecting' /\ Connected' /\ ThreadOver' /\ Releasing' /\ Gone'
    BY <1>1, <1>4, <1>10 DEF Connecting, Connected, ThreadOver, Releasing, Gone, objectVars
<1> QED BY <1>2, <1>3, <1>11 DEF IndInv

\* A call that touches neither object nor plan, on a client that is open or
\* becomes so no longer.
LEMMA OpenStep ==
    ASSUME IndInv, TypeOK', api \in {"open", "quitting", "joining"},
           api' \in {"open", "quitting", "joining"}, UNCHANGED <<todo, objectVars>>
    PROVE  IndInv'
<1>1. Nested' /\ HooksIntact'
    BY DEF IndInv, Nested, HooksIntact, objectVars, Owned
<1>2. Connecting' /\ Connected' /\ ThreadOver' /\ Releasing' /\ Gone'
    BY DEF IndInv, Connecting, Connected, ThreadOver, Releasing, Gone, objectVars
<1> QED BY <1>1, <1>2 DEF IndInv

\* create_link, destroy_link, set_node_param; and disconnect() up to the join.
LEMMA IsolateStep ==
    ASSUME IndInv, (\E cmd \in Commands : Push(cmd)) \/ BeginDisconnect \/ InvokeQuit
    PROVE  IndInv'
<1>1. ASSUME NEW cmd \in Commands, Push(cmd) PROVE IndInv'
    <2>1. /\ accepted \in Seq(Commands) /\ taken \in 0 .. Len(accepted)
          /\ Len(accepted) - taken < Capacity /\ accepted' = Append(accepted, cmd)
          /\ taken' = taken
        BY <1>1 DEF Push, IndInv, TypeOK
    <2>2. accepted' \in Seq(Commands) /\ Len(accepted') = Len(accepted) + 1
        BY <2>1
    <2>3. taken' \in 0 .. Len(accepted') /\ Len(accepted') - taken' <= Capacity
        BY <2>1, <2>2, LifecycleAssumption
    <2>4. TypeOK'
        BY <1>1, <2>2, <2>3 DEF Push, IndInv, TypeOK, objectVars, loopVars
    <2> QED BY <1>1, <2>4, OpenStep DEF Push
<1>2. CASE BeginDisconnect
    <2>1. TypeOK'
        BY <1>2 DEF BeginDisconnect, IndInv, TypeOK, objectVars, queueVars, loopVars
    <2> QED BY <1>2, <2>1, OpenStep DEF BeginDisconnect
<1>3. CASE InvokeQuit
    <2>1. TypeOK'
        BY <1>3 DEF InvokeQuit, IndInv, TypeOK, objectVars, queueVars
    <2> QED BY <1>3, <2>1, OpenStep DEF InvokeQuit
<1> QED BY <1>1, <1>2, <1>3

\* The thread is joined, and everything is in the plan.
LEMMA JoinStep == ASSUME IndInv, Join PROVE IndInv'
<1>1. /\ api' = "releasing" /\ todo' = DisconnectSteps /\ thread' = "exited"
      /\ UNCHANGED <<objectVars, connected, queueVars, loopVars>>
    BY DEF Join
<1>2. TypeOK'
    BY <1>1, Plan DEF IndInv, TypeOK, objectVars, queueVars, loopVars
<1>3. Nested' /\ HooksIntact'
    BY <1>1 DEF IndInv, Nested, HooksIntact, objectVars, Owned
<1>4. ReleasedBy(DisconnectSteps)
    BY PlanReleases DEF IndInv, TypeOK
<1>5. ReleasedBy(todo)'
    BY <1>1, <1>4 DEF ReleasedBy, Destroys, objectVars, Owned
<1>6. Connecting' /\ Connected' /\ ThreadOver' /\ Releasing' /\ Gone'
    BY <1>1, <1>5 DEF Connecting, Connected, ThreadOver, Releasing, Gone
<1> QED BY <1>2, <1>3, <1>6 DEF IndInv

\* One statement of the release, and delete impl after the last.
LEMMA DisconnectStep == ASSUME IndInv, Release \/ Delete PROVE IndInv'
<1>1. CASE Release
    <2>1. api = "releasing" /\ api' = "releasing" /\ thread' = thread
        BY <1>1 DEF Release
    <2>2. TypeOK' /\ Nested' /\ HooksIntact' /\ ReleasedBy(todo)'
        BY <1>1, <2>1, ReleaseStep DEF IndInv, Releasing
    <2>3. Connecting' /\ Connected' /\ ThreadOver' /\ Releasing' /\ Gone'
        BY <2>1, <2>2 DEF IndInv, Connecting, Connected, ThreadOver, Releasing, Gone
    <2> QED BY <2>2, <2>3 DEF IndInv
<1>2. CASE Delete
    <2>1. /\ api = "releasing" /\ api' = "gone" /\ todo = <<>>
          /\ UNCHANGED <<todo, alive, linked, connected, queueVars, loopVars, thread>>
          /\ allocated' = allocated \ {"coreHook"}
        BY <1>2 DEF Delete
    <2>2. ReleasedBy(<<>>) /\ DOMAIN <<>> = {}
        BY <2>1 DEF IndInv, Releasing
    <2>3. Owned = {} /\ Owned' = {} /\ allocated' = {}
        BY <2>1, <2>2 DEF ReleasedBy, Owned
    <2>4. linked = {}
        BY <2>3 DEF IndInv, HooksIntact, TypeOK, HookOf, Owned
    <2>5. TypeOK'
        BY <2>1, <2>3 DEF IndInv, TypeOK, queueVars, loopVars
    <2>6. Nested' /\ HooksIntact'
        BY <2>1, <2>3, <2>4 DEF Nested, HooksIntact
    <2>7. Connecting' /\ Connected' /\ ThreadOver' /\ Releasing' /\ Gone'
        BY <2>1, <2>3 DEF IndInv, Connecting, Connected, ThreadOver, Releasing, Gone
    <2> QED BY <2>5, <2>6, <2>7 DEF IndInv
<1> QED BY <1>1, <1>2

\* A thread that is neither to come nor over belongs to a client that has
\* been connected and is not being released.
LEMMA ThreadRuns ==
    ASSUME IndInv, thread \notin {"none", "exited"}
    PROVE  api \in {"open", "quitting", "joining"}
    BY DEF IndInv, TypeOK, Connecting, ThreadOver

\* A handler binds a proxy: its objects are there, since the thread runs.
LEMMA BindProxyStep == ASSUME IndInv, BindProxy PROVE IndInv'
<1>1. /\ thread = "handling" /\ thread' = "dispatching"
      /\ UNCHANGED <<api, todo, connected, accepted, taken, loopVars>>
      /\ alive' = alive \union {"proxies"}
      /\ allocated' = allocated \union {"proxyHooks"}
      /\ linked' = linked \union {"proxyHooks"}
    BY DEF BindProxy, ThreadStep
<1>2. api \in {"open", "quitting", "joining"}
    BY <1>1, ThreadRuns
<1>3. "registry" \in alive /\ "monitor" \in alive
    BY <1>2 DEF IndInv, Connected, Built, Ownable, Needs
<1>4. TypeOK'
    <2>1. "proxies" \in DOMAIN Needs /\ "proxyHooks" \in DOMAIN HookOf
        BY DEF Needs, HookOf
    <2> QED BY <1>1, <2>1 DEF IndInv, TypeOK, loopVars
<1>5. Nested'
    <2>1. Needs["proxies"] \subseteq alive
        BY <1>3 DEF Needs
    <2> QED BY <1>1, <2>1 DEF IndInv, Nested, Owned
<1>6. HooksIntact'
    <2>1. HookOf["proxyHooks"] = "proxies"
        BY DEF HookOf
    <2> QED BY <1>1, <2>1 DEF IndInv, HooksIntact
<1>7. Connecting' /\ Connected' /\ ThreadOver' /\ Releasing' /\ Gone'
    BY <1>1, <1>2 DEF IndInv, Connecting, Connected, ThreadOver, Releasing, Gone
<1> QED BY <1>4, <1>5, <1>6, <1>7 DEF IndInv

\* A createLink makes a proxy that nobody keeps; what needs what is as before.
LEMMA ServeCommandStep == ASSUME IndInv, ServeCommand PROVE IndInv'
<1>1. /\ thread = "serving" /\ thread' = "draining"
      /\ UNCHANGED <<api, todo, connected, accepted, taken, loopVars, allocated,
                    linked>>
      /\ alive' \in {alive, alive \union {"linkProxies"}}
    BY DEF ServeCommand, ThreadStep
<1>2. api \in {"open", "quitting", "joining"}
    BY <1>1, ThreadRuns
<1>3. TypeOK'
    <2>1. "linkProxies" \in DOMAIN Needs
        BY DEF Needs
    <2> QED BY <1>1, <2>1 DEF IndInv, TypeOK, loopVars
<1>4. Nested' /\ HooksIntact'
    BY <1>1 DEF IndInv, Nested, HooksIntact, Owned
<1>5. Connecting' /\ Connected' /\ ThreadOver' /\ Releasing' /\ Gone'
    BY <1>1, <1>2 DEF IndInv, Connecting, Connected, ThreadOver, Releasing, Gone
<1> QED BY <1>3, <1>4, <1>5 DEF IndInv

\* The other steps of the thread, and a signal, leave the objects alone.
LEMMA LoopStep ==
    ASSUME IndInv, UNCHANGED <<api, todo, objectVars>>, TypeOK',
           thread' = thread \/ thread \notin {"none", "exited"}
    PROVE  IndInv'
<1>1. Nested' /\ HooksIntact'
    BY DEF IndInv, Nested, HooksIntact, objectVars, Owned
<1>2. Connecting' /\ Connected' /\ Gone'
    BY ThreadRuns DEF IndInv, Connecting, Connected, Gone, objectVars, Owned
<1>3. ThreadOver'
    BY ThreadRuns DEF IndInv, ThreadOver
<1>4. Releasing'
    BY DEF IndInv, Releasing, ReleasedBy, Destroys, objectVars, Owned
<1> QED BY <1>1, <1>2, <1>3, <1>4 DEF IndInv

\* The steps of the thread, and a signal.
LEMMA ThreadInv == ASSUME IndInv, Thread \/ SignalLoop PROVE IndInv'
<1>1. CASE RunLoop \/ EnterLoop \/ HandleEvent \/ HandlerDone \/ RunQuit
              \/ IterationOver \/ WakeUp
    <2>1. /\ UNCHANGED <<api, todo, objectVars, connected, queueVars>>
          /\ thread \notin {"none", "exited"}
          /\ thread' \in {"entering", "polling", "dispatching", "handling",
                          "draining", "exited"}
        BY <1>1 DEF RunLoop, EnterLoop, HandleEvent, HandlerDone, RunQuit,
                    IterationOver, WakeUp, ServeSource, ThreadStep, queueVars
    <2>2. /\ invoked' \in BOOLEAN /\ missed' \in BOOLEAN
          /\ signalled' \in BOOLEAN /\ running' \in BOOLEAN
        BY <1>1 DEF RunLoop, EnterLoop, HandleEvent, HandlerDone, RunQuit,
                    IterationOver, WakeUp, loopVars, IndInv, TypeOK
    <2>3. TypeOK'
        BY <2>1, <2>2 DEF IndInv, TypeOK, objectVars, queueVars
    <2> QED BY <2>1, <2>3, LoopStep
<1>2. CASE PopCommand
    <2>1. /\ taken < Len(accepted) /\ taken' = taken + 1 /\ accepted' = accepted
          /\ UNCHANGED <<api, todo, objectVars, connected, loopVars>>
          /\ thread = "draining" /\ thread' \in {"draining", "serving"}
        BY <1>2 DEF PopCommand, ThreadStep
    <2>2. taken' \in 0 .. Len(accepted') /\ Len(accepted') - taken' <= Capacity
        BY <2>1, LifecycleAssumption DEF IndInv, TypeOK
    <2>3. TypeOK'
        BY <2>1, <2>2 DEF IndInv, TypeOK, objectVars, loopVars
    <2> QED BY <2>1, <2>3, LoopStep
<1>3. CASE DrainOver
    <2>1. /\ UNCHANGED <<api, todo, objectVars, connected, queueVars, loopVars>>
          /\ thread = "draining" /\ thread' = "dispatching"
        BY <1>3 DEF DrainOver, ThreadStep, queueVars
    <2>2. TypeOK'
        BY <2>1 DEF IndInv, TypeOK, objectVars, queueVars, loopVars
    <2> QED BY <2>1, <2>2, LoopStep
<1>4. CASE SignalLoop
    <2>1. /\ UNCHANGED <<api, todo, objectVars, connected, queueVars, invoked,
                         missed, running, thread>>
          /\ signalled' = TRUE
        BY <1>4 DEF SignalLoop
    <2>2. TypeOK'
        BY <2>1 DEF IndInv, TypeOK, objectVars, queueVars
    <2> QED BY <2>1, <2>2, LoopStep
<1>5. CASE BindProxy
    BY <1>5, BindProxyStep
<1>6. CASE ServeCommand
    BY <1>6, ServeCommandStep
<1> QED BY <1>1, <1>2, <1>3, <1>4, <1>5, <1>6 DEF Thread, Drain

\* Every step keeps the invariant.
LEMMA InvStep == ASSUME IndInv, [Next]_vars PROVE IndInv'
<1>1. CASE Connect
    BY <1>1, CreateLoopStep, CreateContextStep, ConnectCoreStep, GetRegistryStep,
       CreateRestStep, StartThreadStep DEF Connect
<1>2. CASE (\E cmd \in Commands : Push(cmd)) \/ BeginDisconnect
    BY <1>2, IsolateStep
<1>3. CASE Disconnect
    BY <1>3, IsolateStep, JoinStep, DisconnectStep DEF Disconnect
<1>4. CASE Thread \/ SignalLoop
    BY <1>4, ThreadInv
<1>5. CASE UNCHANGED vars
    <2>1. TypeOK'
        BY <1>5 DEF IndInv, TypeOK, vars, objectVars, queueVars, loopVars
    <2> QED BY <1>5, <2>1, LoopStep DEF vars
<1> QED BY <1>1, <1>2, <1>3, <1>4, <1>5 DEF Next, Isolate

-----------------------------------------------------------------------------
\* The theorems

\* The invariant holds.
THEOREM Inductive_Invariant == Spec => []IndInv
<1>1. Init => IndInv
    BY InvInit
<1>2. IndInv /\ [Next]_vars => IndInv'
    BY InvStep
<1> QED BY <1>1, <1>2, PTL DEF Spec

\* Types, and the bound of the ring: the isolate pushes into it and the
\* thread drains it, and it never holds more than its capacity.
THEOREM TypeCorrect == Spec => []TypeOK
<1>1. IndInv => TypeOK
    BY DEF IndInv
<1> QED BY <1>1, Inductive_Invariant, PTL

\* No object the client keeps a pointer to outlives the one it was created
\* from, on any path of connect() and disconnect(), whatever is bound and
\* whatever links are asked for meanwhile.
THEOREM Objects_Nested == Spec => []Nested
<1>1. IndInv => Nested
    BY DEF IndInv
<1> QED BY <1>1, Inductive_Invariant, PTL

\* No hook is freed while it is in a listener list.
THEOREM Hooks_Intact == Spec => []HooksIntact
<1>1. IndInv => HooksIntact
    BY DEF IndInv
<1> QED BY <1>1, Inductive_Invariant, PTL

\* What the PipeWire thread uses is there, also when disconnect() overtakes
\* it between LinkManager's check of connected_ and the use of core_.
THEOREM Thread_Objects_Alive == Spec => []ThreadObjectsAlive
<1>1. IndInv => ThreadObjectsAlive
    <2> SUFFICES ASSUME IndInv, thread \notin {"none", "exited"}
                 PROVE  ThreadObjectsAlive
        BY DEF ThreadObjectsAlive
    <2>1. Built \subseteq alive
        BY ThreadRuns DEF IndInv, Connected
    <2> QED BY <2>1 DEF ThreadObjectsAlive, Built, Ownable, Needs
<1> QED BY <1>1, Inductive_Invariant, PTL

\* A deleted client leaves no hook and no object behind except the proxies of
\* the links it asked for, which nothing destroys, and its thread is over.
THEOREM Nothing_Left == Spec => []NothingLeft
<1>1. IndInv => NothingLeft
    BY DEF IndInv, Gone, ThreadOver, NothingLeft
<1> QED BY <1>1, Inductive_Invariant, PTL

\* The isolate and the thread use the ring as the queue that SpscQueue
\* implements: what they see of it is a behaviour of BoundedFifo.
Fifo == INSTANCE BoundedFifo WITH
            Items <- Commands, pushed <- accepted,
            popped <- SubSeq(accepted, 1, taken)

\* What has been taken is a prefix of what was accepted: a push leaves it, a
\* pop adds the next command.
LEMMA Prefixes ==
    ASSUME NEW s \in Seq(Commands), NEW k \in 0 .. Len(s)
    PROVE  /\ Len(SubSeq(s, 1, k)) = k
           /\ \A cmd \in Commands : SubSeq(Append(s, cmd), 1, k) = SubSeq(s, 1, k)
           /\ k < Len(s) => SubSeq(s, 1, k + 1) = Append(SubSeq(s, 1, k), s[k + 1])
<1>1. /\ SubSeq(s, 1, k) \in Seq(Commands) /\ Len(SubSeq(s, 1, k)) = k
      /\ \A i \in 1 .. k : SubSeq(s, 1, k)[i] = s[i]
    OBVIOUS
<1>2. ASSUME NEW cmd \in Commands
      PROVE  SubSeq(Append(s, cmd), 1, k) = SubSeq(s, 1, k)
    <2>1. /\ Append(s, cmd) \in Seq(Commands) /\ Len(Append(s, cmd)) = Len(s) + 1
          /\ \A i \in 1 .. Len(s) : Append(s, cmd)[i] = s[i]
        OBVIOUS
    <2>2. /\ SubSeq(Append(s, cmd), 1, k) \in Seq(Commands)
          /\ Len(SubSeq(Append(s, cmd), 1, k)) = k
          /\ \A i \in 1 .. k : SubSeq(Append(s, cmd), 1, k)[i] = s[i]
        BY <2>1
    <2> QED BY <1>1, <2>2, SeqEqual
<1>3. ASSUME k < Len(s)
      PROVE  SubSeq(s, 1, k + 1) = Append(SubSeq(s, 1, k), s[k + 1])
    <2>1. /\ SubSeq(s, 1, k + 1) \in Seq(Commands) /\ Len(SubSeq(s, 1, k + 1)) = k + 1
          /\ \A i \in 1 .. k + 1 : SubSeq(s, 1, k + 1)[i] = s[i]
        BY <1>3
    <2>2. s[k + 1] \in Commands
        BY <1>3
    <2>3. /\ Append(SubSeq(s, 1, k), s[k + 1]) \in Seq(Commands)
          /\ Len(Append(SubSeq(s, 1, k), s[k + 1])) = k + 1
          /\ \A i \in 1 .. k : Append(SubSeq(s, 1, k), s[k + 1])[i] = s[i]
          /\ Append(SubSeq(s, 1, k), s[k + 1])[k + 1] = s[k + 1]
        BY <1>1, <2>2
    <2>4. \A i \in 1 .. k + 1 : i \in 1 .. k \/ i = k + 1
        OBVIOUS
    <2> QED BY <2>1, <2>3, <2>4, SeqEqual
<1> QED BY <1>1, <1>2, <1>3

\* The ring of the client is a bounded FIFO queue, whatever connect() and
\* disconnect() do around it.
THEOREM Ring_Is_Fifo == Spec => Fifo!Spec
<1>1. Init => Fifo!Init
    BY DEF Init, Fifo!Init
<1>2. IndInv /\ [Next]_vars => [Fifo!Next]_(Fifo!vars)
    <2> SUFFICES ASSUME IndInv, [Next]_vars PROVE [Fifo!Next]_(Fifo!vars)
        OBVIOUS
    <2>1. accepted \in Seq(Commands) /\ taken \in 0 .. Len(accepted)
        BY DEF IndInv, TypeOK
    <2>2. ASSUME NEW cmd \in Commands, Push(cmd) PROVE Fifo!Push(cmd)
        <3>1. /\ accepted' = Append(accepted, cmd) /\ taken' = taken
              /\ Len(accepted) - taken < Capacity
            BY <2>2 DEF Push
        <3>2. SubSeq(accepted, 1, taken)' = SubSeq(accepted, 1, taken)
            BY <2>1, <3>1, Prefixes
        <3> QED BY <2>1, <3>1, <3>2, Prefixes DEF Fifo!Push, Fifo!Waiting
    <2>3. ASSUME PopCommand PROVE Fifo!Pop
        <3>1. taken < Len(accepted) /\ taken' = taken + 1 /\ accepted' = accepted
            BY <2>3 DEF PopCommand, ThreadStep
        <3>2. SubSeq(accepted, 1, taken)'
                 = Append(SubSeq(accepted, 1, taken), accepted[taken + 1])
            BY <2>1, <3>1, Prefixes
        <3>3. Len(SubSeq(accepted, 1, taken)) = taken
            BY <2>1, Prefixes
        <3> QED BY <2>1, <3>1, <3>2, <3>3 DEF Fifo!Pop, Fifo!Waiting
    <2>4. CASE UNCHANGED queueVars
        BY <2>4 DEF Fifo!vars, queueVars
    <2>5. Connect \/ BeginDisconnect \/ Disconnect \/ SignalLoop => UNCHANGED queueVars
        BY DEF Connect, CreateLoop, CreateContext, ConnectCore, GetRegistry,
               CreateComponents, AddEventSource, BindInConnect, Create, CreateFails,
               StartThread, BeginDisconnect, Disconnect, InvokeQuit, Join, Release,
               Delete, SignalLoop
    <2>6. Thread => PopCommand \/ UNCHANGED queueVars
        BY DEF Thread, Drain, RunLoop, EnterLoop, HandleEvent, BindProxy, HandlerDone,
               RunQuit, IterationOver, WakeUp, ServeCommand, DrainOver, ServeSource,
               ThreadStep, queueVars
    <2>7. CASE UNCHANGED vars
        BY <2>4, <2>7 DEF vars
    <2> QED BY <2>2, <2>3, <2>4, <2>5, <2>6, <2>7 DEF Next, Isolate, Fifo!Next
<1> QED BY <1>1, <1>2, Inductive_Invariant, PTL DEF Spec, Fifo!Spec

-----------------------------------------------------------------------------
\* The end of the thread

\* Between pw_main_loop_run and its end.
Looping == {"polling", "dispatching", "handling", "draining", "serving"}

\* Before disconnect() nothing stops the loop, so that the quit finds it
\* running, or not yet entered.  Whatever finds the flag down afterwards is
\* not asleep; a missed quit leaves a loop that nothing will stop.
LoopRuns ==
    /\ api = "connecting" => thread = "none" /\ ~ running
    /\ api \in {"connecting", "open", "quitting"} => ~ invoked /\ ~ missed
    /\ api \in {"open", "quitting"} =>
          /\ thread \in {"started", "entering"} \union Looping
          /\ running <=> thread # "started"
    /\ api = "joining" => thread # "none"

\* What disconnect() waits for after a quit that ran too early: the flag is set
\* again, or will be, and nobody is left to clear it.
Hangs ==
    /\ api = "joining"
    /\ ~ invoked
    /\ \/ thread = "started"
       \/ running /\ thread \in {"entering"} \union Looping

MissedHangs == missed => Hangs

\* Inductive: the quit is queued for a loop that LoopRuns says will take it.
QuitInv == LoopRuns /\ QuitComing /\ MissedHangs

\* Every step keeps it: quit, run and exit come in this order, or too early.
LEMMA QuitStep == ASSUME QuitInv, [Next]_vars PROVE QuitInv'
<1> USE DEF QuitInv, LoopRuns, QuitComing, MissedHangs, Hangs, Looping
<1>1. CASE Connect \/ (\E cmd \in Commands : Push(cmd)) \/ BeginDisconnect
    <2>1. CASE StartThread
        BY <2>1 DEF StartThread, loopVars
    <2>2. CASE BeginDisconnect
        BY <2>2 DEF BeginDisconnect, loopVars
    <2>3. ASSUME NEW cmd \in Commands, Push(cmd) PROVE QuitInv'
        BY <2>3 DEF Push, loopVars
    <2>4. CASE Connect /\ ~ StartThread
        <3>1. UNCHANGED <<loopVars, thread>> /\ api' \in {api, "releasing"}
            BY <2>4 DEF Connect, CreateLoop, CreateContext, ConnectCore, GetRegistry,
                        CreateComponents, AddEventSource, BindInConnect, Create,
                        CreateFails
        <3>2. api = "connecting"
            BY <2>4 DEF Connect, CreateLoop, CreateContext, ConnectCore, GetRegistry,
                        CreateComponents, AddEventSource, BindInConnect, CanCreate
        <3> QED BY <3>1, <3>2 DEF loopVars
    <2> QED BY <1>1, <2>1, <2>2, <2>3, <2>4
<1>2. CASE Disconnect
    <2>1. CASE InvokeQuit
        BY <2>1 DEF InvokeQuit
    <2>2. CASE Join \/ Release \/ Delete
        BY <2>2 DEF Join, Release, Delete, loopVars
    <2> QED BY <1>2, <2>1, <2>2 DEF Disconnect
<1>3. CASE Thread
    <2>1. CASE RunLoop
        BY <2>1 DEF RunLoop, ThreadStep
    <2>2. CASE EnterLoop
        BY <2>2 DEF EnterLoop, ThreadStep, loopVars
    <2>3. CASE HandleEvent \/ BindProxy \/ HandlerDone
        BY <2>3 DEF HandleEvent, BindProxy, HandlerDone, ServeSource, ThreadStep,
                    loopVars
    <2>4. CASE RunQuit
        BY <2>4 DEF RunQuit, ServeSource, ThreadStep
    <2>5. CASE IterationOver
        BY <2>5 DEF IterationOver, ThreadStep, loopVars
    <2>6. CASE WakeUp
        BY <2>6 DEF WakeUp, ServeSource, ThreadStep
    <2>7. CASE Drain
        BY <2>7 DEF Drain, PopCommand, ServeCommand, DrainOver, ThreadStep, loopVars
    <2> QED BY <1>3, <2>1, <2>2, <2>3, <2>4, <2>5, <2>6, <2>7 DEF Thread
<1>4. CASE SignalLoop \/ UNCHANGED vars
    BY <1>4 DEF SignalLoop, vars, loopVars
<1> QED BY <1>1, <1>2, <1>3, <1>4 DEF Next, Isolate

\* The end of the thread, in every state.
LEMMA QuitInvariant == Spec => []QuitInv
<1>1. Init => QuitInv
    BY DEF Init, QuitInv, LoopRuns, QuitComing, MissedHangs
<1>2. QuitInv /\ [Next]_vars => QuitInv'
    BY QuitStep
<1> QED BY <1>1, <1>2, PTL DEF Spec

\* disconnect() waits in its join for a thread that will be stopped - unless
\* pw_loop_invoke found no thread in the loop and called pw_main_loop_quit
\* itself, before pw_main_loop_run set the flag (client.cpp:173-186).
THEOREM Quit_Not_Lost == Spec => []QuitComing
<1>1. QuitInv => QuitComing
    BY DEF QuitInv
<1> QED BY <1>1, QuitInvariant, PTL

\* In that case it waits for ever: from then on, in every
\* state, disconnect() is in its join, the thread is in the loop or on its way
\* into it, and neither a queued function nor the flag will end it.
THEOREM Missed_Quit_Hangs == Spec => [](missed => [](Hangs /\ thread # "exited"))
<1>1. QuitInv => (missed => Hangs /\ thread # "exited")
    BY DEF QuitInv, MissedHangs, Hangs, Looping
<1>2. QuitInv /\ missed /\ [Next]_vars => missed'
    <2> SUFFICES ASSUME QuitInv, missed, [Next]_vars PROVE missed'
        OBVIOUS
    <2>1. api = "joining" /\ ~ invoked
        BY DEF QuitInv, MissedHangs, Hangs
    <2>2. CASE Isolate
        BY <2>1, <2>2 DEF Isolate, Connect, CreateLoop, CreateContext, ConnectCore,
               GetRegistry, CreateComponents, AddEventSource, BindInConnect, CanCreate,
               StartThread, Push, BeginDisconnect, Disconnect, InvokeQuit, Join,
               Release, Delete, loopVars
    <2>3. CASE Thread \/ SignalLoop
        BY <2>3 DEF Thread, RunLoop, EnterLoop, HandleEvent, BindProxy, HandlerDone,
               RunQuit, IterationOver, WakeUp, Drain, PopCommand, ServeCommand,
               DrainOver, SignalLoop, loopVars
    <2>4. CASE UNCHANGED vars
        BY <2>4 DEF vars, loopVars
    <2> QED BY <2>2, <2>3, <2>4 DEF Next
<1> QED BY <1>1, <1>2, QuitInvariant, PTL DEF Spec
=============================================================================
