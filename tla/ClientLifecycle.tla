-------------------------- MODULE ClientLifecycle --------------------------
(***************************************************************************)
(* The life of a native client (PwDartClientImpl, src/src/client.cpp): what*)
(* connect() creates and disconnect() releases, the PipeWire thread between*)
(* the two, and the commands the isolate pushes for that thread.           *)
(*                                                                         *)
(* Two threads: the isolate, which is inside one C function at a time, and *)
(* the PipeWire thread, which runs the main loop.  Calls that release one  *)
(* object are one step each, and so is the check of connected_ that        *)
(* LinkManager makes before it uses core_ or registry_.  The ring of       *)
(* command_queue.hpp is taken as the queue that SpscQueue implements.      *)
(*                                                                         *)
(* pw_main_loop_run sets the loop's running flag, enters the loop and      *)
(* iterates while the flag is set; pw_loop_invoke queues a function for    *)
(* the thread that has entered the loop, and calls it at once when none    *)
(* has.                                                                    *)
(***************************************************************************)
EXTENDS Naturals, Sequences

CONSTANTS
    Signals,        \* something signals loop_event_source_
    Capacity,       \* commands the ring holds
    MaxCommands     \* bound on the commands of a run

ASSUME LifecycleAssumption ==
    /\ Signals \in BOOLEAN
    /\ Capacity \in Nat \ {0}
    /\ MaxCommands \in Nat

VARIABLES
    api,        \* where the isolate is in the C API
    todo,       \* the release steps left to do, as pairs <<step, what>>
    alive,      \* objects created and not yet destroyed
    allocated,  \* hooks whose memory is not yet freed
    linked,     \* hooks in the listener list of their object
    connected,  \* connected_
    accepted,   \* history: commands try_push took, oldest first
    taken,      \* number of them try_pop has returned
    invoked,    \* the quit function waits in the loop's queue
    missed,     \* history: it ran before pw_main_loop_run had begun
    signalled,  \* loop_event_source_ is signalled
    running,    \* the main loop's running flag
    thread      \* where the PipeWire thread is

objectVars == <<alive, allocated, linked>>
queueVars == <<accepted, taken>>
loopVars == <<invoked, missed, signalled, running>>
vars == <<api, todo, objectVars, connected, queueVars, loopVars, thread>>

\* What the isolate may push.  The other alternatives of Command are never
\* pushed.
Commands == {"CreateLink", "DestroyLink", "SetParam"}

\* What an object was created from; monitor stands for RegistryMonitor,
\* proxies for the proxies it has bound, linkProxies for what
\* pw_core_create_object returned to LinkManager, which keeps no pointer to it.
Needs == [loop |-> {}, context |-> {"loop"}, core |-> {"context"},
          registry |-> {"core"}, monitor |-> {"registry"},
          proxies |-> {"registry", "monitor"}, params |-> {}, links |-> {},
          source |-> {"loop"}, linkProxies |-> {"core"}]

\* The object whose listener list a hook is linked into.
HookOf == [coreHook |-> "core", registryHook |-> "registry",
           proxyHooks |-> "proxies"]

HooksOf(obj) == {h \in DOMAIN HookOf : HookOf[h] = obj}

\* The objects the program can still reach.
Owned == alive \ {"linkProxies"}

-----------------------------------------------------------------------------
\* connect()

CanCreate(obj) == api = "connecting" /\ obj \notin alive /\ Needs[obj] \subseteq alive

\* An object and the listener connect() adds to it, or the constructor of
\* RegistryMonitor to the registry.
Create(objs, hooks) ==
    /\ alive' = alive \union objs
    /\ allocated' = allocated \union hooks
    /\ linked' = linked \union hooks
    /\ UNCHANGED <<api, todo, connected, queueVars, loopVars, thread>>

\* A call of connect() fails; it releases what it has, and pw_dart_connect
\* deletes the client.
CreateFails(steps) ==
    /\ api' = "releasing"
    /\ todo' = steps
    /\ UNCHANGED <<objectVars, connected, queueVars, loopVars, thread>>

ReleaseContext == <<<<"destroy", "context">>, <<"destroy", "loop">>>>

CreateLoop ==
    /\ CanCreate("loop")
    /\ Create({"loop"}, {}) \/ CreateFails(<<>>)

CreateContext ==
    /\ CanCreate("context")
    /\ Create({"context"}, {}) \/ CreateFails(<<<<"destroy", "loop">>>>)

ConnectCore ==
    /\ CanCreate("core")
    /\ Create({"core"}, {"coreHook"}) \/ CreateFails(ReleaseContext)

\* Mutant: the failure path forgets the context.
GetRegistryLeaky ==
    /\ CanCreate("registry")
    /\ \/ Create({"registry"}, {})
       \/ CreateFails(<<<<"destroy", "core">>, <<"destroy", "loop">>>>)

\* The failure path leaves core_listener_ where it is.
GetRegistry ==
    /\ CanCreate("registry")
    /\ \/ Create({"registry"}, {})
       \/ CreateFails(<<<<"destroy", "core">>>> \o ReleaseContext)

CreateComponents ==
    /\ CanCreate("monitor")
    /\ Create({"monitor", "params", "links"}, {"registryHook"})

AddEventSource ==
    /\ CanCreate("source") /\ "monitor" \in alive
    /\ Create({"source"}, {})

\* The two rounds of sync: handlers run on this thread and may bind proxies.
BindInConnect ==
    /\ "source" \in alive
    /\ CanCreate("proxies")
    /\ Create({"proxies"}, {"proxyHooks"})

\* connected_ is set and the thread starts.
StartThread ==
    /\ api = "connecting" /\ "source" \in alive
    /\ api' = "open"
    /\ connected' = TRUE
    /\ thread' = "started"
    /\ UNCHANGED <<todo, objectVars, queueVars, loopVars>>

-----------------------------------------------------------------------------
\* The isolate on an open client.

\* Mutant: the ring takes more than it holds.
PushAnyway(cmd) ==
    /\ api = "open" /\ connected
    /\ Len(accepted) < MaxCommands
    /\ accepted' = Append(accepted, cmd)
    /\ UNCHANGED <<api, todo, objectVars, connected, taken, loopVars, thread>>

\* create_link, destroy_link, set_node_param.  A push that finds the ring
\* full changes nothing.
Push(cmd) ==
    /\ api = "open" /\ connected
    /\ Len(accepted) < MaxCommands
    /\ Len(accepted) - taken < Capacity
    /\ accepted' = Append(accepted, cmd)
    /\ UNCHANGED <<api, todo, objectVars, connected, taken, loopVars, thread>>

\* disconnect() clears connected_ ...
BeginDisconnect ==
    /\ api = "open" /\ connected
    /\ connected' = FALSE
    /\ api' = "quitting"
    /\ UNCHANGED <<todo, objectVars, queueVars, loopVars, thread>>

\* Mutant: pw_main_loop_quit is called here, directly.
QuitDirectly ==
    /\ api = "quitting"
    /\ running' = FALSE
    /\ missed' = (thread = "started")
    /\ api' = "joining"
    /\ UNCHANGED <<todo, objectVars, connected, queueVars, signalled, invoked,
                   thread>>

\* ... has pw_main_loop_quit called on the loop's thread, or here and now when
\* that thread has not entered the loop yet ...
InvokeQuit ==
    /\ api = "quitting"
    /\ IF thread \in {"started", "entering"}
       THEN running' = FALSE /\ missed' = (thread = "started") /\ UNCHANGED invoked
       ELSE invoked' = TRUE /\ UNCHANGED <<running, missed>>
    /\ api' = "joining"
    /\ UNCHANGED <<todo, objectVars, connected, queueVars, signalled, thread>>

\* Mutant: the registry proxy and the source outlive the core and the loop.
DisconnectStepsInOrder ==
    << <<"unlink", "proxyHooks">>, <<"destroy", "proxies">>,
       <<"free", "proxyHooks">>, <<"unlink", "registryHook">>,
       <<"free", "registryHook">>, <<"destroy", "monitor">>,
       <<"destroy", "params">>, <<"destroy", "links">>, <<"unlink", "coreHook">>,
       <<"free", "coreHook">>, <<"destroy", "core">> >> \o ReleaseContext
          \o << <<"destroy", "registry">>, <<"destroy", "source">> >>

\* Mutant: the hooks are freed as if reset() removed them from their lists.
DisconnectStepsUnhooked ==
    << <<"free", "proxyHooks">>, <<"destroy", "proxies">>,
       <<"free", "registryHook">>, <<"destroy", "monitor">>,
       <<"destroy", "params">>, <<"destroy", "links">>, <<"destroy", "source">>,
       <<"destroy", "registry">>, <<"free", "coreHook">>,
       <<"destroy", "core">> >> \o ReleaseContext

\* The rest of disconnect(), statement by statement; the first five steps are
\* ~RegistryMonitor and ~ProxyData.
DisconnectSteps ==
    << <<"unlink", "proxyHooks">>, <<"destroy", "proxies">>,
       <<"free", "proxyHooks">>, <<"unlink", "registryHook">>,
       <<"free", "registryHook">>, <<"destroy", "monitor">>,
       <<"destroy", "params">>, <<"destroy", "links">>, <<"destroy", "source">>,
       <<"destroy", "registry">>, <<"unlink", "coreHook">>,
       <<"free", "coreHook">>, <<"destroy", "core">> >> \o ReleaseContext

\* Mutant: the thread is not waited for.
JoinNot ==
    /\ api = "joining"
    /\ api' = "releasing"
    /\ todo' = DisconnectSteps
    /\ UNCHANGED <<objectVars, connected, queueVars, loopVars, thread>>

\* ... and waits for the thread to exit.
Join ==
    /\ api = "joining"
    /\ thread = "exited"
    /\ api' = "releasing"
    /\ todo' = DisconnectSteps
    /\ UNCHANGED <<objectVars, connected, queueVars, loopVars, thread>>

\* Destroying an object empties its listener list.
Release ==
    /\ api = "releasing" /\ todo # <<>>
    /\ LET step == Head(todo)[1]
           what == Head(todo)[2]
       IN /\ alive' = IF step = "destroy" THEN alive \ {what} ELSE alive
          /\ allocated' = IF step = "free" THEN allocated \ {what} ELSE allocated
          /\ linked' = linked \ (IF step = "destroy" THEN HooksOf(what)
                                 ELSE IF step = "unlink" THEN {what} ELSE {})
    /\ todo' = Tail(todo)
    /\ UNCHANGED <<api, connected, queueVars, loopVars, thread>>

\* delete impl: the hook that core_listener_ still owns is freed.
Delete ==
    /\ api = "releasing" /\ todo = <<>>
    /\ api' = "gone"
    /\ allocated' = allocated \ {"coreHook"}
    /\ UNCHANGED <<todo, alive, linked, connected, queueVars, loopVars, thread>>

-----------------------------------------------------------------------------
\* The PipeWire thread.

\* Every step here leaves the isolate alone.
ThreadStep(from, to) ==
    /\ thread = from
    /\ thread' = to
    /\ UNCHANGED <<api, todo, connected, accepted>>

\* loop_func: pw_main_loop_run sets the flag ...
RunLoop ==
    /\ ThreadStep("started", "entering")
    /\ running' = TRUE
    /\ UNCHANGED <<objectVars, taken, invoked, missed, signalled>>

\* ... enters the loop and waits in its first iteration, if the flag still is
\* set.
EnterLoop ==
    /\ ThreadStep("entering", IF running THEN "polling" ELSE "exited")
    /\ UNCHANGED <<objectVars, taken, loopVars>>

\* An iteration sleeps until a source is ready and serves all that are.
ServeSource(to) == \E from \in {"polling", "dispatching"} : ThreadStep(from, to)

\* The loop calls a handler of RegistryMonitor, which may bind a proxy.
HandleEvent ==
    /\ ServeSource("handling")
    /\ UNCHANGED <<objectVars, taken, loopVars>>

BindProxy ==
    /\ ThreadStep("handling", "dispatching")
    /\ alive' = alive \union {"proxies"}
    /\ allocated' = allocated \union {"proxyHooks"}
    /\ linked' = linked \union {"proxyHooks"}
    /\ UNCHANGED <<taken, loopVars>>

HandlerDone ==
    /\ ThreadStep("handling", "dispatching")
    /\ UNCHANGED <<objectVars, taken, loopVars>>

\* The function queued by pw_loop_invoke runs: pw_main_loop_quit.
RunQuit ==
    /\ invoked
    /\ ServeSource("dispatching")
    /\ invoked' = FALSE /\ running' = FALSE
    /\ UNCHANGED <<objectVars, taken, missed, signalled>>

\* After an iteration the flag is looked at; pw_main_loop_run may return.
IterationOver ==
    /\ ThreadStep("dispatching", IF running THEN "polling" ELSE "exited")
    /\ UNCHANGED <<objectVars, taken, loopVars>>

\* on_loop_event: drain_commands.
WakeUp ==
    /\ signalled
    /\ ServeSource("draining")
    /\ signalled' = FALSE
    /\ UNCHANGED <<objectVars, taken, invoked, missed, running>>

\* try_pop, and process_command up to the call of LinkManager or ParamHandler;
\* LinkManager looks at connected_ first.
PopCommand ==
    /\ taken < Len(accepted)
    /\ taken' = taken + 1
    /\ LET refused == accepted[taken + 1] # "SetParam" /\ ~ connected
       IN ThreadStep("draining", IF refused THEN "draining" ELSE "serving")
    /\ UNCHANGED <<objectVars, loopVars>>

\* The rest of the command: core_, registry_ or params_ is used.  A createLink
\* makes a proxy, unless pw_core_create_object fails, and nothing destroys it.
ServeCommand ==
    /\ ThreadStep("serving", "draining")
    /\ \/ accepted[taken] = "CreateLink" /\ alive' = alive \union {"linkProxies"}
       \/ UNCHANGED alive
    /\ UNCHANGED <<allocated, linked, taken, loopVars>>

DrainOver ==
    /\ taken = Len(accepted)
    /\ ThreadStep("draining", "dispatching")
    /\ UNCHANGED <<objectVars, taken, loopVars>>

\* pw_loop_signal_event, at any time the source exists.
SignalLoop ==
    /\ Signals
    /\ "source" \in alive
    /\ ~ signalled
    /\ signalled' = TRUE
    /\ UNCHANGED <<api, todo, objectVars, connected, queueVars, invoked, missed,
                   running, thread>>
-----------------------------------------------------------------------------
Init ==
    /\ api = "connecting" /\ todo = <<>>
    /\ alive = {} /\ allocated = {} /\ linked = {}
    /\ connected = FALSE
    /\ accepted = <<>> /\ taken = 0
    /\ invoked = FALSE /\ missed = FALSE
    /\ signalled = FALSE /\ running = FALSE
    /\ thread = "none"

Connect ==
    \/ CreateLoop \/ CreateContext \/ ConnectCore \/ GetRegistry
    \/ CreateComponents \/ AddEventSource \/ BindInConnect \/ StartThread

Disconnect == InvokeQuit \/ Join \/ Release \/ Delete

Isolate ==
    \/ Connect
    \/ \E cmd \in Commands : Push(cmd)
    \/ BeginDisconnect
    \/ Disconnect

Drain == PopCommand \/ ServeCommand \/ DrainOver

Thread ==
    \/ RunLoop \/ EnterLoop \/ HandleEvent \/ BindProxy \/ HandlerDone
    \/ RunQuit \/ IterationOver \/ WakeUp \/ Drain

Next == Isolate \/ Thread \/ SignalLoop

Spec == Init /\ [][Next]_vars

\* Calls return and a started thread runs.  An iteration serves every source
\* that is ready, once, and then ends, so that neither a wake-up or a queued
\* function is passed over forever nor an iteration prolonged forever (SF).
\* Nothing obliges the program to push or to disconnect, or anyone to signal
\* the source.
Fairness ==
    /\ WF_vars(Connect)
    /\ WF_vars(Disconnect)
    /\ WF_vars(RunLoop \/ EnterLoop)
    /\ WF_vars(BindProxy \/ HandlerDone)
    /\ WF_vars(Drain)
    /\ SF_vars(IterationOver)
    /\ SF_vars(RunQuit)
    /\ SF_vars(WakeUp)

FairSpec == Spec /\ Fairness

-----------------------------------------------------------------------------
\* Properties

Steps == ({"destroy"} \X DOMAIN Needs)
            \union ({"unlink", "free"} \X DOMAIN HookOf)

\* The type invariant; the ring never holds more than its capacity.
TypeOK ==
    /\ api \in {"connecting", "open", "quitting", "joining", "releasing", "gone"}
    /\ todo \in Seq(Steps)
    /\ alive \subseteq DOMAIN Needs
    /\ allocated \subseteq DOMAIN HookOf
    /\ linked \subseteq DOMAIN HookOf
    /\ connected \in BOOLEAN
    /\ accepted \in Seq(Commands) /\ taken \in 0 .. Len(accepted)
    /\ Len(accepted) - taken <= Capacity
    /\ invoked \in BOOLEAN /\ missed \in BOOLEAN
    /\ signalled \in BOOLEAN /\ running \in BOOLEAN
    /\ thread \in {"none", "started", "entering", "polling", "dispatching",
                   "handling", "draining", "serving", "exited"}

\* Whatever the PipeWire thread is doing when disconnect() comes, the objects
\* it uses there outlive it: the loop it runs, the monitor its handlers
\* belong to, the core, registry and components process_command uses - also
\* when connected_ was cleared between LinkManager's check and its use.
ThreadObjectsAlive ==
    /\ thread \in {"started", "entering", "polling", "dispatching"} =>
          "loop" \in alive
    /\ thread = "handling" => {"monitor", "registry", "core"} \subseteq alive
    /\ thread \in {"draining", "serving"} =>
          {"source", "links", "params", "registry", "core"} \subseteq alive

\* No object the program can still reach outlives the one it was created from,
\* on any path of connect() and disconnect().
Nested == \A obj \in Owned : Needs[obj] \subseteq alive

\* A hook's memory is not freed while an object still has it in its listener
\* list (the heap corruption the comments of disconnect() and of the two
\* destructors warn of).
HooksIntact == \A h \in linked : h \in allocated /\ HookOf[h] \in alive

\* A deleted client leaves nothing behind but the proxies of the links it
\* asked for, wherever connect() failed and whatever was bound, and its thread
\* is not running.
NothingLeft ==
    api = "gone" => /\ Owned = {} /\ allocated = {}
                    /\ thread \in {"none", "exited"}

\* While disconnect() waits in join(), what ends the thread is on its way: the
\* quit is queued for a loop that runs, or the flag is down and a thread that is
\* awake will look at it, or the thread has ended.  The exception is a quit that
\* ran before pw_main_loop_run had begun, which sets the flag again.
QuitComing ==
    api = "joining" /\ ~ missed =>
        \/ invoked /\ running /\ thread \notin {"none", "started", "entering", "exited"}
        \/ ~ running /\ thread \in {"entering", "dispatching", "handling",
                                   "draining", "serving"}
        \/ thread = "exited"

\* disconnect() returns (the join waits for the loop thread to exit
\* pw_main_loop_run(), and the loop exits when pw_main_loop_quit() is called:
\* client.cpp:183, :299).
DisconnectReturns == api = "quitting" ~> api = "gone"

\* It does once the thread has begun pw_main_loop_run, wherever it is then:
\* the quit reaches the loop, and wakes it.
RunningLoopQuits == api = "quitting" /\ thread # "started" ~> api = "gone"

\* While the client stays open, every command it accepted is served.
CommandsServed ==
    \A n \in 1 .. MaxCommands :
        Len(accepted) >= n ~> (taken >= n \/ api # "open")
=============================================================================
