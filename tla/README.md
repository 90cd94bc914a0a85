# pw_dart: a TLA+ verification project

pw_dart binds PipeWire to Dart: a C++ library (`src/`) talks to the PipeWire
daemon on a thread of its own and keeps a mirror of the daemon's graph; a Dart
package (`lib/`) keeps an immutable snapshot of that mirror up to date in an
isolate and sends commands back. This directory models the parts in which two
threads, the daemon and the message queues between them meet, checks the models
with TLC and proves the main results with TLAPS.

All paths below are relative to the repository's root.

## 1. The system

```
 daemon ==wire==> PipeWire loop: RegistryMonitor ==port==> Dart isolate: PwClient.graph
   ^                 |    ^  ^                                |      |
   +---- requests ---+    |  +--------- snapshot (mutex) -----+      |
                          +------------ command ring ----------------+
```

| Component | State | Operations | Correct when |
|---|---|---|---|
| Command queue, `src/command_queue.hpp` | head, tail, slots | try_push (isolate), try_pop (PipeWire thread) | FIFO, nothing lost or repeated, no two threads in a slot, full and empty exact |
| Registry monitor, `src/registry_monitor.cpp` | four maps, id_types_, proxies_ | seven handlers, get_snapshot_json | the maps agree on every id; each change is posted so that a snapshot and the events after it add up |
| Client, `src/client.cpp` | PipeWire objects, hooks, connected_, thread, ring, sync state | connect, disconnect, three mutations, loop, drain | first snapshot complete; every path releases what it created in order; nothing used after release; disconnect returns; accepted commands are served |
| C API, `src/pw_dart_native.cpp` | none | one function per operation | a failed connect leaves nothing |
| Posting, `src/dart_api_dl.cpp` | a function pointer | post | events reach the isolate |
| Link manager, `src/link_manager.cpp` | none | create_link, destroy_link | core and registry are alive while used |
| Parameter handler, `src/param_handler.cpp` | a cache per node id | set_param, enum_params, read | no accepted set is lost; who is told of a change reads it |
| PwGraph, `lib/src/graph.dart`, `lib/src/events.dart` | four maps | applyEvent, portsForNode, linksForNode | equals the native maps once events are handled |
| PwClient, `lib/src/client.dart` | graph, port, stream, disposed flag | connect, refreshGraph, listener, createLink, dispose | graph converges; createLink answers for the link it made |
| Bridge, `lib/src/ffi` | the native handle | one method per C function | handle released once |
| Version, `lib/src/version.dart` | none | compare | agrees with its doc |
| Examples, build hook | widget state | user interface, printing | not modelled |

What is hard here: the isolate and the PipeWire thread share the ring (lock
free), the maps (a mutex) and connected_ (an atomic); posting an event never
waits, so snapshots and events overlap in any order; the daemon reuses ids while
removals are under way; connect() can fail at each call; disconnect() can come
while the other thread is anywhere. `PROJECT.json` lists each hazard at its line
with the properties that would catch it going wrong.

## 2. Modules

| Module | Models | How |
|---|---|---|
| `BoundedFifo` | what the command queue promises | the abstract specification: Push below Capacity, Pop of the oldest |
| `SpscQueue` | `SpscQueue<T, N>` | try_push and try_pop cut at the index load, the slot access and the index store, one action each. An acquire load may return any earlier value of the other index not older than the last one seen (`TailLag`, `HeadLag`) |
| `PwGraph` | `PwGraph`, the event types, the snapshot | four maps from id to object; an object is its kind, the ids it refers to, its state, and a version number for everything else |
| `RegistryMonitor` | the handlers | one action per handler, with the events it posts |
| `GraphMirror` | the whole path from a change in the daemon to `PwClient.graph` | extends `RegistryMonitor` with the daemon (external), `connect()`'s two rounds of sync, and the isolate: the copy of the maps, its assignment to `_graph`, and the delivery of one event are separate steps |
| `LockedMonitor` | the same handlers and `get_snapshot_json` at the grain of the machine | cut at the lock of `mutex_`, at each change of the maps, at the post, at the unlock and at what comes after it; refines `GraphMirror` |
| `LinkRequests` | `createLink`, `destroyLink`, `dispose`, the subscriptions, the ring, `LinkManager` and what the daemon makes of its orders | extends `GraphMirror`: a link made for a call reaches the program over the mirror like any other object |
| `ParamCache` | `setNodeParam`, `set_param`, `update_cache`, the event, the isolate as a reader of the cache, `dispose` | the PipeWire thread cut at the parse, the cache update under the mutex and the post after it |
| `Version` | the version number from `pw_get_library_version()` to `PwVersion` | text to three numbers, packing into 32 bits (a set of bit positions: or is a union, a shift moves them), unpacking with shifts and masks, both comparisons |
| `ClientLifecycle` | `connect()`, `disconnect()`, the thread and the command path | one action per call that creates an object (with its failure), one per statement that releases something, one per step of the loop thread; the ring is the queue of `BoundedFifo` |
| `MCSpscQueue`, `MCGraphMirror`, `MCLockedMonitor`, `MCLinkRequests` | nothing | values of the constants for TLC |
| `SpscQueueProofs`, `GraphMirrorProofs`, `LockedMonitorProofs`, `LinkRequestsProofs`, `ParamCacheProofs`, `ClientLifecycleProofs`, `VersionProofs` | nothing | theorems and proofs about the module of that name |
| `GraphIntegrityProofs` | nothing | more about `GraphMirror`, on top of `GraphMirrorProofs`: references that lead somewhere, and maps and graph that are the daemon's registry when nothing is under way |

How they fit together:

```
 BoundedFifo <== SpscQueue           LockedMonitor ==> GraphMirror <-- LinkRequests
      ^ is the ring of                (==> is a refinement that is checked,
                                       --> adds to the module it extends)
 ClientLifecycle, LinkRequests, ParamCache
```

Correspondence worth knowing:

- `native`, `idTypes`, `proxies` are `nodes_`/`ports_`/`links_`/`devices_`,
  `id_types_` and `proxies_`. `announced`, `gen`, `pushed`, `popped`, `accepted`,
  `missed`, `maker`, `sent` and `seen` are history or belong to the environment:
  no action of the program depends on them but through the bounds.
- `PostResolved` says whether `Dart_PostCObject_DL` is the Dart VM's function.
  In this tree it is not (`src/dart_api_dl.cpp` is a stub with a TODO), so the
  results about the program's graph are about the code with the shim linked, and
  the properties say so: each part of them that needs posted events has
  `PostResolved` as its condition. What they say of the native maps holds
  without it. `LinkRequests` states its answers under the same condition;
  `ParamCache` is the parameter path with the shim linked.
- `Signals` and `Signalled` say whether anything signals `loop_event_source_`.
  In this tree nothing does (first finding). The passing runs allow a signal at
  any moment, from anyone, and oblige nobody to send one: their results hold
  whoever signals, and no liveness property rests on a signal. `ParamCache` lets
  the thread drain the ring at any moment for the same reason, and has no
  fairness. The run `lifecycle_unsignalled` is the code as it is.
- The daemon is modelled from what `src/` relies on: messages stay in order, an
  object is announced after those it refers to and removed before them, a bind
  is answered by an info or, if the object is gone, by a core error, a sync by a
  done. An object of any kind may change its state and its properties, a link
  too; `on_link_info` drops a link's properties (`src/registry_monitor.cpp:439`), so the maps keep those of its
  global. `Kept` is what the handlers do keep up to date, and the properties that
  compare maps and registry (`EntryInStep`) leave out exactly that.
- `pw_loop_invoke` and `pw_main_loop_run` are modelled as the library behaves:
  a function is queued for the thread that has entered the loop, and is called at
  once when none has; `pw_main_loop_run` sets the loop's running flag and then
  enters the loop. `RunLoop` and `EnterLoop` are these two moments, and a quit
  that comes before the first is undone by it (third finding).
- `linkProxies` is what `pw_core_create_object` returns to `LinkManager`, which
  keeps no pointer to it and never destroys it (`src/link_manager.cpp:37`).
  `Owned` is what the program can still reach: all other objects.
- `OnStaleInfo` and the test of `proxies` in `ReceiveInfo` are the code's guards
  against an info of an unknown id. Under the daemon's ordering they never
  apply; they are in the model because they are in the code.
- A handler of `LockedMonitor` takes effect where it posts or, if it posts
  nothing, where it changes the maps; until then the refinement mapping shows
  `GraphMirror` the state the handler began with (`before`) and leaves its
  message on the wire. `before` is also what the code keeps: the old state an
  info handler chooses its event by.
- In `LinkRequests` a call and its subscription begin in one step, because
  `createLink` reaches `.first` before it yields to the event loop, and an event
  is handed to the subscriptions in the step that applies it, because the
  microtasks of a broadcast stream run before the next port message. The two
  ports are a set: PipeWire joins an output to an input, so the order tells
  nothing. The steps of the native `disconnect` are those of `ClientLifecycle`,
  here one step. `dispose()` waits for the stream to be closed, and so for as
  long as the program keeps a subscription paused: nothing obliges `EndDispose`
  to happen.
- `setNodeParam` writes key and value into `{"key":"...","value":"..."}` as they
  are (`lib/src/ffi/native_bridge.dart:92`). A command of `ParamCache` is what
  `set_param` makes of that text: an update of the key asked for if the call was
  plain, and otherwise, with a quote in key or value, an error or an update of
  any key. A call on a closed client, or with a full ring, changes nothing
  (`Accept`). The cache is the map of what was set last; the text
  `getNodeParams` returns of it is data.

## 3. Runs

| Run | Question | Bounds, and why they are enough |
|---|---|---|
| `spsc_queue` | Is the ring a FIFO queue under every interleaving and every stale load? | 4 slots (as the native test uses), 2 distinguishable commands, 9 pushes: both indexes lap the ring twice, and it is full and empty on either side of the wrap |
| `mirror_churn` | Do the maps and the graph stay consistent while ids are reused? | 2 ids, used for node, port, device and an ignored interface, 3 daemon changes (remove, reuse, change), 1 refresh: every overlap of one snapshot with an id that comes back as another kind. Three registries to begin with, one of them with a node alone, whose id can come back and get a port while a copy is made. Whenever nothing is under way, maps and graph must be the daemon's registry (`InStepWhenIdle`). pw_loop_iterate may fail, so connect() may return at any point (1 150 000 states) |
| `mirror_linked` | Is the first snapshot complete, and does the program's view end up equal to the daemon's? | node, two ports, link, each of which may change; 2 changes, 1 refresh, fair (60 000 states) |
| `locked_monitor` | May a handler and a snapshot be taken for one step? | node, two ports, link; ids of a port and of the link come back, also as a device and an ignored interface; 2 changes, 2 copies: a copy meets every handler at every cut (242 000 states) |
| `link_requests` | Does an answer reach its call, whatever comes between? | two calls (so that they can compete for the ring and for the ports), a ring of one command (so that it is full), 2 changes of the daemon (the link made, and gone or changed), 1 refresh, timeouts and dispose at any moment (997 000 states up to the symmetry of the calls) |
| `link_own` | Is the link createLink returns the one it made? No. | one call, one other client |
| `param_cache` | Does who is told of a change read it? Is a set lost? | two ids, two keys, four sets on a ring of two: two of one parameter with one of another between, before or after, refused by the parse or by the full ring, and dispose around them (122 000 states) |
| `version` | Do the two checks agree with the order of versions, and with their comments? | components 0, 3, 40 and 255: below, at and above the minimum 0.3.40 and at the edge of the eight bits; texts of none to three numbers |
| `version_compatible` | Is isCompatible the rule its comment states? No. | as above |
| `lifecycle` | Can connect, commands and disconnect be interleaved safely, and does disconnect end a loop that runs? | ring of 2, 3 commands (full, and more), every failure of connect(), disconnect at any moment (20 000 states) |
| `lifecycle_quit` | Does disconnect() return? Not always. | one command, no signal, disconnect at any moment |
| `lifecycle_unsignalled` | Are commands served by the code as it is? No. | as `lifecycle` |

Deadlock is not checked in the mirror, link, parameter and lifecycle runs: the
bounds on changes, calls and commands end them, and a disconnected client does
stop. Where a thread could wait for ever, a liveness property says whether it
does. Symmetry is used in `link_requests` only, over the calls, which are
interchangeable; its temporal properties are step properties without liveness.

The properties, from the outside in:

- `EventuallyInStep`: once the daemon is quiet, the native maps equal its
  registry for good, and if posted events arrive so do the program's graph and the
  answers of `portsForNode` and `linksForNode`; except for the properties of
  links, whose changes the monitor drops.
- `InStepWhenIdle`: the same at every moment at which nothing is under way,
  without waiting for the daemon to be quiet for good, and without fairness:
  with the wire and the requests empty the native maps are the daemon's
  registry, and with the port empty too so is the program's graph. A change
  that was dropped anywhere else would show here.
- `Convergence`: at every moment, applying what is in flight to the graph (or to
  the copy about to become it) yields the native entry of every node, port and
  link. An entry whose object has been announced by a global but not by an
  info may be missing instead: that is the placeholder a snapshot shows and no
  event announces.
- `DanglingIsPassing`: after a refresh, older events are replayed on a newer
  snapshot, so the graph may show a port without its node. An old PortAdded
  brings back a port that has gone with its node: then its removal is in flight.
  An old NodeRemoved takes away the node of a port whose id has come back since:
  then that node has yet to be announced, or its NodeAdded is in flight.
- `InitialSnapshotComplete`: an object that was there from the beginning of
  `connect()` to its end has had its info applied when it returns.
- `FreshGlobals`, `OneKindPerId`, `NativeIntegrity`: ids that come back never
  meet their former owner; maps, types and proxies agree; no snapshot holds a
  port without its node or a link without its ports.
- `NoMapRace`, `CopyIsWhole`, `MutexReleased`, and `ImplementsMirror` of
  `LockedMonitor`: the two threads are never in the maps together, a copy is one
  state of them, the mutex comes free although the loop posts while it holds it,
  and what is cut at the mutex does what `GraphMirror` does in one step.
- `AnswerOnTheWay`: `createLink` subscribes after its push, and looks at no
  snapshot. If its link is there and has been announced while it still waits,
  the LinkAdded is in the port. `NoAnswerLost`: and with nothing under way, no
  call waits whose link is there.
- `OutcomesAreFinal`, `CallsEndBeforeDisconnect`: a late answer does not complete
  a call again; no call waits on after dispose has freed the native client.
- `CacheNotBehind`, `NoSetLost`, `SeenWhenTold`: the parameter path; who is told
  of a change reads it or a later one, no accepted set is lost, and with no event
  on its way the program was last told what the cache holds, although the event
  is posted after the unlock.
- `MinimumIsExact`: the minimum against the order of versions, stated without its
  branches. `CompatibleButForMicro`: `isCompatible` beside the rule its comment
  states; it is never more permissive, and stricter only by the micro version.
- `NoSlotRace`, `AnswersAreExact`, `ImplementsFifo`: the ring.
- `ThreadObjectsAlive`, `Nested`, `HooksIntact`, `NothingLeft`: the client's
  objects. `QuitComing`, `RunningLoopQuits`: while `disconnect()` waits in its
  join, what ends the thread is on its way, and it comes, unless the quit was
  called before `pw_main_loop_run` had begun.
- Refuted, each by a run of its own (section 5): `CommandsServed`,
  `DisconnectReturns`, `ReturnsOwnLink`, `CompatibleAsDocumented`.

Each property of a passing run has a mutant: a small change of a mapped
definition of the kind a bug would be (an index not masked, a missing join, a
forgotten release, a dropped event, a post after the unlock), under which TLC
finds the property violated.

### Fairness

`GraphMirror`: both threads run (weak fairness of the loop's steps, of connect's,
and of the isolate's event loop), and the daemon answers. `LockedMonitor` assumes
only that a thread which can take its next step takes it: one that is blocked on
the mutex is obliged to nothing. `ClientLifecycle`: calls return and a started
thread runs. An iteration of the PipeWire loop serves every source that is ready,
once, and ends, so a queued quit or a wake-up is not passed over for ever and an
iteration is not prolonged for ever: strong fairness of `RunQuit`, `WakeUp` and
`IterationOver`. Nobody is obliged to signal `loop_event_source_`. `LinkRequests`,
`ParamCache` and `Version` state no liveness and have no fairness: that a call
which gets no answer ends rests on Dart's `Future.timeout` alone, and that a
command is served is what the first finding refutes. Nothing obliges the daemon to
change its registry, or the program to refresh, to push, to call or to disconnect.

## 4. Proofs

`SpscQueueProofs`, for every N >= 2, every set of commands and no bound on
pushes:

- `Invariant`: `IndInv` is inductive. `NoSlotRace` alone is not: it needs to
  know that what a thread has seen of the other (`pseen`, `cseen`) can only lag
  (`SeenInv`), that the indexes are the ends of the waiting commands
  (`IndexInv`), and for FIFO order that each waiting command is intact in its
  slot (`ContentInv`).
- `NoRace`, `ExactAnswers`, `Fifo_Order` and `Implementation` (every step is a
  step of `BoundedFifo` or stutters) follow from it, and `TypeCorrect`.

`GraphMirrorProofs`, for every finite set of ids, every initial registry and
catalogue, and any bounds:

- `TypeCorrect`.
- `Fresh_Globals`: inductive as stated, since `FreshGlobals` speaks of the whole
  wire and not only of its head: for each global on its way, the messages before
  it leave its id free.
- `One_Kind_Per_Id`, from `FreshGlobals` (a global never overwrites an entry).
- `Graph_Converges`: `Convergence` speaks of the last event in flight that
  touches an entry. Posting makes the new event the last one and it carries the
  native entry (`ConvPost`); delivering the oldest either applies the last word
  or leaves it in place (`ConvDeliver`); a snapshot equals the native entries,
  and the last event in flight already agreed with them; everything else keeps
  both sides (`ConvKeep`).
- `Initial_Snapshot_Complete`, if `pw_loop_iterate` does not fail
  (`~ IterateFails`: the code goes on without waiting when it fails, and the
  snapshot may then be partial). Every object that lasts is in one of four stages,
  and the round that waits for it cannot end before it has passed: its global is
  on the wire, ahead of any done (`GlobalAhead`); its bind is among the requests,
  ahead of the sync of round two (`BindAhead`); its info is on the wire, ahead of
  the done of round two (`InfoAhead`); or it has been applied (`InfoIn`).
  `SyncsOfRounds` numbers the syncs, so that the done of round one does not end
  round two, and `LastingStays` keeps the id with its first owner.

`GraphIntegrityProofs`, under the same conditions (`WorldsAssumption` included,
which says that the registry is consistent when connect() begins):

- `Native_Integrity`. The maps alone do not show why no port is without its
  node: that rests on the order in which the daemon sends. `Held` says what the
  maps will have under an id when the first n messages on the wire have been
  handled, and the invariant `RefsInv` is about every n: with all messages
  handled the maps are the daemon's registry (`WorldHeld`), in which every
  reference leads somewhere (`WorldRooted`); with any number of them handled
  none is broken (`RefsHeld`); and an info finds the entry it is about, with the
  references it carries (`InfoHeld`), which the link handler stores. With n = 0
  this is the property. A step of the daemon adds to the end of the wire, and
  handling a message makes n + 1 of before n of now.
- `Dangling_Is_Passing`, from `Native_Integrity`, `Convergence` and `RefsKept`:
  what an event in flight or the graph itself shows has the same references in
  the native maps, or its removal is in flight behind it. So a dangling port is
  either leaving or has its node in the native maps, and then the last word in
  flight about that node, or the lack of one, says that it is coming.
- `In_Step_When_Idle`, for every kind of change of every object. The invariant
  `Settling` follows each object of the
  daemon through the stages it may be in: its global is on the wire
  (`GlobalComing`); it has an entry and its bind is among the requests
  (`BindComing`); it is bound, and the infos on the wire end with the state and
  the properties it has (`InfosComing`), or none is on the wire and the entry
  has them already. The last part is the delicate one. An info carries the
  properties only when they changed, so what the entry will have is the state
  of the last info (`StateComing`) but the properties of the last info that has
  any (`PropsComing`). A change the daemon makes before the bind is answered is
  sent to nobody, and comes with the first info. And an object keeps its kind
  (`KindOf`), because its id is given away only after its removal. For a
  link only its state is followed (`Kept`): its infos' properties are not taken.
  With nothing under way only the last stage is left (`IdleEntry`); the graph follows
  by `Convergence`; that an id without an object has no entry is `WorldHeld` with
  an empty wire.

`ClientLifecycleProofs`, for any ring and any number of commands:

- `Thread_Objects_Alive`, `Objects_Nested`, `Hooks_Intact`, `Nothing_Left` and
  `TypeCorrect` from `IndInv`. The first four are not inductive: that a release
  breaks no nesting and no hook, and leaves nothing when its last statement is
  done, has to be known when it begins. `ReleasedBy(todo)` says it of the statements yet to
  come: each object alive and each hook allocated is in them (but for the core's
  hook, which the client's own destructor frees), what needs an object is
  destroyed before it, and a hook is out of its list before its memory is freed.
  `PlanReleases` shows it of `disconnect()`, `ShortPlan` of the four failure
  paths of `connect()`, `ReleaseStep` that each statement keeps it. `Connecting`
  says what can be there when a call of `connect()` fails; `Connected` and
  `ThreadOver` keep the thread's steps and the release apart.
  All of this is about `Owned`: a createLink that is served may add a proxy that
  nothing owns (`ServeCommandStep`), and what needs it is nothing.
- `Quit_Not_Lost` and `Missed_Quit_Hangs`, the two sides of the third finding.
  While `disconnect()` waits in join(), the quit is queued for a loop that runs,
  or the flag is down and the thread will look at it, or the thread has ended
  (`QuitComing`), or the quit was called before `pw_main_loop_run` had begun
  (`missed`). In the last case nothing is queued, the flag is set again and the
  thread never exits, for ever: the theorem says it of every later state.
  `LoopRuns` says why the quit otherwise meets a loop it can end: nothing stops
  it, and nothing else is queued, before `disconnect()`.
- `Ring_Is_Fifo`: the isolate's pushes and the thread's pops are steps of
  `BoundedFifo`, so that the queue `SpscQueue` is proved to implement is the one
  used here.

`LockedMonitorProofs`, for every finite set of ids and everything else
`GraphMirrorProofs` leaves open:

- `CutInv` is inductive, and its conjuncts say where a thread is. `Mutex`: who
  holds `mutex_` is who is inside the maps. `Running`, `InGlobal`, `InInfo`: how
  far a handler is, each cut measured against the state the handler began with
  (`before`), so that the entry of an info is the old one, the old one with its
  first member changed, or the new one. `Asked`: a copy is under way only where
  the program asked for one.
- `No_Map_Race` follows from `Mutex`; `Copy_Is_Whole` from both threads'
  need of the mutex: while the isolate copies, no map changes.
- `Cut_Implements_Mirror`: one lemma per action maps it to a step of
  `GraphMirror` or to a stutter. A handler is not seen until it posts: its
  message is still at the head of the wire and the maps are those of `before`.
  What it does after that is seen at once. `SeenEnds` says what this does to the
  daemon, which in the meantime appends behind the message in hand and takes
  requests ahead of the bind not yet flushed. So the theorems of
  `GraphMirrorProofs` hold of the cut program through this mapping.

`LinkRequestsProofs`, for any calls, any size of the ring and everything
`GraphMirrorProofs` leaves open:

- `Mirror_With_Requests`: the mirror's graph converges, no reference is broken
  for good, and with nothing under way maps and graph are the registry (but for
  the properties of links), whatever links are asked for. Every step of
  `LinkRequests` is one of `GraphMirror` or leaves it as it is (`MirrorInside`),
  so its theorems hold here.
- `Link_Type_Correct` (who waits is subscribed, who is subscribed waits or has
  timed out), from which `Outcomes_Are_Final` and, with `Ended` (from the close
  of the stream on nothing waits), `Calls_End` follow.
- `Answer_On_The_Way`. The link of a call may be announced only by its info, and
  the info is answered by LinkAdded only if the entry is still in its first
  state. Three invariants carry this from the call to the event: the commands
  and orders of a call, and the link made for it, name the ports the call
  subscribed with (`Owned`); the last message on the wire about an object shows
  what the daemon holds (`Current`), so the info that announces the link
  carries those ports; and an entry no info has reached is in state "init"
  (`Unannounced`), so it is posted as LinkAdded. Then one lemma per kind of
  step: the daemon's make a link without announcing it (`DueDaemon`), the loop's
  post the event when they announce (`DueLoop`), the delivery of that event
  answers the call (`DueDeliver`), the others keep both sides (`DueKeep`).
- `No_Answer_Lost`, from `Answer_On_The_Way` and `In_Step_When_Idle`: with
  nothing under way between daemon and graph, no call waits whose link is there.
  Its link would have been announced, its LinkAdded in the port; so what a call
  waits for at that moment is a command not yet served, an order not yet
  answered, or nothing at all (and the timer ends it).

`ParamCacheProofs`, for every set of ids and keys and any number of sets:
`TypeCorrect`, `Cache_Not_Behind` and `No_Set_Lost` from `IndInv`, whatever the
texts of the commands say and whenever the client is closed. Neither property is
inductive by itself: entering a command keeps what the cache reflects only
because commands are served in the order of the calls, so that the one being
served is newer than the cache and older than the ring (`InOrder`); and the
event about to be posted is of a change the cache has (`CachedFirst`).
`Seen_When_Told`: with no event on its way and none about to be posted, what the
program was last told of every parameter is what the cache holds. `Told` says
who has the value the cache holds: the thread that is about to post it, or the
last event in flight about the parameter, or the program.

`VersionProofs`:

- `TypeCorrect`: whatever is packed, what comes out are bytes.
- `Minimum_Is_Exact` and `Compatible_But_For_Micro`, if every component fits into
  eight bits, as those of every PipeWire release do (with 256 both are wrong, see
  below). `RoundTrip` is the lemma that matters: three bytes, shifted apart and
  joined by or, do not touch each other's bits (`HighBits`), so each comes back
  from its shift and mask with the digits it had (`LowByteOf`), whose sum it is
  (`Binary`). The rest compares what the branches decide with the order of
  versions, and with the documented rule.

The assumptions are those of the modules (`NAssumption`, `EmptyAssumption`,
`MaxPushAssumption`, `NoObjAssumption`, `PostResolvedAssumption`,
`ConstantsAssumption`, `ComponentsAssumption`, `LinkConstantsAssumption`, `ParamConstantsAssumption`,
`NoEntryAssumption`, `LifecycleAssumption`; `WorldsAssumption`: when a client
connects, a port of the daemon has its node and a link its two ports, as
everywhere later; and `StatesAssumption`: an object begins in a state of its
kind, so that ports and devices, whose infos carry no state, have none); TLC
evaluates them in the runs. Three theorems have a hypothesis of their own:
`Initial_Snapshot_Complete`, `Minimum_Is_Exact` and `Compatible_But_For_Micro`.

Only model-checked is what rests on fairness, which is beyond the prover:
`EventuallyInStep`, `MutexReleased` and `RunningLoopQuits`. Of the first and the
last the safety half is proved: that nothing is wrong once everything has been
handled (`In_Step_When_Idle`), and that what the join waits for is on its way
(`Quit_Not_Lost`); what TLC adds is that the handling comes to an end. The refuted
properties (`CommandsServed`, `DisconnectReturns`, `ReturnsOwnLink`,
`CompatibleAsDocumented`) rest on TLC's counterexamples, the second also on
`Missed_Quit_Hangs`. Every
invariant and step property that a passing run checks is proved. Theorems about
`GraphMirror` are not restated for `LockedMonitor`: `Cut_Implements_Mirror` says
that they hold of it through the mapping, but the prover does not make a
module's theorems available through an INSTANCE.

## 5. Findings

1. Accepted commands are never served (`lifecycle_unsignalled`): nothing signals
   `loop_event_source_`.
2. `createLink` may return a link it did not make (`link_own`): it takes the
   first LinkAdded between its ports, and a LinkAdded carries nothing of the
   command (`request_id` is always 0). Another client that links the same ports
   first is enough.
3. `disconnect()` may never return (`lifecycle_quit`): when it comes before the
   new thread has begun `pw_main_loop_run`, no thread has entered the loop yet,
   `pw_loop_invoke` calls the quit in the caller, and `pw_main_loop_run` then sets
   the running flag again. The comment above the call wants the quit on the loop's
   thread (`src/client.cpp:170`).
4. `isCompatible` is not the rule its comment states (`version_compatible`): for
   equal minor versions the code compares the micro versions too
   (`lib/src/ffi/native_bridge.dart:141`, `lib/src/version.dart:25`).

Seen while modelling, and not claims of a run:

- Events never reach Dart in this tree, since the posting stub is never replaced
  (`src/dart_api_dl.cpp`): the native maps follow the daemon, the program's graph
  stays at its last snapshot.
- A served createLink leaves behind the proxy `pw_core_create_object` returned:
  nothing keeps or destroys it (`src/link_manager.cpp:37`).
- A link's properties are never updated after its global: `on_link_info` drops
  them (`src/registry_monitor.cpp:439`).
- Nothing calls `clear_cache` when a node is removed, and PipeWire reuses ids: the
  parameters set on a node are returned for a later node with its id.
- A quote in the key or value of `setNodeParam` makes its text fail to parse
  without a word, or set another parameter
  (`lib/src/ffi/native_bridge.dart:92`).
- `dispose()` awaits the close of the event stream, and so a subscription the
  program keeps paused holds the native client (`lib/src/client.dart:150`).
- `connect()` reports success when `pw_loop_iterate` fails, and the first
  snapshot is then partial: with `IterateFails = TRUE`,
  `InitialSnapshotComplete` fails. What is missing still comes as events
  (`Convergence` holds, in `mirror_churn`).
- After a refresh the program's graph may for a while show a port whose node it
  does not show, although neither the native maps nor any snapshot ever does
  (`DanglingIsPassing`); `linksForNode` of that node then misses nothing, as the
  port is still found by its node's id, but `nodes[port.nodeId]` is null.
- Devices have no events; only `refreshGraph` shows a change of one.
- PortAdded and, from the state "init", LinkAdded are posted again for objects
  the program already shows (`src/registry_monitor.cpp:435`, `:486`).
- One cached value that is not JSON makes `getNodeParams` return nothing for the
  node (`src/param_handler.cpp:113`).
- A version component above 255 spills into its neighbour: with 256 among the
  `Components`, both version checks are wrong.
- `destroyLink` names an id only, and destroys what is under it when the command
  is served.

## 6. Not modelled

- JSON texts, property dictionaries and names (`event_serializer`, the
  deserializer, most fields of the models): data no property tells apart.
- A failed bind or allocation; copying of strings over the C boundary; the life
  of the bridge's handle.
- `enum_params`, `clear_cache`, the snapshot, enum and disconnect commands:
  nothing calls or pushes them.
- `empty()` and `size()` of the ring: no caller in the client, no state change.
- The graph viewer, the command-line examples and the Flutter runner: programs
  on top of the library that draw and print; the build hook.

## 7. Plan

1. The bridge's handle and the failure of `PwClient.connect` after the native
   client is connected.
2. The whole ring in `LinkRequests` and `ParamCache`: their rings are sequences
   without the history of what was pushed and popped, which the mapping to
   `BoundedFifo` needs (`ClientLifecycle` has it, and its proof).
3. The graph viewer's selection, drag and refresh over a graph that changes.
