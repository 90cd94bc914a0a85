---------------------------- MODULE LinkRequests ----------------------------
(***************************************************************************)
(* createLink, destroyLink and dispose of PwClient over the graph mirror:  *)
(*                                                                         *)
(*   call --ring--> LinkManager --orders--> daemon                         *)
(*     ^                                      |  (a new link is announced  *)
(*     +-- listener <-- port <-- monitor <----+   like any other object)   *)
(*                                                                         *)
(* A createLink pushes a command and, in the same turn of the isolate,     *)
(* subscribes to the event stream for a LinkAdded between its two ports;   *)
(* after five seconds it gives up, and leaves the subscription behind.     *)
(* Nothing ties the event to the command.                                  *)
(***************************************************************************)
EXTENDS GraphMirror

CONSTANTS
    Calls,      \* the createLink and destroyLink calls the program makes
    Others,     \* the maker of links this program did not ask for
    Capacity,   \* commands the ring holds
    Signalled   \* something signals loop_event_source_, so the ring is drained

ASSUME LinkConstantsAssumption ==
    /\ Others \notin Calls
    /\ Capacity \in Nat \ {0}
    /\ Signalled \in BOOLEAN

VARIABLES
    calls,      \* per call: its state, its ports, its link
    listeners,  \* calls whose .first is subscribed to the event stream
    ring,       \* cmd_queue_
    orders,     \* sent to the daemon by LinkManager, oldest first
    maker,      \* history: who made the latest link under an id
    disposal    \* "open", "closing" (dispose awaits the stream's close),
                \* "done" (the native client is gone)

callVars == <<calls, listeners>>
commandVars == <<ring, orders>>
linkVars == <<vars, callVars, commandVars, maker, disposal>>

Commands == [op : {"create"}, call : Calls, ports : SUBSET Ids]
                \union [op : {"destroy"}, call : Calls, link : Ids]

Outcomes == {"returned", "timedOut", "refused", "closed"}

CallStates == [st : {"idle", "waiting"} \union Outcomes,
               ports : SUBSET Ids, links : SUBSET Ids]

\* The isolate is in its event loop and the client is not disposed.
Ready == dart = "listening" /\ disposal = "open"

-----------------------------------------------------------------------------
\* The calls.  A full ring is an error the call throws at once.

\* Mutant: no bound.
AcceptAlways(command) ==
    /\ ring' = Append(ring, command)
    /\ UNCHANGED <<orders, vars, maker, disposal>>

Accept(command) ==
    /\ Len(ring) < Capacity
    /\ ring' = Append(ring, command)
    /\ UNCHANGED <<orders, vars, maker, disposal>>

CallCreate(c, ports) ==
    /\ Ready /\ calls[c].st = "idle"
    /\ Accept([op |-> "create", call |-> c, ports |-> ports])
    /\ calls' = [calls EXCEPT ![c] = [@ EXCEPT !.st = "waiting", !.ports = ports]]
    /\ listeners' = listeners \union {c}

\* destroyLink returns once the command is in the ring.
CallDestroy(c, link) ==
    /\ Ready /\ calls[c].st = "idle"
    /\ Accept([op |-> "destroy", call |-> c, link |-> link])
    /\ calls' = [calls EXCEPT ![c] = [@ EXCEPT !.st = "returned", !.links = {link}]]
    /\ UNCHANGED listeners

CallRefused(c) ==
    /\ Ready /\ calls[c].st = "idle"
    /\ Len(ring) = Capacity
    /\ calls' = [calls EXCEPT ![c] = [@ EXCEPT !.st = "refused"]]
    /\ UNCHANGED <<listeners, commandVars, vars, maker, disposal>>

\* Future.timeout completes the call; .first stays subscribed.
Timeout(c) ==
    /\ dart = "listening"
    /\ calls[c].st = "waiting"
    /\ calls' = [calls EXCEPT ![c] = [@ EXCEPT !.st = "timedOut"]]
    /\ UNCHANGED <<listeners, commandVars, vars, maker, disposal>>

\* The subscriptions whose test accepts the event.
Matching(e) ==
    {c \in listeners : e.type = "LinkAdded" /\ e.obj.refs = calls[c].ports}

\* Mutant: every subscription that matches answers its call.
AnswerEach(e, matched) ==
    /\ listeners' = listeners \ matched
    /\ calls' = [c \in Calls |->
          IF c \in matched THEN [calls[c] EXCEPT !.st = "returned", !.links = {e.id}]
                          ELSE calls[c]]

Answer(e, matched) ==
    /\ listeners' = listeners \ matched
    /\ calls' = [c \in Calls |->
          IF c \in matched /\ calls[c].st = "waiting"
          THEN [calls[c] EXCEPT !.st = "returned", !.links = {e.id}]
          ELSE calls[c]]

\* Mutant: an event that leaves the graph as it is is not passed on.
DeliverChanges ==
    /\ Ready
    /\ Deliver
    /\ IF graph' = graph THEN UNCHANGED <<listeners, calls>>
       ELSE Answer(Head(port), Matching(Head(port)))
    /\ UNCHANGED <<commandVars, maker, disposal>>

\* The port's listener applies the event and adds it to the stream; the
\* subscriptions run before the isolate takes up anything else.
DeliverToAll ==
    /\ Ready
    /\ Deliver
    /\ Answer(Head(port), Matching(Head(port)))
    /\ UNCHANGED <<commandVars, maker, disposal>>

-----------------------------------------------------------------------------
\* dispose().  The stream's close ends every subscription; a .first without an
\* element is an error.

\* Mutant: the stream is left open.
BeginDisposeUnclosed ==
    /\ Ready
    /\ disposal' = "closing"
    /\ UNCHANGED <<callVars, commandVars, vars, maker>>

BeginDispose ==
    /\ Ready
    /\ disposal' = "closing"
    /\ calls' = [c \in Calls |-> IF calls[c].st = "waiting"
                                 THEN [calls[c] EXCEPT !.st = "closed"]
                                 ELSE calls[c]]
    /\ listeners' = {}
    /\ UNCHANGED <<commandVars, vars, maker>>

\* PwDartClientImpl::disconnect (ClientLifecycle has its steps), once close()
\* is done: it waits for the subscriptions of the program, for as long as one is
\* paused.  What is left in the ring goes with the client, and so does what the
\* PipeWire thread still pops once connected_ is false: LinkManager refuses it.
EndDispose ==
    /\ disposal = "closing"
    /\ disposal' = "done"
    /\ ring' = <<>>
    /\ UNCHANGED <<orders, callVars, vars, maker>>

-----------------------------------------------------------------------------
\* The PipeWire thread serves a command: process_command and LinkManager,
\* whose result is dropped.

Serve ==
    /\ Signalled /\ conn = "up" /\ disposal # "done"
    /\ ring # <<>>
    /\ ring' = Tail(ring)
    /\ \/ orders' = Append(orders, Head(ring))
       \/ UNCHANGED orders      \* pw_core_create_object or _destroy failed
    /\ UNCHANGED <<callVars, vars, maker, disposal>>

-----------------------------------------------------------------------------
\* The daemon, for this client's orders and for those of others.

Made(id, by) == maker' = [maker EXCEPT ![id] = by]

OtherAdd(id, obj) ==
    /\ DaemonAdd(id, obj)
    /\ Made(id, Others)
    /\ UNCHANGED <<callVars, commandVars, disposal>>

OtherChange ==
    /\ \/ \E id \in Ids : DaemonRemove(id)
       \/ \E id \in Ids, newSt \in States, newProps \in 0 .. MaxChanges :
             DaemonChange(id, newSt, newProps)
    /\ UNCHANGED <<callVars, commandVars, maker, disposal>>

\* One link at most joins two ports.
GrantCreate(id, obj) ==
    /\ orders # <<>> /\ Head(orders).op = "create"
    /\ obj.kind = "link" /\ obj.refs = Head(orders).ports
    /\ \A other \in Present(world) : world[other].refs # obj.refs
    /\ DaemonAdd(id, obj)
    /\ Made(id, Head(orders).call)
    /\ orders' = Tail(orders)
    /\ UNCHANGED <<callVars, ring, disposal>>

\* The core error for a refused order is an event the isolate does not know.
RefuseCreate ==
    /\ orders # <<>> /\ Head(orders).op = "create"
    /\ orders' = Tail(orders)
    /\ UNCHANGED <<callVars, ring, vars, maker, disposal>>

\* pw_registry_destroy names an id, whatever is under it by now; what depends
\* on the object goes first.
GrantDestroy ==
    /\ orders # <<>> /\ Head(orders).op = "destroy"
    /\ LET target == Head(orders).link IN
       \E id \in Ids :
          /\ world[target] # NoObj
          /\ id = target \/ target \in world[id].refs
                         \/ \E p \in world[id].refs : target \in world[p].refs
          /\ DaemonRemove(id)
          /\ orders' = IF id = target THEN Tail(orders) ELSE orders
    /\ UNCHANGED <<callVars, ring, maker, disposal>>

RefuseDestroy ==
    /\ orders # <<>> /\ Head(orders).op = "destroy"
    /\ world[Head(orders).link] = NoObj
    /\ orders' = Tail(orders)
    /\ UNCHANGED <<callVars, ring, vars, maker, disposal>>

-----------------------------------------------------------------------------
LinkInit ==
    /\ Init
    /\ calls = [c \in Calls |-> [st |-> "idle", ports |-> {}, links |-> {}]]
    /\ listeners = {}
    /\ ring = <<>> /\ orders = <<>>
    /\ maker = [id \in Ids |-> Others]
    /\ disposal = "open"

CallStep ==
    \E c \in Calls :
        \/ \E p, q \in Ids : /\ p < q
                             /\ Has(graph, "port", p) /\ Has(graph, "port", q)
                             /\ CallCreate(c, {p, q})
        \/ \E id \in Ids : Has(graph, "link", id) /\ CallDestroy(c, id)
        \/ CallRefused(c)

OrderStep == \/ \E entry \in Catalog : GrantCreate(entry[1], entry[2])
             \/ RefuseCreate \/ GrantDestroy \/ RefuseDestroy

\* The mirror's steps that need nothing of this module but a live client.
Quiet == UNCHANGED <<callVars, commandVars, maker, disposal>>
LoopStep == disposal # "done" /\ Loop /\ Quiet
AnswerStep == DaemonAnswer /\ Quiet
ConnectStep == (Connect \/ TakeFirstSnapshot \/ AssignGraph) /\ Quiet
RefreshStep == disposal = "open" /\ TakeSnapshot /\ Quiet

LinkNext ==
    \/ CallStep \/ DeliverToAll \/ Serve \/ OrderStep
    \/ \E c \in Calls : Timeout(c)
    \/ BeginDispose \/ EndDispose
    \/ OtherChange \/ \E entry \in Catalog : OtherAdd(entry[1], entry[2])
    \/ LoopStep \/ AnswerStep \/ ConnectStep \/ RefreshStep

LinkSpec == LinkInit /\ [][LinkNext]_linkVars

-----------------------------------------------------------------------------
\* Properties

\* The type invariant.
LinkTypeOK ==
    /\ calls \in [Calls -> CallStates]
    /\ listeners \subseteq {c \in Calls : calls[c].st \in {"waiting", "timedOut"}}
    /\ {c \in Calls : calls[c].st = "waiting"} \subseteq listeners
    /\ ring \in Seq(Commands) /\ Len(ring) <= Capacity
    /\ orders \in Seq(Commands)
    /\ maker \in [Ids -> Calls \union {Others}]
    /\ disposal \in {"open", "closing", "done"}

\* A link made for the call is there and announced, and the call still waits.
Due(c, id) ==
    /\ calls[c].st = "waiting"
    /\ world[id] # NoObj /\ maker[id] = c
    /\ <<"link", id>> \in announced
    /\ \A i \in DOMAIN wire : wire[i].op = "global" => wire[i].id # id

\* A call is not left waiting once its link is there and has been announced:
\* the LinkAdded is still on its way, however late the command was served and
\* whatever snapshot already shows the link.  createLink relies on it, since
\* it subscribes only after the push and looks at no snapshot.
AnswerOnTheWay ==
    PostResolved =>
        \A c \in Calls, id \in Ids :
            Due(c, id) =>
                \E i \in DOMAIN port :
                    /\ port[i].type = "LinkAdded" /\ port[i].id = id
                    /\ port[i].obj.refs = calls[c].ports

\* With nothing under way between the daemon and PwClient.graph, no createLink
\* is waiting whose link is there: an answer may be late, but none is lost to a
\* refresh, to the placeholder of on_global, which is not posted, or to another
\* call for the same ports.
NoAnswerLost ==
    GraphIdle /\ PostResolved =>
        \A c \in Calls, id \in Ids :
            world[id] # NoObj /\ maker[id] = c => calls[c].st # "waiting"

\* When dispose() has freed the native client no call of the program is still
\* waiting for it, and no subscription is left: their futures have completed.
CallsEndBeforeDisconnect ==
    disposal = "done" =>
        listeners = {} /\ \A c \in Calls : calls[c].st # "waiting"

\* What a call has come to is final: an answer that arrives after the timeout
\* still finds the subscription of the call, and must not answer it again.
OutcomesAreFinal ==
    [][\A c \in Calls : calls[c].st \in Outcomes => calls'[c] = calls[c]]_linkVars

\* createLink returns the link its own command made.
ReturnsOwnLink ==
    [][\A c \in Calls : calls[c].st = "waiting" /\ calls'[c].st = "returned"
          => \A id \in calls'[c].links : maker[id] = c]_linkVars
=============================================================================
