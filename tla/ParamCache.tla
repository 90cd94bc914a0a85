----------------------------- MODULE ParamCache -----------------------------
(***************************************************************************)
(* Node parameters (src/src/param_handler.cpp).  setNodeParam puts a       *)
(* command into the ring; the PipeWire thread parses it, enters it in the  *)
(* cache under mutex_ and, after the unlock, posts ParamChanged.  The      *)
(* isolate may read the cache at any moment, in getNodeParams.             *)
(*                                                                         *)
(* Nothing is set on the PipeWire node itself (the code defers it), and    *)
(* nothing calls clear_cache or enum_params: the cache holds what this     *)
(* program set, for as long as the client lives.                           *)
(***************************************************************************)
EXTENDS Naturals, Sequences, FiniteSets

CONSTANTS
    Ids,        \* node ids
    Keys,       \* parameter names
    Capacity,   \* commands the ring holds
    MaxSets,    \* bound on the accepted calls of setNodeParam
    NoEntry     \* no entry under this id and key

ASSUME ParamConstantsAssumption ==
    /\ IsFiniteSet(Ids)
    /\ Capacity \in Nat \ {0}
    /\ MaxSets \in Nat

\* A command, with its number, and what set_param makes of its text: an update
\* of key, or an error.
Commands == [n : Nat, id : Ids, key : Keys, parses : BOOLEAN]

ASSUME NoEntryAssumption == NoEntry \notin Commands

VARIABLES
    connected,  \* connected_, and the isolate's port is open
    sent,       \* history: the accepted commands, in the order of the calls
    ring,       \* cmd_queue_
    thread,     \* the PipeWire thread in set_param
    cache,      \* cache_
    port,       \* ParamChanged events posted and not yet delivered
    seen        \* per id and key, the last ParamChanged delivered

vars == <<connected, sent, ring, thread, cache, port, seen>>

Idle == [pc |-> "idle"]
At(pc, command) == [pc |-> pc, command |-> command]

Empty == [id \in Ids |-> [key \in Keys |-> NoEntry]]

\* Mutant: a node has one entry for all its parameters.
EnterWhole(map, c) == [map EXCEPT ![c.id] = c]

Enter(map, c) == [map EXCEPT ![c.id] = [@ EXCEPT ![c.key] = c]]

-----------------------------------------------------------------------------
\* A call on a client that is not connected (-1), or whose ring is full (-2),
\* throws and changes nothing.
Accept(c) ==
    /\ connected
    /\ Len(sent) < MaxSets
    /\ Len(ring) < Capacity
    /\ sent' = Append(sent, c)
    /\ ring' = Append(ring, c)
    /\ UNCHANGED <<connected, thread, cache, port, seen>>

\* setNodeParam writes key and value into the command's text as they are.
\* With a quote or a backslash in one of them the text may not parse, or may
\* name any other key.
SetNodeParam(id, asked, plain) ==
    \E key \in Keys, parses \in BOOLEAN :
        /\ plain => key = asked /\ parses
        /\ Accept([n |-> Len(sent) + 1, id |-> id, key |-> key, parses |-> parses])

\* dispose() closes the port, and then the client: calls are refused and no
\* event is delivered from here on.  The thread serves on until it is joined;
\* what it leaves in the ring is freed with the client.
Disconnect ==
    /\ connected
    /\ connected' = FALSE
    /\ port' = <<>>
    /\ UNCHANGED <<sent, ring, thread, cache, seen>>

-----------------------------------------------------------------------------
\* The PipeWire thread, while it drains the ring.

\* What is posted to a closed port is dropped.
Post(c) == port' = IF connected THEN Append(port, c) ELSE port

\* Mutant: the event is posted before the cache is updated.
ParseAndPost ==
    /\ thread.pc = "idle"
    /\ ring # <<>>
    /\ ring' = Tail(ring)
    /\ thread' = At("parsed", Head(ring))
    /\ Post(Head(ring))
    /\ UNCHANGED <<connected, sent, cache, seen>>

\* set_param up to the parse.  Its error is dropped by process_command, which
\* does not look at connected_ either.
ParseCommand ==
    /\ thread.pc = "idle"
    /\ ring # <<>>
    /\ ring' = Tail(ring)
    /\ thread' = IF Head(ring).parses THEN At("parsed", Head(ring)) ELSE Idle
    /\ UNCHANGED <<connected, sent, cache, port, seen>>

\* Mutant: a key that is there already is left.
UpdateOnce ==
    /\ thread.pc = "parsed"
    /\ LET c == thread.command IN
          cache' = IF cache[c.id][c.key] = NoEntry THEN Enter(cache, c) ELSE cache
    /\ thread' = At("cached", thread.command)
    /\ UNCHANGED <<connected, sent, ring, port, seen>>

\* update_cache.
UpdateCache ==
    /\ thread.pc = "parsed"
    /\ cache' = Enter(cache, thread.command)
    /\ thread' = At("cached", thread.command)
    /\ UNCHANGED <<connected, sent, ring, port, seen>>

\* Mutant: only a value that is new to the node is posted.
PostNew ==
    /\ thread.pc = "cached"
    /\ LET c == thread.command IN
          IF seen[c.id][c.key] = NoEntry THEN Post(c) ELSE UNCHANGED port
    /\ thread' = Idle
    /\ UNCHANGED <<connected, sent, ring, cache, seen>>

PostParamChanged ==
    /\ thread.pc = "cached"
    /\ Post(thread.command)
    /\ thread' = Idle
    /\ UNCHANGED <<connected, sent, ring, cache, seen>>

Deliver ==
    /\ port # <<>>
    /\ seen' = Enter(seen, Head(port))
    /\ port' = Tail(port)
    /\ UNCHANGED <<connected, sent, ring, thread, cache>>

-----------------------------------------------------------------------------
Init ==
    /\ connected = TRUE
    /\ sent = <<>> /\ ring = <<>>
    /\ thread = Idle
    /\ cache = Empty /\ seen = Empty
    /\ port = <<>>

Thread == ParseCommand \/ UpdateCache \/ PostParamChanged

Next ==
    \/ \E id \in Ids, key \in Keys, plain \in BOOLEAN : SetNodeParam(id, key, plain)
    \/ Disconnect
    \/ Thread
    \/ Deliver

Spec == Init /\ [][Next]_vars

-----------------------------------------------------------------------------
\* Properties

Entries == [Ids -> [Keys -> Commands \union {NoEntry}]]

\* The type invariant; the ring never holds more than its capacity.
TypeOK ==
    /\ connected \in BOOLEAN
    /\ sent \in Seq(Commands) /\ Len(sent) <= MaxSets
    /\ ring \in Seq(Commands) /\ Len(ring) <= Capacity
    /\ port \in Seq(Commands)
    /\ thread \in {Idle} \union [pc : {"parsed", "cached"}, command : Commands]
    /\ cache \in Entries /\ seen \in Entries

\* The map has the command or a later one for the same parameter.
Reflects(map, c) ==
    map[c.id][c.key] # NoEntry /\ map[c.id][c.key].n >= c.n

\* Who is told of a change, or is about to be, and then reads the parameters,
\* reads that change or a later one, although the PipeWire thread is between
\* two commands or inside the next at that moment (update_cache comes before
\* post_event and takes the mutex the reader takes).
CacheNotBehind ==
    /\ \A i \in DOMAIN port : Reflects(cache, port[i])
    /\ \A id \in Ids, key \in Keys :
          seen[id][key] # NoEntry => Reflects(cache, seen[id][key])

\* Every accepted command is waiting, being served, refused by the parse or
\* overtaken by a later one for the parameter its text names: none is lost,
\* also when the client is closed around it, and the last one that parses wins.
NoSetLost ==
    \A i \in DOMAIN sent :
        \/ \E j \in DOMAIN ring : ring[j] = sent[i]
        \/ thread = At("parsed", sent[i])
        \/ ~ sent[i].parses
        \/ Reflects(cache, sent[i])

\* With no event on its way and none about to be posted, the program has been
\* told of every parameter what the cache holds of it: of several changes of a
\* parameter the last told is the one that stays, although the event is posted
\* after the unlock (param_handler.cpp:74).
SeenWhenTold ==
    connected /\ thread.pc # "cached" /\ port = <<>> => seen = cache
=============================================================================
