-------------------------- MODULE ParamCacheProofs --------------------------
(***************************************************************************)
(* For every set of ids and keys and any number of calls: what the isolate *)
(* reads is never behind what it was told, and no accepted command is lost.*)
(*                                                                         *)
(* Neither is inductive.  Entering a command keeps what the cache reflects *)
(* only because commands come out of the ring in the order of the calls:   *)
(* the one being served is newer than all that is in the cache and older   *)
(* than all that waits (InOrder).  And with nothing on its way the isolate *)
(* has been told what the cache holds.                                     *)
(***************************************************************************)
EXTENDS ParamCache, TLAPS

\* The commands wait in the order of the calls, and the one being served comes
\* between what the cache holds and what waits.
InOrder ==
    /\ \A i \in DOMAIN ring : ring[i].n <= Len(sent)
    /\ \A i, j \in DOMAIN ring : i < j => ring[i].n < ring[j].n
    /\ \A id \in Ids, key \in Keys : cache[id][key] # NoEntry =>
          /\ cache[id][key].n <= Len(sent)
          /\ \A i \in DOMAIN ring : cache[id][key].n < ring[i].n
          /\ thread.pc = "parsed" => cache[id][key].n < thread.command.n
    /\ thread.pc = "parsed" =>
          /\ thread.command.n <= Len(sent)
          /\ \A i \in DOMAIN ring : thread.command.n < ring[i].n

\* The event about to be posted is about a change the cache has.
CachedFirst == thread.pc = "cached" => Reflects(cache, thread.command)

IndInv == TypeOK /\ InOrder /\ CachedFirst /\ CacheNotBehind /\ NoSetLost

-----------------------------------------------------------------------------
\* Head and tail of a sequence that is not empty.
LEMMA HeadTail ==
    ASSUME NEW S, NEW s \in Seq(S), s # <<>>
    PROVE  /\ Head(s) \in S /\ Head(s) = s[1] /\ 1 \in DOMAIN s
           /\ Tail(s) \in Seq(S) /\ Len(Tail(s)) <= Len(s)
           /\ \A i \in DOMAIN Tail(s) : i + 1 \in DOMAIN s /\ Tail(s)[i] = s[i + 1]
           /\ \A i \in DOMAIN s : i # 1 => i - 1 \in DOMAIN Tail(s)
                                           /\ Tail(s)[i - 1] = s[i]
  OBVIOUS

\* The elements of a sequence with one more at its end.
LEMMA Appended ==
    ASSUME NEW S, NEW s \in Seq(S), NEW e \in S
    PROVE  /\ Append(s, e) \in Seq(S)
           /\ Len(Append(s, e)) = Len(s) + 1
           /\ \A i \in DOMAIN s : i \in DOMAIN Append(s, e)
                                  /\ Append(s, e)[i] = s[i] /\ i < Len(s) + 1
           /\ Len(s) + 1 \in DOMAIN Append(s, e)
           /\ Append(s, e)[Len(s) + 1] = e
           /\ \A i \in DOMAIN Append(s, e) : i \in DOMAIN s \/ i = Len(s) + 1
  OBVIOUS

\* Enter changes the entry of the command's parameter, and no other.
LEMMA EnterEntry ==
    ASSUME NEW map \in Entries, NEW c \in Commands
    PROVE  /\ Enter(map, c) \in Entries
           /\ \A id \in Ids, key \in Keys :
                 Enter(map, c)[id][key] = IF id = c.id /\ key = c.key
                                          THEN c ELSE map[id][key]
  BY DEF Enter, Entries, Commands

\* What the map reflects it still reflects when a command is entered that is
\* not older than what it replaces; and it reflects that command.
LEMMA EnterReflects ==
    ASSUME NEW map \in Entries, NEW c \in Commands,
           map[c.id][c.key] # NoEntry => map[c.id][c.key].n <= c.n
    PROVE  /\ Reflects(Enter(map, c), c)
           /\ \A d \in Commands : Reflects(map, d) => Reflects(Enter(map, c), d)
<1>1. c.id \in Ids /\ c.key \in Keys /\ c.n \in Nat /\ c # NoEntry
  BY NoEntryAssumption DEF Commands
<1>2. Reflects(Enter(map, c), c)
  BY <1>1, EnterEntry DEF Reflects
<1>3. ASSUME NEW d \in Commands, Reflects(map, d) PROVE Reflects(Enter(map, c), d)
  <2>1. d.id \in Ids /\ d.key \in Keys /\ d.n \in Nat
    BY DEF Commands
  <2>2. CASE d.id = c.id /\ d.key = c.key
    <3>1. map[c.id][c.key] \in Commands
      BY <1>1, <1>3, <2>2 DEF Reflects, Entries
    <3>2. map[c.id][c.key].n \in Nat
      BY <3>1 DEF Commands
    <3> QED BY SMTT(30), <1>1, <1>3, <2>1, <2>2, <3>2, EnterEntry DEF Reflects
  <2>3. CASE ~ (d.id = c.id /\ d.key = c.key)
    BY SMTT(30), <1>3, <2>1, <2>3, EnterEntry DEF Reflects
  <2> QED BY <2>2, <2>3
<1> QED BY <1>2, <1>3

-----------------------------------------------------------------------------
\* Initially nothing is set.
LEMMA InitInv == Init => IndInv
<1> SUFFICES ASSUME Init PROVE IndInv
  OBVIOUS
<1> USE ParamConstantsAssumption DEF Init
<1>1. TypeOK
  BY DEF TypeOK, Idle, Empty, Entries
<1>2. \A id \in Ids, key \in Keys : cache[id][key] = NoEntry /\ seen[id][key] = NoEntry
  BY DEF Empty
<1>3. InOrder
  BY <1>2 DEF InOrder, Idle
<1>4. CachedFirst
  BY DEF CachedFirst, Idle
<1>5. CacheNotBehind
  BY <1>2 DEF CacheNotBehind
<1>6. NoSetLost
  BY DEF NoSetLost
<1> QED BY <1>1, <1>3, <1>4, <1>5, <1>6 DEF IndInv

\* A new command is the last in every order.
LEMMA AcceptInv ==
    ASSUME IndInv, NEW c \in Commands, c.n = Len(sent) + 1, Accept(c)
    PROVE  IndInv'
<1> USE ParamConstantsAssumption
<1>0. /\ sent \in Seq(Commands) /\ ring \in Seq(Commands)
      /\ Len(sent) < MaxSets /\ Len(ring) < Capacity
      /\ sent' = Append(sent, c) /\ ring' = Append(ring, c)
      /\ UNCHANGED <<connected, thread, cache, port, seen>>
  BY DEF IndInv, TypeOK, Accept
<1>1. c \in Commands /\ c.n = Len(sent) + 1
  OBVIOUS
<1>2. /\ \A i \in DOMAIN ring : ring[i] \in Commands /\ ring[i].n \in Nat
      /\ \A i \in Ids, k \in Keys : cache[i][k] # NoEntry => cache[i][k].n \in Nat
      /\ thread.pc = "parsed" => thread.command.n \in Nat
  <2>1. /\ \A i \in DOMAIN ring : ring[i] \in Commands
        /\ \A i \in Ids, k \in Keys :
              cache[i][k] # NoEntry => cache[i][k] \in Commands
        /\ thread.pc = "parsed" => thread.command \in Commands
    BY <1>0 DEF IndInv, TypeOK, Entries, Idle
  <2>2. \A d \in Commands : d.n \in Nat
    BY DEF Commands
  <2> QED BY <2>1, <2>2
<1>3. TypeOK'
  BY <1>0, <1>1, Appended DEF IndInv, TypeOK
<1>4. InOrder'
  <2>1. /\ Len(sent') = Len(sent) + 1 /\ Len(sent) \in Nat
        /\ \A i \in DOMAIN ring : i \in DOMAIN ring' /\ ring'[i] = ring[i]
                                  /\ i < Len(ring) + 1 /\ i \in Nat
        /\ ring'[Len(ring) + 1] = c
        /\ \A i \in DOMAIN ring' : i \in DOMAIN ring \/ i = Len(ring) + 1
    BY <1>0, <1>1, Appended
  <2> QED BY SMTT(30), <1>0, <1>1, <1>2, <2>1 DEF IndInv, InOrder
<1>5. CachedFirst' /\ CacheNotBehind'
  BY <1>0 DEF IndInv, CachedFirst, CacheNotBehind, Reflects
<1>6. NoSetLost'
  <2> SUFFICES ASSUME NEW i \in DOMAIN sent'
               PROVE  \/ \E j \in DOMAIN ring' : ring'[j] = sent'[i]
                      \/ thread' = At("parsed", sent'[i])
                      \/ ~ sent'[i].parses
                      \/ Reflects(cache', sent'[i])
    BY DEF NoSetLost
  <2>1. CASE i = Len(sent) + 1
    <3>1. sent'[i] = c /\ ring'[Len(ring) + 1] = c
          /\ Len(ring) + 1 \in DOMAIN ring'
      BY <1>0, <1>1, <2>1, Appended
    <3> QED BY <3>1
  <2>2. CASE i \in DOMAIN sent
    <3>1. sent'[i] = sent[i]
      BY <1>0, <1>1, <2>2, Appended
    <3>2. \A j \in DOMAIN ring : j \in DOMAIN ring' /\ ring'[j] = ring[j]
      BY <1>0, <1>1, Appended
    <3> QED BY <1>0, <2>2, <3>1, <3>2 DEF IndInv, NoSetLost, Reflects
  <2> QED BY <1>0, <1>1, <2>1, <2>2, Appended
<1> QED BY <1>3, <1>4, <1>5, <1>6 DEF IndInv

\* So is the one that a call makes, whatever its text says.
LEMMA SetInv ==
    ASSUME IndInv, NEW id \in Ids, NEW key \in Keys, NEW plain \in BOOLEAN,
           SetNodeParam(id, key, plain)
    PROVE  IndInv'
<1>1. PICK named \in Keys, parses \in BOOLEAN :
         Accept([n |-> Len(sent) + 1, id |-> id, key |-> named, parses |-> parses])
  BY DEF SetNodeParam
<1> DEFINE c == [n |-> Len(sent) + 1, id |-> id, key |-> named, parses |-> parses]
<1>2. c \in Commands /\ c.n = Len(sent) + 1 /\ Accept(c)
  BY <1>1 DEF Commands, IndInv, TypeOK
<1> HIDE DEF c
<1> QED BY <1>2, AcceptInv

\* dispose() leaves the commands and the cache as they are.
LEMMA DisconnectInv == ASSUME IndInv, Disconnect PROVE IndInv'
<1>0. /\ connected' = FALSE /\ port' = <<>> /\ DOMAIN port' = {}
      /\ UNCHANGED <<sent, ring, thread, cache, seen>>
  BY DEF Disconnect
<1>1. TypeOK'
  <2>1. connected' \in BOOLEAN
    BY <1>0
  <2>2. port' \in Seq(Commands)
    BY <1>0
  <2> QED BY <1>0, <2>1, <2>2 DEF IndInv, TypeOK
<1>2. InOrder' /\ CachedFirst' /\ NoSetLost'
  BY <1>0 DEF IndInv, InOrder, CachedFirst, NoSetLost, Reflects
<1>3. CacheNotBehind'
  BY <1>0 DEF IndInv, CacheNotBehind, Reflects
<1> QED BY <1>1, <1>2, <1>3 DEF IndInv

\* The oldest command leaves the ring, and is refused or is being served.
LEMMA ParseInv == ASSUME IndInv, ParseCommand PROVE IndInv'
<1>0. /\ thread.pc = "idle" /\ ring # <<>> /\ ring' = Tail(ring)
      /\ thread' = IF Head(ring).parses THEN At("parsed", Head(ring)) ELSE Idle
      /\ UNCHANGED <<connected, sent, cache, port, seen>>
      /\ ring \in Seq(Commands)
  BY DEF IndInv, TypeOK, ParseCommand
<1>1. /\ Head(ring) \in Commands /\ Head(ring) = ring[1] /\ 1 \in DOMAIN ring
      /\ Tail(ring) \in Seq(Commands) /\ Len(Tail(ring)) <= Len(ring)
      /\ Len(Tail(ring)) \in Nat /\ Len(ring) \in Nat
      /\ \A i \in DOMAIN Tail(ring) : i + 1 \in DOMAIN ring
                                      /\ Tail(ring)[i] = ring[i + 1]
      /\ \A i \in DOMAIN ring : i # 1 => i - 1 \in DOMAIN Tail(ring)
                                         /\ Tail(ring)[i - 1] = ring[i]
  BY <1>0, HeadTail
<1>2. TypeOK'
  <2>1. Len(Tail(ring)) <= Capacity
    BY <1>1, ParamConstantsAssumption DEF IndInv, TypeOK
  <2> QED BY <1>0, <1>1, <2>1 DEF IndInv, TypeOK, Idle, At
<1>3. /\ thread'.pc # "cached"
      /\ thread'.pc = "parsed" => thread'.command = ring[1]
  BY <1>0, <1>1 DEF Idle, At
<1>4. InOrder'
  <2>1. \A i \in DOMAIN ring : i \in Nat /\ i >= 1
    BY <1>0
  <2>2. \A i \in DOMAIN ring' : /\ i + 1 \in DOMAIN ring /\ ring'[i] = ring[i + 1]
                                /\ i \in Nat /\ i >= 1
    BY <1>0, <1>1
  <2> QED BY <1>0, <1>1, <1>3, <2>1, <2>2 DEF IndInv, InOrder
<1>5. CachedFirst' /\ CacheNotBehind'
  BY <1>0, <1>3 DEF IndInv, CachedFirst, CacheNotBehind, Reflects
<1>6. NoSetLost'
  <2> SUFFICES ASSUME NEW i \in DOMAIN sent, sent[i].parses,
                      ~ Reflects(cache, sent[i]),
                      thread' # At("parsed", sent[i])
               PROVE  \E j \in DOMAIN ring' : ring'[j] = sent[i]
    BY <1>0 DEF NoSetLost, Reflects
  <2>1. thread # At("parsed", sent[i])
    BY <1>0 DEF At
  <2>2. PICK j \in DOMAIN ring : ring[j] = sent[i]
    BY <2>1 DEF IndInv, NoSetLost
  <2>3. j # 1
    BY <1>0, <1>1, <2>2
  <2>4. j - 1 \in DOMAIN ring' /\ ring'[j - 1] = sent[i]
    BY <1>0, <1>1, <2>2, <2>3
  <2> QED BY <2>4
<1> QED BY <1>2, <1>4, <1>5, <1>6 DEF IndInv

\* The command being served is entered.
LEMMA UpdateInv == ASSUME IndInv, UpdateCache PROVE IndInv'
<1> DEFINE c == thread.command
<1>0. /\ thread.pc = "parsed"
      /\ cache' = Enter(cache, c) /\ thread' = At("cached", c)
      /\ UNCHANGED <<connected, sent, ring, port, seen>>
  BY DEF UpdateCache
<1>1. c \in Commands /\ cache \in Entries
  BY <1>0 DEF IndInv, TypeOK, Idle
<1>2. c.id \in Ids /\ c.key \in Keys /\ c.n \in Nat
  BY <1>1 DEF Commands
<1>3. cache[c.id][c.key] # NoEntry =>
         cache[c.id][c.key].n \in Nat /\ cache[c.id][c.key].n <= c.n
  <2>1. cache[c.id][c.key] # NoEntry => cache[c.id][c.key] \in Commands
    BY <1>1, <1>2 DEF Entries
  <2>2. cache[c.id][c.key] # NoEntry => cache[c.id][c.key].n \in Nat
    BY <2>1 DEF Commands
  <2> QED BY <1>0, <1>2, <2>2 DEF IndInv, InOrder
<1>4. /\ cache' \in Entries
      /\ \A id \in Ids, key \in Keys :
            cache'[id][key] = IF id = c.id /\ key = c.key THEN c ELSE cache[id][key]
  BY <1>0, <1>1, EnterEntry
<1>5. /\ Reflects(cache', c)
      /\ \A d \in Commands : Reflects(cache, d) => Reflects(cache', d)
  BY <1>0, <1>1, <1>3, EnterReflects
<1>6. TypeOK'
  BY <1>0, <1>1, <1>4 DEF IndInv, TypeOK, At
<1>7. thread'.pc = "cached" /\ thread'.command = c
  BY <1>0 DEF At
<1> HIDE DEF c
<1>8. InOrder'
  <2> USE <1>0, <1>7 DEF InOrder
  <2>1. ASSUME NEW id \in Ids, NEW key \in Keys, cache'[id][key] # NoEntry
        PROVE  /\ cache'[id][key].n <= Len(sent)
               /\ \A i \in DOMAIN ring : cache'[id][key].n < ring[i].n
    <3>1. CASE id = c.id /\ key = c.key
      BY <1>4, <3>1 DEF IndInv, c
    <3>2. CASE ~ (id = c.id /\ key = c.key)
      BY <1>4, <2>1, <3>2 DEF IndInv
    <3> QED BY <3>1, <3>2
  <2> QED BY <2>1 DEF IndInv
<1>9. CachedFirst'
  BY <1>5, <1>7 DEF CachedFirst
<1>10. CacheNotBehind'
  <2>1. \A i \in DOMAIN port : port[i] \in Commands
    BY DEF IndInv, TypeOK
  <2>2. \A id \in Ids, key \in Keys :
           seen[id][key] # NoEntry => seen[id][key] \in Commands
    BY DEF IndInv, TypeOK, Entries
  <2> QED BY <1>0, <1>5, <2>1, <2>2 DEF IndInv, CacheNotBehind
<1>11. NoSetLost'
  <2> SUFFICES ASSUME NEW i \in DOMAIN sent, sent[i].parses,
                      ~ \E j \in DOMAIN ring : ring[j] = sent[i]
               PROVE  Reflects(cache', sent[i])
    BY <1>0 DEF NoSetLost
  <2>1. sent[i] \in Commands
    BY DEF IndInv, TypeOK
  <2>2. thread = At("parsed", sent[i]) \/ Reflects(cache, sent[i])
    BY DEF IndInv, NoSetLost
  <2>3. thread = At("parsed", sent[i]) => sent[i] = c
    BY DEF At, c
  <2> QED BY <1>5, <2>1, <2>2, <2>3
<1> QED BY <1>6, <1>8, <1>9, <1>10, <1>11 DEF IndInv

\* The event about a change the cache has is posted.
LEMMA PostInv == ASSUME IndInv, PostParamChanged PROVE IndInv'
<1>0. /\ thread.pc = "cached" /\ port' \in {port, Append(port, thread.command)}
      /\ thread' = Idle /\ thread'.pc = "idle"
      /\ UNCHANGED <<connected, sent, ring, cache, seen>>
      /\ port \in Seq(Commands)
  BY DEF IndInv, TypeOK, PostParamChanged, Post, Idle
<1>1. thread.command \in Commands
  BY <1>0 DEF IndInv, TypeOK, Idle
<1>2. TypeOK'
  <2>1. port' \in Seq(Commands)
    BY <1>0, <1>1, Appended
  <2>2. connected' \in BOOLEAN
    BY <1>0 DEF IndInv, TypeOK
  <2> QED BY <1>0, <2>1, <2>2 DEF IndInv, TypeOK
<1>3. InOrder' /\ CachedFirst'
  BY <1>0 DEF IndInv, InOrder, CachedFirst
<1>4. CacheNotBehind'
  <2>1. Reflects(cache, thread.command)
    BY <1>0 DEF IndInv, CachedFirst
  <2>2. \A i \in DOMAIN port' : \/ i \in DOMAIN port /\ port'[i] = port[i]
                                \/ port'[i] = thread.command
    <3>1. CASE port' = port
      BY <3>1
    <3>2. CASE port' = Append(port, thread.command)
      BY <1>0, <1>1, <3>2, Appended
    <3> QED BY <1>0, <3>1, <3>2
  <2> QED BY <1>0, <2>1, <2>2 DEF IndInv, CacheNotBehind, Reflects
<1>5. NoSetLost'
  <2>1. \A i \in DOMAIN sent : thread # At("parsed", sent[i])
    BY <1>0 DEF At
  <2> QED BY <1>0, <2>1 DEF IndInv, NoSetLost, Reflects
<1> QED BY <1>2, <1>3, <1>4, <1>5 DEF IndInv

\* The isolate is told of a change the cache has.
LEMMA DeliverInv == ASSUME IndInv, Deliver PROVE IndInv'
<1> DEFINE c == Head(port)
<1>0. /\ port # <<>> /\ seen' = Enter(seen, c) /\ port' = Tail(port)
      /\ UNCHANGED <<connected, sent, ring, thread, cache>>
      /\ port \in Seq(Commands) /\ seen \in Entries
  BY DEF IndInv, TypeOK, Deliver
<1>1. /\ c \in Commands /\ c = port[1] /\ 1 \in DOMAIN port
      /\ Tail(port) \in Seq(Commands)
      /\ \A i \in DOMAIN Tail(port) : i + 1 \in DOMAIN port
                                      /\ Tail(port)[i] = port[i + 1]
  BY <1>0, HeadTail
<1> HIDE DEF c
<1>2. /\ seen' \in Entries
      /\ \A id \in Ids, key \in Keys :
            seen'[id][key] = IF id = c.id /\ key = c.key THEN c ELSE seen[id][key]
  BY <1>0, <1>1, EnterEntry
<1>3. TypeOK'
  BY <1>0, <1>1, <1>2 DEF IndInv, TypeOK
<1>4. InOrder' /\ CachedFirst' /\ NoSetLost'
  BY <1>0 DEF IndInv, InOrder, CachedFirst, NoSetLost, Reflects
<1>5. CacheNotBehind'
  <2>1. \A i \in DOMAIN port : Reflects(cache, port[i])
    BY DEF IndInv, CacheNotBehind
  <2>2. \A i \in DOMAIN port' : Reflects(cache, port'[i])
    BY <1>0, <1>1, <2>1
  <2>3. \A id \in Ids, key \in Keys :
           seen'[id][key] # NoEntry => Reflects(cache, seen'[id][key])
    BY <1>1, <1>2, <2>1 DEF IndInv, CacheNotBehind
  <2> QED BY <1>0, <2>2, <2>3 DEF CacheNotBehind, Reflects
<1> QED BY <1>3, <1>4, <1>5 DEF IndInv

\* Every step keeps the invariant.
LEMMA StepInv == IndInv /\ [Next]_vars => IndInv'
<1> SUFFICES ASSUME IndInv, [Next]_vars PROVE IndInv'
  OBVIOUS
<1>1. CASE UNCHANGED vars
  BY <1>1 DEF vars, IndInv, TypeOK, InOrder, CachedFirst, CacheNotBehind,
              NoSetLost, Reflects
<1> QED BY <1>1, SetInv, DisconnectInv, ParseInv, UpdateInv, PostInv, DeliverInv
        DEF Next, Thread

\* The inductive invariant of set_param, the cache and its readers.
THEOREM Invariant == Spec => []IndInv
  BY InitInv, StepInv, PTL DEF Spec

\* Type correctness of the parameter path, and the bound of its ring.
THEOREM TypeCorrect == Spec => []TypeOK
<1>1. IndInv => TypeOK
  BY DEF IndInv
<1> QED BY <1>1, Invariant, PTL

\* A reader that was told of a change reads it, or a later one, for any number
\* of commands and nodes, also when a command's text names another parameter
\* than the call asked for.
THEOREM Cache_Not_Behind == Spec => []CacheNotBehind
<1>1. IndInv => CacheNotBehind
  BY DEF IndInv
<1> QED BY <1>1, Invariant, PTL

\* No accepted command is lost between the ring and the cache.
THEOREM No_Set_Lost == Spec => []NoSetLost
<1>1. IndInv => NoSetLost
  BY DEF IndInv
<1> QED BY <1>1, Invariant, PTL

-----------------------------------------------------------------------------
\* What the isolate is told

\* The command is about this parameter.
About(c, id, key) == c.id = id /\ c.key = key

\* The thread is about to post this parameter's change.
Posting(id, key) == thread.pc = "cached" /\ About(thread.command, id, key)

\* The event in flight that decides the parameter: no later one is about it.
LastWord(i, id, key) ==
    /\ About(port[i], id, key)
    /\ \A j \in DOMAIN port : j > i => ~ About(port[j], id, key)

\* What the cache holds of a parameter is what the thread is about to post,
\* or the last event in flight about it, or what the isolate was told of it.
Told(id, key) ==
    IF Posting(id, key) THEN cache[id][key] = thread.command
    ELSE /\ \A i \in DOMAIN port : LastWord(i, id, key) => port[i] = cache[id][key]
         /\ (\A i \in DOMAIN port : ~ About(port[i], id, key))
               => seen[id][key] = cache[id][key]

ToldInv == connected => \A id \in Ids, key \in Keys : Told(id, key)

\* A change entered in the cache is the one about to be posted.
LEMMA ToldUpdate == ASSUME IndInv, ToldInv, connected, UpdateCache PROVE ToldInv'
<1> DEFINE c == thread.command
<1>0. /\ thread.pc = "parsed" /\ cache' = Enter(cache, c)
      /\ thread'.pc = "cached" /\ thread'.command = c
      /\ UNCHANGED <<connected, port, seen>>
      /\ c \in Commands /\ cache \in Entries
  BY DEF UpdateCache, At, IndInv, TypeOK, Idle
<1> HIDE DEF c
<1>1. ASSUME NEW id \in Ids, NEW key \in Keys PROVE Told(id, key)'
  <2>1. cache'[id][key] = IF About(c, id, key) THEN c ELSE cache[id][key]
    BY <1>0, EnterEntry DEF About
  <2>2. Posting(id, key)' <=> About(c, id, key)
    BY <1>0 DEF Posting, About
  <2>3. ~ Posting(id, key)
    BY <1>0 DEF Posting
  <2> QED BY <1>0, <2>1, <2>2, <2>3 DEF ToldInv, Told, LastWord, About
<1> QED BY <1>1 DEF ToldInv

\* Posted, it is the last event in flight about its parameter.
LEMMA ToldPost == ASSUME IndInv, ToldInv, connected, PostParamChanged PROVE ToldInv'
<1> DEFINE c == thread.command
<1>0. /\ thread.pc = "cached" /\ port' = Append(port, c)
      /\ thread'.pc = "idle"
      /\ UNCHANGED <<cache, seen>>
      /\ c \in Commands /\ port \in Seq(Commands)
  BY DEF PostParamChanged, Post, IndInv, TypeOK, Idle
<1>1. /\ \A i \in DOMAIN port : i \in DOMAIN port' /\ port'[i] = port[i]
                                /\ i < Len(port) + 1
      /\ Len(port) + 1 \in DOMAIN port' /\ port'[Len(port) + 1] = c
      /\ \A i \in DOMAIN port' : i \in DOMAIN port \/ i = Len(port) + 1
  BY <1>0, Appended
<1>2. ASSUME NEW id \in Ids, NEW key \in Keys PROVE Told(id, key)'
  <2>1. ~ Posting(id, key)' /\ Told(id, key)
    BY <1>0 DEF Posting, ToldInv
  <2>2. CASE About(c, id, key)
    <3>1. cache[id][key] = c
      BY <1>0, <2>1, <2>2 DEF Told, Posting
    <3>2. ASSUME NEW i \in DOMAIN port', LastWord(i, id, key)' PROVE port'[i] = c
      BY <1>1, <2>2, <3>2 DEF LastWord
    <3> HIDE DEF c
    <3> QED BY <1>0, <1>1, <2>1, <2>2, <3>1, <3>2 DEF Told
  <2>3. CASE ~ About(c, id, key)
    <3>1. ~ Posting(id, key)
      BY <2>3 DEF Posting
    <3>2. ASSUME NEW i \in DOMAIN port', LastWord(i, id, key)'
          PROVE  port'[i] = cache[id][key]
      <4>1. About(port'[i], id, key)
        BY <3>2 DEF LastWord
      <4>2. i \in DOMAIN port
        BY <1>1, <2>3, <4>1
      <4>3. LastWord(i, id, key)
        BY <1>1, <3>2, <4>2 DEF LastWord
      <4> QED BY <1>1, <2>1, <3>1, <4>2, <4>3 DEF Told
    <3>3. ASSUME \A i \in DOMAIN port' : ~ About(port'[i], id, key)
          PROVE  seen[id][key] = cache[id][key]
      BY <1>1, <2>1, <3>1, <3>3 DEF Told
    <3> QED BY <1>0, <2>1, <3>2, <3>3 DEF Told
  <2> QED BY <2>2, <2>3
<1> QED BY <1>2 DEF ToldInv

\* The delivery of the last event about a parameter shows what the cache holds.
LEMMA ToldDeliver == ASSUME IndInv, ToldInv, connected, Deliver PROVE ToldInv'
<1> DEFINE c == Head(port)
<1>0. /\ port # <<>> /\ seen' = Enter(seen, c) /\ port' = Tail(port)
      /\ UNCHANGED <<thread, cache>>
      /\ port \in Seq(Commands) /\ seen \in Entries
  BY DEF IndInv, TypeOK, Deliver
<1>1. /\ c \in Commands /\ c = port[1] /\ 1 \in DOMAIN port
      /\ \A i \in DOMAIN port' : i + 1 \in DOMAIN port /\ port'[i] = port[i + 1]
      /\ \A i \in DOMAIN port : i # 1 => i - 1 \in DOMAIN port'
                                         /\ port'[i - 1] = port[i]
  BY <1>0, HeadTail
<1>2. /\ \A i \in DOMAIN port : i \in Nat /\ i >= 1
      /\ \A i \in DOMAIN port' : i \in Nat /\ i >= 1
  BY <1>0
<1> HIDE DEF c
<1>3. ASSUME NEW id \in Ids, NEW key \in Keys PROVE Told(id, key)'
  <2>1. (Posting(id, key)' <=> Posting(id, key)) /\ Told(id, key)
    BY <1>0 DEF Posting, ToldInv
  <2>2. CASE Posting(id, key)
    BY <1>0, <2>1, <2>2 DEF Told
  <2>3. CASE ~ Posting(id, key)
    <3>1. ASSUME NEW i \in DOMAIN port', LastWord(i, id, key)'
          PROVE  port'[i] = cache[id][key]
      <4>1. i + 1 \in DOMAIN port /\ port[i + 1] = port'[i]
        BY <1>1
      <4>2. ASSUME NEW j \in DOMAIN port, j > i + 1 PROVE ~ About(port[j], id, key)
        <5>1. j - 1 \in DOMAIN port' /\ port'[j - 1] = port[j] /\ j - 1 > i
          BY <1>1, <1>2, <4>1, <4>2
        <5> QED BY <3>1, <5>1 DEF LastWord
      <4>3. LastWord(i + 1, id, key)
        BY <3>1, <4>1, <4>2 DEF LastWord
      <4> QED BY <2>1, <2>3, <4>1, <4>3 DEF Told
    <3>2. ASSUME \A i \in DOMAIN port' : ~ About(port'[i], id, key)
          PROVE  seen'[id][key] = cache[id][key]
      <4>1. ASSUME NEW j \in DOMAIN port, j # 1 PROVE ~ About(port[j], id, key)
        BY <1>1, <3>2, <4>1
      <4>2. seen'[id][key] = IF About(c, id, key) THEN c ELSE seen[id][key]
        BY <1>0, <1>1, EnterEntry DEF About
      <4>3. CASE About(c, id, key)
        <5>1. LastWord(1, id, key)
          BY <1>1, <4>1, <4>3 DEF LastWord
        <5> QED BY <1>1, <2>1, <2>3, <4>2, <4>3, <5>1 DEF Told
      <4>4. CASE ~ About(c, id, key)
        BY <1>1, <2>1, <2>3, <4>1, <4>2, <4>4 DEF Told
      <4> QED BY <4>3, <4>4
    <3> QED BY <1>0, <2>1, <2>3, <3>1, <3>2 DEF Told
  <2> QED BY <2>2, <2>3
<1> QED BY <1>3 DEF ToldInv

\* Every step keeps what the isolate is told, as long as it is told anything.
LEMMA ToldStep == ASSUME IndInv, ToldInv, [Next]_vars PROVE ToldInv'
<1>1. CASE ~ connected
  <2>1. ~ connected'
    BY <1>1 DEF Next, SetNodeParam, Accept, Disconnect, Thread, ParseCommand,
                UpdateCache, PostParamChanged, Deliver, vars, IndInv, TypeOK
  <2> QED BY <2>1 DEF ToldInv
<1>2. CASE ParseCommand
  <2>1. /\ thread.pc # "cached" /\ thread'.pc # "cached"
        /\ UNCHANGED <<connected, cache, port, seen>>
    BY <1>2 DEF ParseCommand, Idle, At
  <2> QED BY <2>1 DEF ToldInv, Told, Posting, LastWord
<1>3. CASE UNCHANGED <<connected, thread, cache, port, seen>>
  BY <1>3 DEF ToldInv, Told, Posting, LastWord
<1>4. CASE Disconnect
  BY <1>4 DEF Disconnect, ToldInv
<1>5. ASSUME NEW id \in Ids, NEW key \in Keys, NEW plain \in BOOLEAN,
             SetNodeParam(id, key, plain)
      PROVE  ToldInv'
  BY <1>3, <1>5 DEF SetNodeParam, Accept
<1>6. CASE UNCHANGED vars
  BY <1>3, <1>6 DEF vars
<1> QED BY <1>1, <1>2, <1>4, <1>5, <1>6, ToldUpdate, ToldPost, ToldDeliver
        DEF Next, Thread

\* Whenever no event is on its way and none is about to be posted, the program
\* has been told of every parameter what the cache holds of it, although the
\* event is posted after the unlock (param_handler.cpp:74).
THEOREM Seen_When_Told == Spec => []SeenWhenTold
<1>1. Init => ToldInv
  <2> SUFFICES ASSUME Init, NEW id \in Ids, NEW key \in Keys PROVE Told(id, key)
    BY DEF ToldInv
  <2>1. cache[id][key] = seen[id][key] /\ DOMAIN port = {} /\ thread.pc = "idle"
    BY DEF Init, Empty, Idle
  <2> QED BY <2>1 DEF Told, Posting
<1>2. IndInv /\ ToldInv /\ [Next]_vars => ToldInv'
  BY ToldStep
<1>3. IndInv /\ ToldInv => SeenWhenTold
  <2> SUFFICES ASSUME IndInv, ToldInv, connected, thread.pc # "cached", port = <<>>
               PROVE  seen = cache
    BY DEF SeenWhenTold
  <2>1. \A id \in Ids, key \in Keys : seen[id][key] = cache[id][key]
    BY DEF ToldInv, Told, Posting
  <2>2. seen \in Entries /\ cache \in Entries
    BY DEF IndInv, TypeOK
  <2>3. \A id \in Ids : seen[id] = cache[id]
    BY <2>1, <2>2 DEF Entries
  <2> QED BY <2>2, <2>3 DEF Entries
<1> QED BY <1>1, <1>2, <1>3, Invariant, PTL DEF Spec
=============================================================================
