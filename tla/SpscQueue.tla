----------------------------- MODULE SpscQueue -----------------------------
(***************************************************************************)
(* The lock-free ring buffer that carries commands from the Dart isolate   *)
(* to the PipeWire thread (src/src/command_queue.hpp).  try_push and       *)
(* try_pop are cut at every access to shared memory, so the two threads    *)
(* interleave between a load, the slot access and the index store.         *)
(*                                                                         *)
(* An acquire load of the other thread's index may return a stale value:   *)
(* any value that index has had since the last one this thread saw.  The   *)
(* count of pops (pushes) a thread has seen so far bounds how stale.       *)
(***************************************************************************)
EXTENDS Naturals, Sequences

CONSTANTS
    N,          \* slots in the ring
    Items,      \* the commands
    Empty,      \* content of a slot nothing was stored in, or moved from
    MaxPush     \* bound on the pushes a run makes; Nat when there is none

ASSUME NAssumption == N \in Nat /\ N >= 2

ASSUME EmptyAssumption == Empty \notin Items

ASSUME MaxPushAssumption == MaxPush \subseteq Nat

VARIABLES
    head,       \* next slot the producer fills
    tail,       \* next slot the consumer takes
    buffer,     \* the slots
    ppc,        \* where the producer is in try_push
    pitem,      \* the argument of the try_push in progress
    pseen,      \* number of pops the producer has seen through tail
    cpc,        \* where the consumer is in try_pop
    citem,      \* the item moved out of the slot, not yet returned
    cseen,      \* number of pushes the consumer has seen through head
    pushed,     \* history: commands published by a head store
    popped      \* history: commands released by a tail store

vars == <<head, tail, buffer, ppc, pitem, pseen, cpc, citem, cseen,
          pushed, popped>>

producerVars == <<ppc, pitem, pseen, pushed>>
consumerVars == <<cpc, citem, cseen, popped>>

Slots == 0 .. N - 1

\* Mutant: the index is not masked.
NextSlotUnmasked(i) == i + 1

\* (i + 1) & mask_ : the slot after i.
NextSlot(i) == IF i = N - 1 THEN 0 ELSE i + 1

\* The value an index had k stores ago, when it is i now.
SlotBefore(i, k) == IF i >= k THEN i - k ELSE i + N - k

Init ==
    /\ head = 0 /\ tail = 0
    /\ buffer = [s \in Slots |-> Empty]
    /\ ppc = "idle" /\ pitem = Empty /\ pseen = 0
    /\ cpc = "idle" /\ citem = Empty /\ cseen = 0
    /\ pushed = <<>> /\ popped = <<>>

-----------------------------------------------------------------------------
\* try_push, on the Dart isolate's thread.

\* The values an acquire load of tail_ may return, as the number of pops
\* behind the newest store that it is.
TailLag == 0 .. Len(popped) - pseen

\* Mutant: one slot too many is kept free.
PushFullEarly ==
    /\ ppc = "idle"
    /\ \E lag \in TailLag :
          /\ NextSlot(NextSlot(head)) = SlotBefore(tail, lag)
          /\ pseen' = Len(popped) - lag
    /\ UNCHANGED <<head, tail, buffer, ppc, pitem, pushed, consumerVars>>

\* The load of tail_ shows a full ring: try_push returns false.
PushFull ==
    /\ ppc = "idle"
    /\ \E lag \in TailLag :
          /\ NextSlot(head) = SlotBefore(tail, lag)
          /\ pseen' = Len(popped) - lag
    /\ UNCHANGED <<head, tail, buffer, ppc, pitem, pushed, consumerVars>>

\* Mutant: the ring is never taken for full.
PushUnchecked(item) ==
    /\ ppc = "idle"
    /\ Len(pushed) \in MaxPush
    /\ pseen' \in pseen .. Len(popped)
    /\ ppc' = "store"
    /\ pitem' = item
    /\ UNCHANGED <<head, tail, buffer, pushed, consumerVars>>

\* Mutant: head_ is stored without waiting for the item to be in its slot.
PushUnstored(item) ==
    /\ ppc = "idle"
    /\ Len(pushed) \in MaxPush
    /\ \E lag \in TailLag :
          /\ NextSlot(head) # SlotBefore(tail, lag)
          /\ pseen' = Len(popped) - lag
    /\ ppc' = "publish"
    /\ pitem' = item
    /\ UNCHANGED <<head, tail, buffer, pushed, consumerVars>>

\* The load of tail_ shows a free slot.
PushCheck(item) ==
    /\ ppc = "idle"
    /\ Len(pushed) \in MaxPush
    /\ \E lag \in TailLag :
          /\ NextSlot(head) # SlotBefore(tail, lag)
          /\ pseen' = Len(popped) - lag
    /\ ppc' = "store"
    /\ pitem' = item
    /\ UNCHANGED <<head, tail, buffer, pushed, consumerVars>>

\* buffer_[head] = std::move(item)
PushStore ==
    /\ ppc = "store"
    /\ buffer' = [buffer EXCEPT ![head] = pitem]
    /\ ppc' = "publish"
    /\ UNCHANGED <<head, tail, pitem, pseen, pushed, consumerVars>>

\* head_.store(next, release): try_push returns true.
PushPublish ==
    /\ ppc = "publish"
    /\ head' = NextSlot(head)
    /\ pushed' = Append(pushed, pitem)
    /\ ppc' = "idle"
    /\ pitem' = Empty
    /\ UNCHANGED <<tail, buffer, pseen, consumerVars>>

-----------------------------------------------------------------------------
\* try_pop, on the PipeWire thread.

HeadLag == 0 .. Len(pushed) - cseen

\* The load of head_ shows an empty ring: try_pop returns nullopt.
PopEmpty ==
    /\ cpc = "idle"
    /\ \E lag \in HeadLag :
          /\ tail = SlotBefore(head, lag)
          /\ cseen' = Len(pushed) - lag
    /\ UNCHANGED <<head, tail, buffer, cpc, citem, popped, producerVars>>

\* Mutant: an empty ring is popped.
PopUnchecked ==
    /\ cpc = "idle"
    /\ cseen' \in cseen .. Len(pushed)
    /\ cpc' = "take"
    /\ UNCHANGED <<head, tail, buffer, citem, popped, producerVars>>

\* The load of head_ shows an item.
PopCheck ==
    /\ cpc = "idle"
    /\ \E lag \in HeadLag :
          /\ tail # SlotBefore(head, lag)
          /\ cseen' = Len(pushed) - lag
    /\ cpc' = "take"
    /\ UNCHANGED <<head, tail, buffer, citem, popped, producerVars>>

\* T item = std::move(buffer_[tail])
PopTake ==
    /\ cpc = "take"
    /\ citem' = buffer[tail]
    /\ buffer' = [buffer EXCEPT ![tail] = Empty]
    /\ cpc' = "release"
    /\ UNCHANGED <<head, tail, cseen, popped, producerVars>>

\* tail_.store(tail + 1, release): try_pop returns the item.
PopRelease ==
    /\ cpc = "release"
    /\ tail' = NextSlot(tail)
    /\ popped' = Append(popped, citem)
    /\ cpc' = "idle"
    /\ citem' = Empty
    /\ UNCHANGED <<head, buffer, cseen, producerVars>>

-----------------------------------------------------------------------------
Producer ==
    \/ PushFull
    \/ \E item \in Items : PushCheck(item)
    \/ PushStore
    \/ PushPublish

Consumer == PopEmpty \/ PopCheck \/ PopTake \/ PopRelease

Next == Producer \/ Consumer

Spec == Init /\ [][Next]_vars

-----------------------------------------------------------------------------
\* Properties

\* The type invariant.
TypeOK ==
    /\ head \in Slots /\ tail \in Slots
    /\ buffer \in [Slots -> Items \union {Empty}]
    /\ ppc \in {"idle", "store", "publish"}
    /\ pitem \in Items \union {Empty}
    /\ ppc # "idle" => pitem \in Items
    /\ cpc \in {"idle", "take", "release"}
    /\ citem \in Items \union {Empty}
    /\ pseen \in Nat /\ cseen \in Nat
    /\ pushed \in Seq(Items)
    /\ popped \in Seq(Items \union {Empty})

\* The slots are plain memory: the producer never stores into the slot the
\* consumer is moving out of, however stale the indexes they checked were.
NoSlotRace == ~ (ppc = "store" /\ cpc = "take" /\ head = tail)

\* Equal indexes mean empty and never full.  try_push says "full" only when
\* the commands it has not seen taken fill the N - 1 usable slots, and
\* try_pop says "empty" only when it has taken every command it can see.
AnswersAreExact ==
    [][ /\ PushFull => Len(pushed) - pseen' = N - 1
        /\ PopEmpty => cseen' = Len(popped) ]_vars

Waiting == Len(pushed) - Len(popped)

\* The slot of the j-th waiting command, from 0 for the oldest.
SlotOf(j) == IF tail + j >= N THEN tail + j - N ELSE tail + j

\* The head index is where the waiting commands end, and there are never
\* more of them than the N - 1 that capacity() promises.
IndexInv ==
    /\ Waiting \in 0 .. N - 1
    /\ head = SlotOf(Waiting)

\* What each thread has seen of the other lags behind, never so far that
\* the ring could wrap onto what it has not seen.
SeenInv ==
    /\ pseen <= Len(popped)
    /\ Len(pushed) - pseen <= N - 1
    /\ ppc # "idle" => Len(pushed) - pseen < N - 1
    /\ cseen <= Len(pushed)
    /\ Len(popped) <= cseen
    /\ cpc # "idle" => Len(popped) < cseen

\* Every waiting command is intact in its slot, or in the consumer's hand.
ContentInv ==
    /\ \A j \in 0 .. Waiting - 1 :
          \/ j = 0 /\ cpc = "release"
          \/ buffer[SlotOf(j)] = pushed[Len(popped) + j + 1]
    /\ cpc = "release" => citem = pushed[Len(popped) + 1]
    /\ ppc = "publish" => buffer[head] = pitem

\* Commands come out in the order they were accepted, none lost or repeated.
FifoOrder == \A i \in 1 .. Len(popped) : popped[i] = pushed[i]

\* The inductive invariant.
IndInv == TypeOK /\ IndexInv /\ SeenInv /\ ContentInv /\ FifoOrder

\* The ring is the bounded queue of BoundedFifo: a push happens when head_ is
\* stored, a pop when tail_ is, and N - 1 slots are usable.
Fifo == INSTANCE BoundedFifo WITH Capacity <- N - 1

\* try_push and try_pop, however they interleave, are the pushes and pops of
\* one bounded first-in first-out queue.
ImplementsFifo == Fifo!Spec
=============================================================================
