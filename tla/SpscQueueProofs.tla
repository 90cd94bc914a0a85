-------------------------- MODULE SpscQueueProofs --------------------------
(***************************************************************************)
(* Proofs about SpscQueue, for every ring size N >= 2, every set of        *)
(* commands and any number of pushes: the inductive invariant, and what    *)
(* follows from it.                                                        *)
(***************************************************************************)
EXTENDS SpscQueue, TLAPS

\* The arithmetic of the ring: SlotOf and SlotBefore stay in the ring, the
\* slot after the j-th waiting command is the (j+1)-th, and two waiting
\* commands never share a slot.
LEMMA RingArithmetic ==
    ASSUME tail \in Slots
    PROVE  /\ \A j \in 0 .. N - 1 : SlotOf(j) \in Slots
           /\ \A j \in 0 .. N - 2 : NextSlot(SlotOf(j)) = SlotOf(j + 1)
           /\ \A i, j \in 0 .. N - 1 : SlotOf(i) = SlotOf(j) => i = j
           /\ \A j, k \in 0 .. N - 1 :
                 k <= j => SlotBefore(SlotOf(j), k) = SlotOf(j - k)
           /\ NextSlot(tail) \in Slots
           /\ SlotOf(0) = tail
BY NAssumption DEF Slots, SlotOf, NextSlot, SlotBefore

\* Every variable keeps its type, and the invariant holds initially.
LEMMA InitInd == Init => IndInv
<1> SUFFICES ASSUME Init PROVE IndInv
    OBVIOUS
<1>1. Len(pushed) = 0 /\ Len(popped) = 0
    BY DEF Init
<1>2. TypeOK
    BY NAssumption DEF Init, TypeOK, Slots
<1>3. IndexInv /\ SeenInv /\ ContentInv /\ FifoOrder
    BY <1>1, NAssumption
    DEF Init, IndexInv, SeenInv, ContentInv, FifoOrder, Waiting, SlotOf
<1> QED
    BY <1>2, <1>3 DEF IndInv

\* The invariant is preserved by every step of either thread.
LEMMA NextInd == IndInv /\ [Next]_vars => IndInv'
<1> SUFFICES ASSUME IndInv, [Next]_vars PROVE IndInv'
    OBVIOUS
<1> USE NAssumption DEF Slots
<1>a. /\ TypeOK /\ IndexInv /\ SeenInv /\ ContentInv /\ FifoOrder
      /\ Len(pushed) \in Nat /\ Len(popped) \in Nat /\ Waiting \in 0 .. N - 1
    BY DEF IndInv, TypeOK, IndexInv
<1>1. CASE PushFull
    <2>1. pseen' \in Nat /\ pseen' >= pseen /\ pseen' <= Len(popped)
        BY <1>1, <1>a DEF PushFull, TailLag, TypeOK, SeenInv
    <2>2. UNCHANGED <<head, tail, buffer, ppc, pitem, pushed, cpc, citem,
                      cseen, popped>>
        BY <1>1 DEF PushFull, consumerVars
    <2>3. TypeOK'
        BY <2>1, <2>2, <1>a DEF TypeOK
    <2>4. SeenInv'
        BY <2>1, <2>2, <1>a DEF SeenInv, TypeOK
    <2>5. IndexInv' /\ ContentInv' /\ FifoOrder'
        BY <2>2, <1>a DEF IndexInv, ContentInv, FifoOrder, Waiting, SlotOf
    <2> QED BY <2>3, <2>4, <2>5 DEF IndInv
<1>2. ASSUME NEW item \in Items, PushCheck(item) PROVE IndInv'
    <2>1. PICK lag \in TailLag :
             /\ NextSlot(head) # SlotBefore(tail, lag)
             /\ pseen' = Len(popped) - lag
        BY <1>2 DEF PushCheck
    <2>2. /\ pseen' \in Nat /\ pseen' >= pseen /\ pseen' <= Len(popped)
          /\ lag \in Nat /\ lag <= N - 1 - Waiting
        BY <2>1, <1>a DEF TailLag, TypeOK, SeenInv, Waiting
    <2>3. /\ UNCHANGED <<head, tail, buffer, pushed, cpc, citem, cseen, popped>>
          /\ ppc = "idle" /\ ppc' = "store" /\ pitem' = item
        BY <1>2 DEF PushCheck, consumerVars
    <2>4. TypeOK'
        BY <2>2, <2>3, <1>a DEF TypeOK
    <2>5. Len(pushed) - pseen' # N - 1
        <3> SUFFICES ASSUME Len(pushed) - pseen' = N - 1 PROVE FALSE
            OBVIOUS
        <3>1. lag = N - 1 - Waiting
            BY <2>1, <2>2, <1>a DEF TypeOK, Waiting
        <3>2. NextSlot(head) = SlotBefore(tail, lag)
            BY <3>1, <1>a DEF IndexInv, SlotOf, NextSlot, SlotBefore, TypeOK
        <3> QED BY <3>2, <2>1
    <2>6. SeenInv'
        <3>1. Len(pushed) - pseen' < N - 1
            BY <2>2, <2>5, <1>a DEF SeenInv, TypeOK
        <3> QED BY <3>1, <2>2, <2>3, <1>a DEF SeenInv
    <2>7. IndexInv' /\ ContentInv' /\ FifoOrder'
        BY <2>3, <1>a DEF IndexInv, ContentInv, FifoOrder, Waiting, SlotOf
    <2> QED BY <2>4, <2>6, <2>7 DEF IndInv
<1>3. CASE PushStore
    <2>1. /\ UNCHANGED <<head, tail, pitem, pseen, pushed, cpc, citem, cseen,
                         popped>>
          /\ ppc = "store" /\ ppc' = "publish"
          /\ buffer' = [buffer EXCEPT ![head] = pitem]
        BY <1>3 DEF PushStore, consumerVars
    <2>2. TypeOK'
        BY <2>1, <1>a DEF TypeOK
    <2>3. IndexInv' /\ SeenInv' /\ FifoOrder'
        BY <2>1, <1>a DEF IndexInv, SeenInv, FifoOrder, Waiting, SlotOf
    <2>4. \A j \in 0 .. Waiting - 1 : buffer'[SlotOf(j)] = buffer[SlotOf(j)]
        BY <2>1, <1>a, RingArithmetic DEF TypeOK, IndexInv
    <2>5. ContentInv'
        <3>1. Waiting' = Waiting /\ \A j : SlotOf(j)' = SlotOf(j)
            BY <2>1 DEF Waiting, SlotOf
        <3> QED BY <3>1, <2>1, <2>4, <1>a DEF ContentInv, TypeOK
    <2> QED BY <2>2, <2>3, <2>5 DEF IndInv
<1>4. CASE PushPublish
    <2>1. /\ UNCHANGED <<tail, buffer, pseen, cpc, citem, cseen, popped>>
          /\ ppc = "publish" /\ ppc' = "idle" /\ pitem' = Empty
          /\ head' = NextSlot(head) /\ pushed' = Append(pushed, pitem)
        BY <1>4 DEF PushPublish, consumerVars
    <2>2. /\ Len(pushed') = Len(pushed) + 1
          /\ pushed' \in Seq(Items)
          /\ pushed'[Len(pushed) + 1] = pitem
          /\ \A i \in 1 .. Len(pushed) : pushed'[i] = pushed[i]
        BY <2>1, <1>a DEF TypeOK
    <2>3. Waiting' = Waiting + 1 /\ Waiting \in 0 .. N - 2
        BY <2>1, <2>2, <1>a DEF Waiting, SeenInv, TypeOK
    <2>4. head' = SlotOf(Waiting + 1) /\ \A j : SlotOf(j)' = SlotOf(j)
        BY <2>1, <2>3, <1>a, RingArithmetic DEF IndexInv, TypeOK, SlotOf
    <2>5. TypeOK'
        <3>1. head' \in Slots
            BY <2>1, <1>a DEF TypeOK, NextSlot
        <3> QED BY <3>1, <2>1, <2>2, <1>a DEF TypeOK
    <2>6. IndexInv' /\ SeenInv'
        BY SMTT(30), <2>1, <2>2, <2>3, <2>4, <1>a DEF IndexInv, SeenInv, TypeOK, Waiting
    <2>7. ContentInv'
        <3>1. ASSUME NEW j \in 0 .. Waiting
              PROVE  \/ j = 0 /\ cpc = "release"
                     \/ buffer[SlotOf(j)] = pushed'[Len(popped) + j + 1]
            <4>1. CASE j = Waiting
                <5>1. Len(popped) + j + 1 = Len(pushed) + 1
                    BY <4>1, <1>a DEF Waiting
                <5>2. buffer[SlotOf(j)] = pitem
                    BY <4>1, <2>1, <1>a DEF ContentInv, IndexInv
                <5> QED BY <5>1, <5>2, <2>2
            <4>2. CASE j # Waiting
                <5>1. j \in 0 .. Waiting - 1
                    BY <4>2, <1>a
                <5>2. Len(popped) + j + 1 \in 1 .. Len(pushed)
                    BY <5>1, <1>a DEF Waiting
                <5>3. \/ j = 0 /\ cpc = "release"
                      \/ buffer[SlotOf(j)] = pushed[Len(popped) + j + 1]
                    BY <5>1, <1>a DEF ContentInv
                <5>4. pushed'[Len(popped) + j + 1] = pushed[Len(popped) + j + 1]
                    BY <5>2, <2>2
                <5> QED BY <5>3, <5>4
            <4> QED BY <4>1, <4>2
        <3>2. cpc = "release" => citem = pushed'[Len(popped) + 1]
            <4>1. cpc = "release" => Len(popped) + 1 \in 1 .. Len(pushed)
                BY <1>a DEF SeenInv, TypeOK
            <4> QED BY <4>1, <2>2, <1>a DEF ContentInv
        <3>3. 0 .. Waiting' - 1 = 0 .. Waiting
            BY <2>3
        <3>4. \A j \in 0 .. Waiting' - 1 :
                 \/ j = 0 /\ cpc' = "release"
                 \/ buffer'[SlotOf(j)'] = pushed'[Len(popped') + j + 1]
            BY <3>1, <3>3, <2>1, <2>4
        <3>5. cpc' = "release" => citem' = pushed'[Len(popped') + 1]
            BY <3>2, <2>1
        <3> QED BY <3>4, <3>5, <2>1 DEF ContentInv
    <2>8. FifoOrder'
        BY <2>1, <2>2, <1>a DEF FifoOrder, Waiting
    <2> QED BY <2>5, <2>6, <2>7, <2>8 DEF IndInv
<1>5. CASE PopEmpty
    <2>1. cseen' \in Nat /\ cseen' >= cseen /\ cseen' <= Len(pushed)
        BY <1>5, <1>a DEF PopEmpty, HeadLag, TypeOK, SeenInv
    <2>2. UNCHANGED <<head, tail, buffer, ppc, pitem, pseen, pushed, cpc,
                      citem, popped>> /\ cpc = "idle"
        BY <1>5 DEF PopEmpty, producerVars
    <2>3. TypeOK'
        BY <2>1, <2>2, <1>a DEF TypeOK
    <2>4. SeenInv'
        BY <2>1, <2>2, <1>a DEF SeenInv, TypeOK
    <2>5. IndexInv' /\ ContentInv' /\ FifoOrder'
        BY <2>2, <1>a DEF IndexInv, ContentInv, FifoOrder, Waiting, SlotOf
    <2> QED BY <2>3, <2>4, <2>5 DEF IndInv
<1>6. CASE PopCheck
    <2>1. PICK lag \in HeadLag :
             /\ tail # SlotBefore(head, lag)
             /\ cseen' = Len(pushed) - lag
        BY <1>6 DEF PopCheck
    <2>2. /\ cseen' \in Nat /\ cseen' >= cseen /\ cseen' <= Len(pushed)
          /\ lag \in Nat /\ lag <= Waiting
        BY <2>1, <1>a DEF HeadLag, TypeOK, SeenInv, Waiting
    <2>3. /\ UNCHANGED <<head, tail, buffer, ppc, pitem, pseen, pushed, citem,
                         popped>>
          /\ cpc = "idle" /\ cpc' = "take"
        BY <1>6 DEF PopCheck, producerVars
    <2>4. TypeOK'
        BY <2>2, <2>3, <1>a DEF TypeOK
    <2>5. cseen' # Len(popped)
        <3> SUFFICES ASSUME cseen' = Len(popped) PROVE FALSE
            OBVIOUS
        <3>1. lag = Waiting
            BY <2>1, <2>2, <1>a DEF TypeOK, Waiting
        <3>2. SlotBefore(head, lag) = tail
            BY <3>1, <1>a, RingArithmetic DEF IndexInv, TypeOK
        <3> QED BY <3>2, <2>1
    <2>6. SeenInv'
        BY <2>2, <2>3, <2>5, <1>a DEF SeenInv, TypeOK
    <2>7. IndexInv' /\ ContentInv' /\ FifoOrder'
        BY <2>3, <1>a DEF IndexInv, ContentInv, FifoOrder, Waiting, SlotOf
    <2> QED BY <2>4, <2>6, <2>7 DEF IndInv
<1>7. CASE PopTake
    <2>1. /\ UNCHANGED <<head, tail, ppc, pitem, pseen, pushed, cseen, popped>>
          /\ cpc = "take" /\ cpc' = "release"
          /\ citem' = buffer[tail]
          /\ buffer' = [buffer EXCEPT ![tail] = Empty]
        BY <1>7 DEF PopTake, producerVars
    <2>2. TypeOK'
        BY <2>1, <1>a DEF TypeOK
    <2>3. IndexInv' /\ SeenInv' /\ FifoOrder'
        BY <2>1, <1>a DEF IndexInv, SeenInv, FifoOrder, Waiting, SlotOf
    <2>4. Waiting \in 1 .. N - 1 /\ head # tail
        <3>1. Waiting \in 1 .. N - 1
            BY <2>1, <1>a DEF SeenInv, Waiting, TypeOK
        <3>2. SlotOf(Waiting) # SlotOf(0)
            BY <3>1, <1>a, RingArithmetic DEF TypeOK
        <3> QED BY <3>1, <3>2, <1>a, RingArithmetic DEF IndexInv, TypeOK
    <2>5. citem' = pushed[Len(popped) + 1]
        <3>1. SlotOf(0) = tail
            BY <1>a, RingArithmetic DEF TypeOK
        <3>2. buffer[SlotOf(0)] = pushed[Len(popped) + 0 + 1]
            BY <2>1, <2>4, <1>a DEF ContentInv
        <3> QED BY <3>1, <3>2, <2>1, <1>a
    <2>6. \A j \in 1 .. Waiting - 1 : buffer'[SlotOf(j)] = buffer[SlotOf(j)]
        BY <2>1, <2>4, <1>a, RingArithmetic DEF TypeOK
    <2>7. ContentInv'
        <3>1. Waiting' = Waiting /\ \A j : SlotOf(j)' = SlotOf(j)
            BY <2>1 DEF Waiting, SlotOf
        <3>2. \A j \in 1 .. Waiting - 1 :
                 buffer'[SlotOf(j)] = pushed[Len(popped) + j + 1]
            BY <2>1, <2>6, <1>a DEF ContentInv
        <3>3. ppc = "publish" => buffer'[head] = pitem
            BY <2>1, <2>4, <1>a DEF ContentInv, TypeOK
        <3> QED BY <3>1, <3>2, <3>3, <2>1, <2>4, <2>5 DEF ContentInv
    <2> QED BY <2>2, <2>3, <2>7 DEF IndInv
<1>8. CASE PopRelease
    <2>1. /\ UNCHANGED <<head, buffer, ppc, pitem, pseen, pushed, cseen>>
          /\ cpc = "release" /\ cpc' = "idle" /\ citem' = Empty
          /\ tail' = NextSlot(tail) /\ popped' = Append(popped, citem)
        BY <1>8 DEF PopRelease, producerVars
    <2>2. /\ Len(popped') = Len(popped) + 1
          /\ popped' \in Seq(Items \union {Empty})
          /\ popped'[Len(popped) + 1] = citem
          /\ \A i \in 1 .. Len(popped) : popped'[i] = popped[i]
        BY <2>1, <1>a DEF TypeOK
    <2>3. Waiting' = Waiting - 1 /\ Waiting \in 1 .. N - 1
        BY <2>1, <2>2, <1>a DEF Waiting, SeenInv, TypeOK
    <2>4. \A j \in 0 .. Waiting - 1 : SlotOf(j)' = SlotOf(j + 1)
        BY <2>1, <2>3, <1>a DEF SlotOf, NextSlot, TypeOK
    <2>5. TypeOK'
        <3>1. tail' \in Slots
            BY <2>1, <1>a, RingArithmetic DEF TypeOK
        <3> QED BY <3>1, <2>1, <2>2, <1>a DEF TypeOK
    <2>6. IndexInv'
        BY <2>1, <2>3, <2>4, <1>a DEF IndexInv
    <2>7. SeenInv'
        BY <2>1, <2>2, <1>a DEF SeenInv, TypeOK
    <2>8. ContentInv'
        <3>1. ASSUME NEW j \in 0 .. Waiting' - 1
              PROVE  buffer'[SlotOf(j)'] = pushed'[Len(popped') + j + 1]
            <4>1. j + 1 \in 1 .. Waiting - 1 /\ j \in 0 .. Waiting - 1
                BY <2>3
            <4>2. buffer[SlotOf(j + 1)] = pushed[Len(popped) + (j + 1) + 1]
                BY <4>1, <1>a DEF ContentInv
            <4>3. Len(popped') + j + 1 = Len(popped) + (j + 1) + 1
                BY <2>2, <1>a, <4>1
            <4> QED BY <4>1, <4>2, <4>3, <2>1, <2>4
        <3> QED BY <3>1, <2>1, <1>a DEF ContentInv
    <2>9. FifoOrder'
        BY <2>1, <2>2, <1>a DEF FifoOrder, ContentInv
    <2> QED BY <2>5, <2>6, <2>7, <2>8, <2>9 DEF IndInv
<1>9. CASE UNCHANGED vars
    BY <1>9, <1>a
    DEF IndInv, TypeOK, IndexInv, SeenInv, ContentInv, FifoOrder, vars,
        Waiting, SlotOf
<1> QED
    BY <1>1, <1>2, <1>3, <1>4, <1>5, <1>6, <1>7, <1>8, <1>9
    DEF Next, Producer, Consumer

\* The ring's invariant holds in every reachable state: the indexes, what
\* each thread has seen, the slots' contents, types and order.
THEOREM Invariant == Spec => []IndInv
BY InitInd, NextInd, PTL DEF Spec

\* The indices stay inside the ring, and a producer between its check and its
\* store has a command to store.
THEOREM TypeCorrect == Spec => []TypeOK
<1>1. IndInv => TypeOK
    BY DEF IndInv
<1> QED BY <1>1, Invariant, PTL

\* Commands leave the queue in the order they entered (command_queue.hpp,
\* try_push and try_pop).
THEOREM Fifo_Order == Spec => []FifoOrder
<1>1. IndInv => FifoOrder
    BY DEF IndInv
<1> QED BY <1>1, Invariant, PTL

\* Producer and consumer never touch the same slot at once.
THEOREM NoRace == Spec => []NoSlotRace
<1>1. IndInv => NoSlotRace
    BY RingArithmetic, NAssumption
    DEF IndInv, TypeOK, IndexInv, SeenInv, NoSlotRace, Waiting, Slots
<1> QED BY <1>1, Invariant, PTL

\* "Full" and "empty" are never answered by mistake: equal indexes mean
\* empty, and a ring is full one slot short of N.
THEOREM ExactAnswers == Spec => AnswersAreExact
<1> DEFINE Exact == /\ PushFull => Len(pushed) - pseen' = N - 1
                    /\ PopEmpty => cseen' = Len(popped)
<1>1. ASSUME IndInv, PushFull PROVE Len(pushed) - pseen' = N - 1
    <2>1. PICK lag \in TailLag :
             /\ NextSlot(head) = SlotBefore(tail, lag)
             /\ pseen' = Len(popped) - lag
        BY <1>1 DEF PushFull
    <2>2. /\ TypeOK /\ IndexInv /\ SeenInv
          /\ Len(pushed) \in Nat /\ Len(popped) \in Nat
        BY <1>1 DEF IndInv, TypeOK
    <2>3. lag \in Nat /\ lag <= N - 1 - Waiting /\ Waiting \in 0 .. N - 1
        BY <2>1, <2>2, NAssumption DEF TailLag, TypeOK, SeenInv, IndexInv, Waiting
    <2>4. Waiting + lag = N - 1
        BY <2>1, <2>2, <2>3, NAssumption
        DEF IndexInv, SlotOf, NextSlot, SlotBefore, TypeOK, Slots
    <2> QED BY <2>1, <2>2, <2>3, <2>4 DEF Waiting
<1>2. ASSUME IndInv, PopEmpty PROVE cseen' = Len(popped)
    <2>1. PICK lag \in HeadLag :
             /\ tail = SlotBefore(head, lag)
             /\ cseen' = Len(pushed) - lag
        BY <1>2 DEF PopEmpty
    <2>2. /\ TypeOK /\ IndexInv /\ SeenInv
          /\ Len(pushed) \in Nat /\ Len(popped) \in Nat
        BY <1>2 DEF IndInv, TypeOK
    <2>3. lag \in Nat /\ lag <= Waiting /\ Waiting \in 0 .. N - 1
        BY <2>1, <2>2, NAssumption DEF HeadLag, TypeOK, SeenInv, IndexInv, Waiting
    <2>4. SlotOf(Waiting - lag) = SlotOf(0)
        BY <2>1, <2>2, <2>3, NAssumption, RingArithmetic DEF IndexInv, TypeOK
    <2>5. Waiting - lag = 0
        BY <2>2, <2>3, <2>4, NAssumption, RingArithmetic DEF TypeOK
    <2> QED BY <2>1, <2>2, <2>3, <2>5 DEF Waiting
<1>3. IndInv /\ [Next]_vars => [Exact]_vars
    BY <1>1, <1>2
<1>4. [][Exact]_vars => AnswersAreExact
    BY PTL DEF AnswersAreExact
<1> QED
    BY <1>3, <1>4, Invariant, PTL DEF Spec

\* The ring implements the bounded FIFO queue of N - 1 commands: a push takes
\* effect when head_ is stored, a pop when tail_ is, nothing else is visible.
THEOREM Implementation == Spec => ImplementsFifo
<1>1. Init => Fifo!Init
    BY DEF Init, Fifo!Init
<1>2. IndInv /\ [Next]_vars => [Fifo!Next]_(Fifo!vars)
    <2> SUFFICES ASSUME IndInv, [Next]_vars PROVE [Fifo!Next]_(Fifo!vars)
        OBVIOUS
    <2>1. /\ TypeOK /\ IndexInv /\ SeenInv /\ ContentInv
          /\ Len(pushed) \in Nat /\ Len(popped) \in Nat
        BY DEF IndInv, TypeOK
    <2>2. CASE PushPublish
        <3>1. /\ pitem \in Items /\ pushed' = Append(pushed, pitem)
              /\ popped' = popped
            BY <2>1, <2>2 DEF PushPublish, TypeOK, consumerVars
        <3>2. Len(pushed) - Len(popped) < N - 1
            BY <2>1, <2>2, NAssumption DEF PushPublish, SeenInv, TypeOK
        <3>3. Fifo!Push(pitem)
            BY <3>1, <3>2 DEF Fifo!Push, Fifo!Waiting
        <3> QED BY <3>1, <3>3 DEF Fifo!Next
    <2>3. CASE PopRelease
        <3>1. popped' = Append(popped, citem) /\ pushed' = pushed
            BY <2>3 DEF PopRelease, producerVars
        <3>2. Len(pushed) - Len(popped) > 0
            BY <2>1, <2>3 DEF PopRelease, SeenInv, TypeOK
        <3>3. citem = pushed[Len(popped) + 1]
            BY <2>1, <2>3 DEF PopRelease, ContentInv
        <3>4. Fifo!Pop
            BY <3>1, <3>2, <3>3 DEF Fifo!Pop, Fifo!Waiting
        <3> QED BY <3>4 DEF Fifo!Next
    <2>4. CASE UNCHANGED <<pushed, popped>>
        BY <2>4 DEF Fifo!vars
    <2> QED
        BY <2>2, <2>3, <2>4
        DEF Next, Producer, Consumer, vars, producerVars, consumerVars,
            PushFull, PushCheck, PushStore, PopEmpty, PopCheck, PopTake
<1> QED
    BY <1>1, <1>2, Invariant, PTL DEF Spec, ImplementsFifo, Fifo!Spec
=============================================================================
