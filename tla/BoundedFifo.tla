---------------------------- MODULE BoundedFifo ----------------------------
(***************************************************************************)
(* What the command queue promises to the two threads that share it: a     *)
(* first-in first-out queue that never holds more than Capacity commands,  *)
(* loses none it accepted and invents none.  A push that finds no room and *)
(* a pop that finds nothing change nothing, so they are stuttering steps.  *)
(***************************************************************************)
EXTENDS Naturals, Sequences

CONSTANTS
    Items,      \* the commands
    Capacity    \* how many accepted commands may be waiting

VARIABLES
    pushed,     \* every command accepted so far, in order
    popped      \* every command handed to the consumer so far, in order

vars == <<pushed, popped>>

Waiting == Len(pushed) - Len(popped)

Init ==
    /\ pushed = <<>>
    /\ popped = <<>>

Push(item) ==
    /\ Waiting < Capacity
    /\ pushed' = Append(pushed, item)
    /\ UNCHANGED popped

Pop ==
    /\ Waiting > 0
    /\ popped' = Append(popped, pushed[Len(popped) + 1])
    /\ UNCHANGED pushed

Next ==
    \/ \E item \in Items : Push(item)
    \/ Pop

Spec == Init /\ [][Next]_vars
=============================================================================
