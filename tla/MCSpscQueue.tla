---------------------------- MODULE MCSpscQueue ----------------------------
(* SpscQueue with a small ring and few enough pushes to lap it.            *)
EXTENDS SpscQueue

CONSTANTS Pushes    \* how many commands a run may push

MCMaxPush == 0 .. Pushes - 1
=============================================================================
