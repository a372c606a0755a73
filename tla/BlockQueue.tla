----------------------------- MODULE BlockQueue -----------------------------
(***************************************************************************)
(* What the pipeline promises: the two rings and the thread between them   *)
(* are one bounded queue of blocks.  A block goes in when the network      *)
(* thread sets it filled, and out when the output thread is done with it,  *)
(* in the same order, once, and unchanged.                                 *)
(***************************************************************************)
EXTENDS Integers, Sequences

CONSTANT Capacity

VARIABLE queue

QueueInit == queue = << >>

\* Some block goes in at the end.
Put ==
    /\ Len(queue) < Capacity
    /\ Len(queue') = Len(queue) + 1
    /\ SubSeq(queue', 1, Len(queue)) = queue

\* The first block comes out.
Take == queue # << >> /\ queue' = Tail(queue)

QueueNext == Put \/ Take

QueueSafety == QueueInit /\ [][QueueNext]_queue

\* What goes in comes out.
QueueLiveness == WF_queue(Take)
=============================================================================
