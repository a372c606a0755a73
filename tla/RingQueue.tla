----------------------------- MODULE RingQueue -----------------------------
(***************************************************************************)
(* A ring seen as the queue it stands for, to relate the pipeline to       *)
(* BlockQueue.                                                             *)
(***************************************************************************)
EXTENDS Databuf, Sequences

(***************************************************************************)
(* The filled blocks of a ring of n from slot first on, oldest first,      *)
(* without the first one if it has been passed on but not freed yet.       *)
(***************************************************************************)
FilledBlocks(sem, block, first, n, passedOn) ==
    LET skip == IF passedOn THEN 1 ELSE 0
        filled == {k \in 1 .. n - skip :
                      \A j \in 1 .. k : IsFilled(sem, (first + skip + j - 1) % n)}
    IN  [k \in filled |-> block[(first + skip + k - 1) % n]]
=============================================================================
