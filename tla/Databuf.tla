------------------------------ MODULE Databuf ------------------------------
(***************************************************************************)
(* The ring buffers in shared memory that join the threads of the          *)
(* pipeline (s6_databuf.h, s6_databuf.cpp).  A ring is an array of blocks  *)
(* with one hashpipe semaphore per block: 0 is "free", 1 is "filled".      *)
(* Waiting for a semaphore does not change it, so that a block belongs to  *)
(* a thread by convention only: to the producer from the moment it has     *)
(* seen the block free until it sets it filled, and then to the consumer   *)
(* until it sets the block free again.                                     *)
(*                                                                         *)
(* The operators take the array of semaphores as an argument, so that one  *)
(* definition serves the input ring and the output ring.                   *)
(***************************************************************************)
EXTENDS Integers

BlockState == {"free", "filled"}

\* The block numbers of a ring of n blocks.
BlockIds(n) == 0 .. n - 1

\* Creating a ring clears every semaphore.
DatabufCreate(n) == [b \in BlockIds(n) |-> "free"]

\* A wait_free, or a busywait_free, on block b would return HASHPIPE_OK.
IsFree(sem, b) == sem[b] = "free"

\* A wait_filled on block b would return HASHPIPE_OK.
IsFilled(sem, b) == sem[b] = "filled"

\* Both setters write the semaphore, whatever its value was.
SetFilled(sem, b) == [sem EXCEPT ![b] = "filled"]

SetFree(sem, b) == [sem EXCEPT ![b] = "free"]

\* Every thread steps from a block to the next one round the ring.
NextBlock(b, n) == (b + 1) % n
=============================================================================
