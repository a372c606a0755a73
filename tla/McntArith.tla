----------------------------- MODULE McntArith -----------------------------
(***************************************************************************)
(* The packet-counter arithmetic of s6_pktsock_thread.cpp.  The telescope  *)
(* numbers its packets with a master counter (mcnt).  Nm consecutive mcnts *)
(* make a block, and block number k of the stream lives in ring slot       *)
(* k % N_INPUT_BLOCKS.  A packet is judged by its signed distance to the   *)
(* first mcnt of the block being assembled.                                *)
(*                                                                         *)
(* mcnt has 56 bits in the packet and 64 in the code, so that none of the  *)
(* sums below wraps.                                                       *)
(***************************************************************************)
EXTENDS Integers

CONSTANTS
    Nm,             \* mcnts per block
    N_INPUT_BLOCKS  \* blocks in the input ring

\* Nm = 0 divides by zero at the first packet.  With Nm = 1 the threshold
\* 3*(Nm/2) is 0: a packet of the current block would complete it.
ASSUME NmAssumption == Nm \in Nat /\ Nm >= 2

\* The current block and the next one are held at the same time.
ASSUME RingAssumption == N_INPUT_BLOCKS \in Nat /\ N_INPUT_BLOCKS >= 2

\* The ring slot of a packet counter.
block_for_mcnt(mcnt) == (mcnt \div Nm) % N_INPUT_BLOCKS

\* The first mcnt of the block that holds mcnt.
RoundDown(mcnt) == mcnt - (mcnt % Nm)

LateThresholdOneBlock   == Nm
LATE_PKT_MCNT_THRESHOLD == 2 * Nm * N_INPUT_BLOCKS

\* dist is the packet's mcnt minus mcnt_start, the first mcnt of the block
\* being assembled.  Packets of this block and of the next one are stored.
InWindowThreeBlocks(dist) == 0 <= dist /\ dist < 3 * Nm
InWindow(dist) == 0 <= dist /\ dist < 2 * Nm

CompletesAtFirst(dist) == InWindow(dist) /\ dist >= Nm

\* A packet of the second half of the next block: this block is complete.
Completes(dist) == InWindow(dist) /\ dist >= 3 * (Nm \div 2)

IsLateOrAhead(dist) == ~InWindow(dist) /\ dist > -LATE_PKT_MCNT_THRESHOLD
IsLate(dist) == dist < 0 /\ dist > -LATE_PKT_MCNT_THRESHOLD

\* Neither expected nor late: ahead of the window or far behind it.
IsOutOfSeq(dist) == ~InWindow(dist) /\ ~IsLate(dist)

\* Ring slots from slot b forward to slot c.
SlotsAheadStrictly(b, c) == IF c > b THEN c - b ELSE c + N_INPUT_BLOCKS - b
SlotsAhead(b, c) == IF c >= b THEN c - b ELSE c + N_INPUT_BLOCKS - b

\* Where a resynchronisation on a packet puts mcnt_start: the packet's block,
\* or the first one after it that lives in the ring slot being assembled.
ResetMcntToPacket(mcnt, block_i) == RoundDown(mcnt)

ResetMcnt(mcnt, block_i) ==
    RoundDown(mcnt + Nm * SlotsAhead(block_for_mcnt(mcnt), block_i))
=============================================================================
