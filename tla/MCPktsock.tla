----------------------------- MODULE MCPktsock -----------------------------
(***************************************************************************)
(* Pktsock on a small ring.  The packets carry counters of two stretches   *)
(* far enough apart for one to be out of sequence seen from the other, and *)
(* near enough to block boundaries for late packets and lost packets.      *)
(***************************************************************************)
EXTENDS Pktsock

CONSTANTS
    MaxPkts,      \* bound on the packets counted for a block
    MaxOutOfSeq,  \* bound on the count of out-of-sequence packets
    MaxMissed     \* bound on MISSEDPK

\* Only a packet that stays within the bounds arrives.
WithinBounds(p) ==
    /\ InWindow(Dist(p)) => binfo.counter[block_for_mcnt(p.mcnt)] < MaxPkts
    /\ Completes(Dist(p)) => status.MISSEDPK + Nm <= MaxMissed
    /\ IsOutOfSeq(Dist(p)) => binfo.out_of_seq_cnt < MaxOutOfSeq

MCNext ==
    \/ \E p \in Packets : WithinBounds(p) /\ Receive(p)
    \/ ThreadStep
    \/ \E b \in InBlocks : Drain(b)

MCSpec == Init /\ [][MCNext]_vars
=============================================================================
