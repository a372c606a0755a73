--------------------------- MODULE PktsockStream ---------------------------
(***************************************************************************)
(* Pktsock fed by a telescope that sends its packets in order and loses    *)
(* none.  The stream starts at any counter of Starts, unrelated to the     *)
(* zero the thread starts at, and may restart (a "gateware restart": the   *)
(* counter goes back to zero) a bounded number of times.                   *)
(***************************************************************************)
EXTENDS Pktsock

CONSTANTS
    Starts,     \* counters the stream may start at
    Length,     \* packets of one stretch of the stream
    Restarts,   \* how often the counter goes back to zero
    Source      \* the source id of the instance

ASSUME StreamAssumption ==
    /\ Starts \subseteq Nat /\ Length \in Nat /\ Restarts \in Nat
    /\ Source \in Sids

VARIABLES
    from,      \* the first counter of the present stretch
    at,        \* the counter of the next packet
    restarts   \* restarts to come

streamVars == <<vars, from, at, restarts>>

StreamInit ==
    /\ Init
    /\ from \in Starts
    /\ at = from
    /\ restarts = Restarts

NextPacket == [mcnt |-> at, sid |-> Source]

\* The next packet of the stretch arrives.
Deliver ==
    /\ at < from + Length
    /\ Receive(NextPacket)
    /\ at' = at + 1
    /\ UNCHANGED <<from, restarts>>

\* The telescope starts counting again.
Restart ==
    /\ restarts > 0
    /\ restarts' = restarts - 1
    /\ from' = 0 /\ at' = 0
    /\ UNCHANGED vars

StreamNext ==
    \/ Deliver
    \/ Restart
    \/ /\ ThreadStep \/ \E b \in InBlocks : Drain(b)
       /\ UNCHANGED <<from, at, restarts>>

\* The thread spins or reads, so that it takes every step it can; the
\* telescope goes on sending; and the consumer frees every filled block.
Fairness ==
    /\ WF_streamVars(Deliver)
    /\ WF_vars(Start) /\ WF_vars(UpdateStatus) /\ WF_vars(AcquireNext) /\ WF_vars(Return)
    /\ \A b \in InBlocks : WF_vars(Drain(b))

StreamSpec == StreamInit /\ [][StreamNext]_streamVars /\ Fairness
-----------------------------------------------------------------------------
(***************************************************************************)
(* A loss-free stream is passed on without a gap: once the packets that    *)
(* set the resynchronisation off are over, no packet of a filled block is  *)
(* missing, and nothing else is left in its data.  (After a restart this   *)
(* does not hold: packets that fall back into the old window are counted a *)
(* second time there.)                                                     *)
(***************************************************************************)
WholeAfterSync ==
    restarts = Restarts =>
        \A b \in InBlocks :
            IsFilled(sem, b) /\ hdr[b].mcnt > from + MAX_OUT_OF_SEQ
                => hdr[b].missed_pkts = 0 /\ data[b] = BlockMcnts(hdr[b].mcnt)

(***************************************************************************)
(* Wherever the counter starts, and wherever it restarts, the thread       *)
(* catches the stream: for good, unless it exits on an error, the window   *)
(* ends up at the end of the stretch.                                      *)
(***************************************************************************)
CatchesStream ==
    <>[](pc = "exited" \/ RoundDown(from + Length) - binfo.mcnt_start \in 0 .. Nm)

(***************************************************************************)
(* At most one resynchronisation per stretch, among its first packets: the *)
(* packets that follow are late, then in the window.                       *)
(***************************************************************************)
ResyncOnce ==
    [][Resync(NextPacket) => at <= from + MAX_OUT_OF_SEQ]_streamVars
=============================================================================
