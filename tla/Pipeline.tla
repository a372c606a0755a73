------------------------------ MODULE Pipeline ------------------------------
(***************************************************************************)
(* The three threads of the FAST build on their two rings: the network     *)
(* thread fed by a stream of packets (PktsockStream), the GPU thread and   *)
(* the output thread.  A packet may be lost; the stream does not restart.  *)
(***************************************************************************)
EXTENDS PktsockStream, RingQueue

CONSTANTS
    N_OUTPUT_BLOCKS,
    Modes,      \* the settings of the status keys an operator may have made
    MayFail,    \* may waiting for a block, or opening the file, fail?
    MaxLost     \* bound on the packets lost

ASSUME PipelineAssumption ==
    /\ N_OUTPUT_BLOCKS \in Nat /\ N_OUTPUT_BLOCKS >= 1
    /\ MayFail \in BOOLEAN /\ MaxLost \in Nat
    /\ \A m \in Starts : m .. m + Length - 1 \subseteq Mcnts

VARIABLES osem, oblock, gpu, out, keys, faststatus, file, lost

outVars  == <<out, keys, faststatus, file>>
ringVars == <<sem, osem, oblock>>
netVars  ==
    <<hdr, data, stored, binfo, last_filled, pc, pkt, netmcnt, status, from, at, restarts, lost>>
pipeVars == <<ringVars, netVars, gpu, outVars>>

OutBlocks == BlockIds(N_OUTPUT_BLOCKS)

\* An input block as the next thread sees it: the whole data array, whatever is
\* in it.
InBlock == [b \in InBlocks |-> [header |-> hdr[b], data |-> data[b]]]

\* Nobody asks the pipeline to stop; FakePipeline has that.
Gpu == INSTANCE GpuThread WITH isem <- sem, iblock <- InBlock, running <- TRUE
Out == INSTANCE OutputThread WITH running <- TRUE

ASSUME ModesAssumption == Modes \subseteq Out!Keys
-----------------------------------------------------------------------------
PipeInit ==
    /\ StreamInit
    /\ osem = DatabufCreate(N_OUTPUT_BLOCKS)
    /\ oblock = [b \in OutBlocks |-> Out!ZeroBlock]
    /\ Gpu!InitGpu
    /\ Out!InitOutput
    /\ keys \in Modes
    /\ lost = 0

\* The network thread receives the next packet, or takes a step of its own.
NetDeliver == Deliver /\ UNCHANGED <<osem, oblock, gpu, outVars, lost>>

NetStep ==
    /\ Start \/ UpdateStatus \/ AcquireNext \/ Return
    /\ UNCHANGED <<osem, oblock, gpu, outVars, from, at, restarts, lost>>

\* The network drops the next packet.
LosePacket ==
    /\ at < from + Length /\ lost < MaxLost
    /\ at' = at + 1 /\ lost' = lost + 1
    /\ UNCHANGED <<vars, from, restarts, osem, oblock, gpu, outVars>>

GpuMove == Gpu!GpuStep /\ UNCHANGED <<netVars, outVars>>

OutMove == Out!OutStep /\ UNCHANGED <<sem, netVars, gpu>>

\* A thread ends on an error; its blocks stay as they are.
Fails ==
    /\ MayFail
    /\ \/ WaitFails /\ UNCHANGED <<osem, oblock, gpu, outVars, from, at, restarts, lost>>
       \/ Gpu!GpuWaitFails /\ UNCHANGED <<netVars, outVars>>
       \/ (Out!OutWaitFails \/ Out!WriteFails) /\ UNCHANGED <<sem, netVars, gpu>>

\* A thread has ended.
Stopped == pc = "exited" \/ gpu.pc = "exited" \/ out.pc = "exited"

\* Nothing arrives any more, or a thread is gone: the others go on waiting.
Idles ==
    /\ at = from + Length \/ Stopped
    /\ UNCHANGED pipeVars

PipeNext == NetDeliver \/ NetStep \/ LosePacket \/ GpuMove \/ OutMove \/ Fails \/ Idles

\* Each thread takes the steps it can take, and packets keep arriving.
PipeFairness ==
    /\ WF_pipeVars(NetDeliver) /\ WF_pipeVars(NetStep)
    /\ WF_pipeVars(GpuMove) /\ WF_pipeVars(OutMove)

PipeSpec == PipeInit /\ [][PipeNext]_pipeVars /\ PipeFairness
-----------------------------------------------------------------------------
\* The blocks between the network thread and the end, oldest first.
InFlight ==
    FilledBlocks(osem, oblock, out.block_idx, N_OUTPUT_BLOCKS, out.pc = "release")
    \o FilledBlocks(sem, InBlock, gpu.curblock_in, N_INPUT_BLOCKS, gpu.pc = "give_back")

Queue == INSTANCE BlockQueue
            WITH Capacity <- N_INPUT_BLOCKS - 1 + N_OUTPUT_BLOCKS, queue <- InFlight

(***************************************************************************)
(* Types of the parts the pipeline adds to the network thread.             *)
(***************************************************************************)
PipeTypeOK ==
    /\ TypeOK
    /\ osem \in [OutBlocks -> BlockState]
    /\ Gpu!GpuTypeOK
    /\ Out!OutTypeOK

(***************************************************************************)
(* No two threads are at the same block of a ring at once: the network     *)
(* thread's window does not hold the block the GPU thread copies from, and *)
(* the block it copies to is not the one being written to the file.        *)
(***************************************************************************)
NoSharedBlock ==
    /\ pc \in {"recv", "return"} /\ gpu.pc \notin {"top", "wait_in", "exited"} =>
         gpu.curblock_in \notin {CurBlock, Ahead}
    /\ gpu.pc \in {"header", "data", "pass_on"} /\ out.pc \notin {"top", "wait", "exited"} =>
         gpu.curblock_out # out.block_idx

(***************************************************************************)
(* Every block is passed on as it was completed, in order, none lost, none *)
(* twice: the pipeline is a bounded queue.                                 *)
(***************************************************************************)
ImplementsQueue == Queue!QueueSafety

(***************************************************************************)
(* ... and every block that goes in comes out, unless a thread ends.       *)
(***************************************************************************)
EveryBlockComesOut == <>Stopped \/ Queue!QueueLiveness

(***************************************************************************)
(* The network thread does not spin for a block for ever: the pipeline     *)
(* frees it one, or a thread has ended.                                    *)
(***************************************************************************)
AcquiresEventually == pc = "acquire" ~> (pc # "acquire" \/ Stopped)

(***************************************************************************)
(* The data array of a slot is never cleared, and write_to_file writes all *)
(* of it: a block that lacks packets carries the payloads of an earlier    *)
(* block in their places.  It is announced: missed_pkts, which goes with   *)
(* the block, is the number of places that are not filled by the block's   *)
(* own packets.                                                            *)
(***************************************************************************)
LeftOversAreCounted ==
    \A k \in DOMAIN InFlight :
        LET own == InFlight[k].data \cap BlockMcnts(InFlight[k].header.mcnt)
        IN  InFlight[k].header.missed_pkts = Nm - Cardinality(own)

\* What is written next, for the block that starts at first: payloads of that
\* block, which is later than all that was in the file, and left-overs of
\* earlier blocks of the same slot.
GoesOn(first) ==
    /\ \A m \in file : m < first
    /\ \A n \in file' :
        \/ n \in BlockMcnts(first)
        \/ n < first /\ block_for_mcnt(n) = block_for_mcnt(first)

(***************************************************************************)
(* The file goes forward: a write never takes it back in the stream,       *)
(* however the window is reset, and brings something new, never a block    *)
(* that is not filled yet, cleared already, or all left over.              *)
(***************************************************************************)
FileMovesForward ==
    [][file' # file =>
        LET first == oblock[out.block_idx].header.mcnt
        IN  GoesOn(first) /\ \E n \in file' : n >= first]_pipeVars
=============================================================================
