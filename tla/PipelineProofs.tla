--------------------------- MODULE PipelineProofs ---------------------------
(***************************************************************************)
(* The pipeline of the FAST build is, for any sizes of its rings, a        *)
(* bounded queue of blocks; the network thread in it behaves as Pktsock    *)
(* says it does, so that what is proved of that holds here too; and the    *)
(* file only ever moves forward in the stream.                             *)
(***************************************************************************)
EXTENDS Pipeline, PktsockProofs, RingQueueProofs

BlockValue == [header : Header, data : SUBSET Nat]

PipeTypes ==
    /\ osem \in Rings(N_OUTPUT_BLOCKS)
    /\ oblock \in [OutBlocks -> BlockValue]
    /\ Gpu!GpuTypeOK
    /\ Out!OutTypeOK
    /\ from \in Starts /\ at \in from .. from + Length

\* The filled blocks of the input ring are those from the GPU thread's block
\* up to the one the network thread filled last; ...
InRun(len) ==
    /\ Run(sem, gpu.curblock_in, len, N_INPUT_BLOCKS)
    /\ pc # "exited" =>
         (gpu.curblock_in + len) % N_INPUT_BLOCKS = (last_filled + 1) % N_INPUT_BLOCKS

\* ... those of the output ring are between the output and the GPU thread's.
OutRun(len) ==
    /\ Run(osem, out.block_idx, len, N_OUTPUT_BLOCKS)
    /\ (out.block_idx + len) % N_OUTPUT_BLOCKS = gpu.curblock_out

BlocksFollow ==
    /\ \E len \in 0 .. N_INPUT_BLOCKS : InRun(len)
    /\ \E len \in 0 .. N_OUTPUT_BLOCKS : OutRun(len)

\* What a thread has waited for stays as it is while the thread works on it.
GpuHolds ==
    gpu.pc \in {"wait_out", "header", "data", "pass_on", "give_back"}
        => IsFilled(sem, gpu.curblock_in)

GpuHasRoom ==
    gpu.pc \in {"header", "data", "pass_on"} => IsFree(osem, gpu.curblock_out)

OutHolds ==
    out.pc \in {"modes", "dumpvolt", "idle", "write", "clear", "release"}
        => IsFilled(osem, out.block_idx)

\* How much of the block the GPU thread has copied.
Copied ==
    /\ gpu.pc \in {"data", "pass_on"} =>
         oblock[gpu.curblock_out].header = hdr[gpu.curblock_in]
    /\ gpu.pc = "pass_on" =>
         oblock[gpu.curblock_out].data = data[gpu.curblock_in]

PipeInv ==
    /\ IInv
    /\ PipeTypes
    /\ BlocksFollow
    /\ GpuHolds
    /\ GpuHasRoom
    /\ OutHolds
    /\ Copied
-----------------------------------------------------------------------------
LEMMA RingSizes ==
    /\ N_INPUT_BLOCKS \in Nat \ {0} /\ N_INPUT_BLOCKS >= 2 /\ N_OUTPUT_BLOCKS \in Nat \ {0}
    /\ InBlocks = BlockIds(N_INPUT_BLOCKS) /\ OutBlocks = BlockIds(N_OUTPUT_BLOCKS)
    /\ 0 \in BlockIds(N_INPUT_BLOCKS) /\ 0 \in BlockIds(N_OUTPUT_BLOCKS)
  BY Constants, PipelineAssumption, SMT DEF InBlocks, OutBlocks, BlockIds

\* What the queue is made of.
LEMMA PipeIsTyped ==
    ASSUME PipeInv
    PROVE  /\ sem \in Rings(N_INPUT_BLOCKS) /\ osem \in Rings(N_OUTPUT_BLOCKS)
           /\ InBlock \in [InBlocks -> BlockValue] /\ oblock \in [OutBlocks -> BlockValue]
           /\ gpu.curblock_in \in InBlocks /\ gpu.curblock_out \in OutBlocks
           /\ out.block_idx \in OutBlocks
<1>1. /\ sem \in [InBlocks -> BlockState] /\ hdr \in [InBlocks -> Header]
      /\ data \in [InBlocks -> SUBSET Nat]
  BY DEF PipeInv, IInv, TypeOK
<1>2. InBlock \in [InBlocks -> BlockValue]
  BY <1>1 DEF InBlock, BlockValue
<1>3. /\ osem \in Rings(N_OUTPUT_BLOCKS) /\ oblock \in [OutBlocks -> BlockValue]
      /\ Gpu!GpuTypeOK /\ Out!OutTypeOK
  BY DEF PipeInv, PipeTypes
<1>4. /\ gpu.curblock_in \in BlockIds(N_INPUT_BLOCKS)
      /\ gpu.curblock_out \in BlockIds(N_OUTPUT_BLOCKS)
  BY <1>3 DEF Gpu!GpuTypeOK, Gpu!BlockIds, BlockIds
<1>5. out.block_idx \in BlockIds(N_OUTPUT_BLOCKS)
  BY <1>3 DEF Out!OutTypeOK, Out!BlockIds, BlockIds
<1> QED
  BY <1>1, <1>2, <1>3, <1>4, <1>5, RingSizes DEF Rings

LEMMA PacketOfStream ==
    ASSUME PipeInv, at < from + Length
    PROVE  NextPacket \in Packets /\ at + 1 \in from .. from + Length
<1>1. from \in Starts /\ from \in Nat /\ Length \in Nat /\ at \in from .. from + Length
  BY StreamAssumption DEF PipeInv, PipeTypes
<1>2. at \in from .. from + Length - 1 /\ at + 1 \in from .. from + Length
  BY <1>1, SMT
<1>3. at \in Mcnts
  BY <1>1, <1>2, PipelineAssumption
<1> QED
  BY <1>2, <1>3, StreamAssumption DEF NextPacket, Packets

(***************************************************************************)
(* A step of the pipeline is a step of the network thread, of its network, *)
(* or of the consumer of its ring: the GPU thread gives back the block it  *)
(* has seen filled.                                                        *)
(***************************************************************************)
LEMMA StepIsNetworkStep == PipeInv /\ [PipeNext]_pipeVars => [Next]_vars
<1> SUFFICES ASSUME PipeInv, [PipeNext]_pipeVars PROVE [Next]_vars
  OBVIOUS
<1>1. CASE NetDeliver
  <2>1. Receive(NextPacket) /\ at < from + Length
    BY <1>1 DEF NetDeliver, Deliver
  <2> QED
    BY <2>1, PacketOfStream DEF Next
<1>2. CASE NetStep
  BY <1>2 DEF NetStep, Next, ThreadStep
<1>3. CASE LosePacket
  BY <1>3 DEF LosePacket
<1>4. CASE GpuMove
  <2>1. CASE Gpu!GiveBack
    <3>1. gpu.curblock_in \in InBlocks /\ IsFilled(sem, gpu.curblock_in)
      BY <2>1, PipeIsTyped DEF PipeInv, GpuHolds, Gpu!GiveBack, Gpu!At
    <3>2. Drain(gpu.curblock_in)
      BY <1>4, <2>1, <3>1 DEF GpuMove, netVars, Gpu!GiveBack, Drain, Gpu!SetFree, SetFree
    <3> QED
      BY <3>1, <3>2 DEF Next
  <2>2. CASE ~Gpu!GiveBack
    <3>1. sem' = sem
      BY <1>4, <2>2 DEF GpuMove, Gpu!GpuStep, Gpu!EnterLoop, Gpu!LeaveLoop, Gpu!WaitInput,
                        Gpu!WaitOutput, Gpu!CopyHeader, Gpu!CopyData, Gpu!PassOn
    <3> QED
      BY <1>4, <3>1 DEF GpuMove, netVars, vars
  <2> QED
    BY <2>1, <2>2
<1>5. CASE OutMove
  BY <1>5 DEF OutMove, netVars, vars
<1>6. CASE Fails
  BY <1>6 DEF Fails, netVars, vars, Next, ThreadStep, Gpu!GpuWaitFails
<1>7. CASE Idles \/ UNCHANGED pipeVars
  BY <1>7 DEF Idles, pipeVars, ringVars, netVars, vars
<1> QED
  BY <1>1, <1>2, <1>3, <1>4, <1>5, <1>6, <1>7 DEF PipeNext

LEMMA InitPipeInv == PipeInit => PipeInv
<1> SUFFICES ASSUME PipeInit PROVE PipeInv
  OBVIOUS
<1>1. IInv
  BY InitIInv DEF PipeInit, StreamInit
<1>2. /\ sem = DatabufCreate(N_INPUT_BLOCKS) /\ osem = DatabufCreate(N_OUTPUT_BLOCKS)
      /\ gpu = [pc |-> "top", curblock_in |-> 0, curblock_out |-> 0]
      /\ out = [pc |-> "top", block_idx |-> 0, run_always |-> 0, testmode |-> 1, idle |-> 0]
      /\ last_filled = -1
  BY DEF PipeInit, StreamInit, Init, Gpu!InitGpu, Out!InitOutput
<1>3. PipeTypes
  <2>1. osem \in Rings(N_OUTPUT_BLOCKS)
    BY <1>2, RingSizes, EmptyRun
  <2>2. oblock \in [OutBlocks -> BlockValue]
    <3>1. 0 \in Nat /\ 0 \in 0 .. U64 - 1
      BY PktsockConstants, Constants, SMT
    <3>2. Out!ZeroBlock \in BlockValue
      BY <3>1 DEF Out!ZeroBlock, BlockValue, Header
    <3> QED
      BY <3>2 DEF PipeInit
  <2>3. Gpu!GpuTypeOK
    BY <1>2, RingSizes DEF Gpu!GpuTypeOK, Gpu!BlockIds, BlockIds
  <2>4. Out!OutTypeOK
    <3>1. keys \in Out!Keys /\ faststatus \in 0 .. 1
      BY ModesAssumption DEF PipeInit, Out!InitOutput
    <3>2. 0 \in 0 .. 1 /\ 1 \in 0 .. 1
      BY SMT
    <3> QED
      BY <1>2, <3>1, <3>2, RingSizes DEF Out!OutTypeOK, Out!BlockIds, BlockIds
  <2>5. from \in Starts /\ at \in from .. from + Length
    <3>1. from \in Starts /\ at = from /\ from \in Nat /\ Length \in Nat
      BY StreamAssumption DEF PipeInit, StreamInit
    <3> QED
      BY <3>1, SMT
  <2> QED
    BY <2>1, <2>2, <2>3, <2>4, <2>5 DEF PipeTypes
<1>4. BlocksFollow
  <2>1. /\ (0 + 0) % N_INPUT_BLOCKS = 0 /\ (-1 + 1) % N_INPUT_BLOCKS = 0
        /\ (0 + 0) % N_OUTPUT_BLOCKS = 0
        /\ 0 \in 0 .. N_INPUT_BLOCKS /\ 0 \in 0 .. N_OUTPUT_BLOCKS
    BY RingSizes, SMT
  <2>2. InRun(0)
    BY <1>2, <2>1, RingSizes, EmptyRun DEF InRun
  <2>3. OutRun(0)
    BY <1>2, <2>1, RingSizes, EmptyRun DEF OutRun
  <2> QED
    BY <2>1, <2>2, <2>3 DEF BlocksFollow
<1>5. GpuHolds /\ GpuHasRoom /\ OutHolds /\ Copied
  BY <1>2 DEF GpuHolds, GpuHasRoom, OutHolds, Copied
<1> QED
  BY <1>1, <1>3, <1>4, <1>5 DEF PipeInv
-----------------------------------------------------------------------------
\* A step of the network thread itself.
NetMove ==
    \/ \E p \in Packets : Receive(p)
    \/ Start \/ UpdateStatus \/ AcquireNext \/ Return \/ WaitFails
    \/ UNCHANGED vars

Fills ==
    /\ pc = "recv" /\ pc' = "status"
    /\ IsFree(sem, CurBlock) /\ IsFree(sem, Ahead)
    /\ sem' = SetFilled(sem, CurBlock)
    /\ CurBlock = (last_filled + 1) % N_INPUT_BLOCKS
    /\ last_filled' = (last_filled + 1) % N_INPUT_BLOCKS

\* It fills a block, its current one, or changes no semaphore.
LEMMA NetFills ==
    ASSUME PipeInv, NetMove
    PROVE  \/ Fills
           \/ /\ sem' = sem
              /\ pc' # "exited" => pc # "exited" /\ last_filled' = last_filled
<1>1. ASSUME NEW p \in Packets, Receive(p), MarkFilled(p) PROVE Fills
  <2>1. pc = "recv" /\ CurBlock = (last_filled + 1) % N_INPUT_BLOCKS
    BY <1>1 DEF Receive, PipeInv, IInv, FillOrder, CurBlock
  <2>2. IsFree(sem, CurBlock) /\ IsFree(sem, Ahead)
    BY <2>1 DEF PipeInv, IInv, OwnsWindow, Holds
  <2>3. block_for_mcnt(binfo.mcnt_start) = CurBlock
    BY DEF PipeInv, IInv, FillOrder, CurBlock
  <2> QED
    BY <1>1, <2>1, <2>2, <2>3 DEF MarkFilled, Fills
<1>2. ASSUME NEW p \in Packets, Receive(p), ~MarkFilled(p)
      PROVE  sem' = sem /\ (pc' # "exited" => pc # "exited" /\ last_filled' = last_filled)
  <2>1. pc = "recv" /\ (StorePacket(p) \/ SetFilledFails(p) \/ IgnoreLate(p)
                           \/ CountOutOfSeq(p) \/ Resync(p))
    BY <1>2 DEF Receive
  <2> QED
    BY <2>1 DEF StorePacket, SetFilledFails, IgnoreLate, CountOutOfSeq, Resync, vars
<1>3. ASSUME Start \/ UpdateStatus \/ AcquireNext \/ Return \/ WaitFails \/ UNCHANGED vars
      PROVE  sem' = sem /\ (pc' # "exited" => pc # "exited" /\ last_filled' = last_filled)
  BY <1>3 DEF Start, UpdateStatus, AcquireNext, Return, WaitFails, vars
<1> QED
  BY <1>1, <1>2, <1>3 DEF NetMove

\* The block it fills is the next one of the run, and the ring is not full then.
LEMMA FillsNext ==
    ASSUME PipeInv, Fills
    PROVE  \E len \in 0 .. N_INPUT_BLOCKS :
              /\ len < N_INPUT_BLOCKS - 1
              /\ InRun(len)
              /\ CurBlock = (gpu.curblock_in + len) % N_INPUT_BLOCKS
              /\ Run(sem', gpu.curblock_in, len + 1, N_INPUT_BLOCKS)
              /\ (gpu.curblock_in + (len + 1)) % N_INPUT_BLOCKS
                     = (last_filled' + 1) % N_INPUT_BLOCKS
<1>1. PICK len \in 0 .. N_INPUT_BLOCKS : InRun(len)
  BY DEF PipeInv, BlocksFollow
<1> DEFINE n == N_INPUT_BLOCKS
           first == gpu.curblock_in
<1>2. /\ n \in Nat \ {0} /\ n >= 2 /\ first \in BlockIds(n) /\ sem \in Rings(n)
      /\ Run(sem, first, len, n)
  BY <1>1, RingSizes, PipeIsTyped DEF InRun
<1>3. CurBlock = (first + len) % n
  BY <1>1 DEF InRun, Fills
<1>4. sem[CurBlock] = "free" /\ sem[Ahead] = "free"
  BY DEF Fills, IsFree
<1>5. CurBlock \in BlockIds(n) /\ len < n /\ Run(SetFilled(sem, CurBlock), first, len + 1, n)
  BY <1>2, <1>3, <1>4, FillExtendsRun
<1>6. len \in 0 .. n - 1
  BY <1>2, <1>5, SMT
<1>7. NextBlock(CurBlock, n) = (first + (len + 1)) % n
  BY <1>2, <1>3, <1>6, AfterRun
<1>8. len < n - 1
  <2> SUFFICES ASSUME len = n - 1 PROVE FALSE
    BY <1>2, <1>6, SMT
  <2>1. len + 1 = n /\ 0 < len
    BY <1>2, SMT
  <2>2. (first + n) % n = first /\ sem[first] = "filled"
    BY <1>2, <2>1, FirstOfRun
  <2>3. Ahead = first
    BY <1>7, <2>1, <2>2 DEF Ahead, CurBlock
  <2> QED
    BY <1>4, <2>2, <2>3
<1>9. (first + (len + 1)) % n = (last_filled' + 1) % n
  BY <1>7 DEF Fills, NextBlock
<1> QED
  BY <1>1, <1>3, <1>5, <1>8, <1>9 DEF Fills

\* The GPU thread and the output thread do not notice a step of this one.
LEMMA NetMoveKeeps ==
    ASSUME PipeInv, NetMove, [Next]_vars, UNCHANGED <<osem, oblock, gpu, outVars>>,
           at' \in from .. from + Length, from' = from
    PROVE  PipeInv'
<1>1. IInv'
  BY StepIInv DEF PipeInv
<1>2. PipeTypes'
  BY DEF PipeInv, PipeTypes, Gpu!GpuTypeOK, Out!OutTypeOK, outVars
<1>3. \E len \in 0 .. N_INPUT_BLOCKS : InRun(len)'
  <2>1. CASE Fills
    <3>1. PICK len \in 0 .. N_INPUT_BLOCKS :
             /\ len < N_INPUT_BLOCKS - 1
             /\ Run(sem', gpu.curblock_in, len + 1, N_INPUT_BLOCKS)
             /\ (gpu.curblock_in + (len + 1)) % N_INPUT_BLOCKS
                    = (last_filled' + 1) % N_INPUT_BLOCKS
      BY <2>1, FillsNext
    <3>2. len + 1 \in 0 .. N_INPUT_BLOCKS
      BY <3>1, RingSizes, SMT
    <3>3. InRun(len + 1)'
      BY <3>1 DEF InRun, Run
    <3> QED
      BY <3>2, <3>3
  <2>2. CASE /\ sem' = sem
             /\ pc' # "exited" => pc # "exited" /\ last_filled' = last_filled
    <3>1. PICK len \in 0 .. N_INPUT_BLOCKS : InRun(len)
      BY DEF PipeInv, BlocksFollow
    <3>2. InRun(len)'
      BY <2>2, <3>1 DEF InRun, Run
    <3> QED
      BY <3>2
  <2> QED
    BY <2>1, <2>2, NetFills
<1>4. \E len \in 0 .. N_OUTPUT_BLOCKS : OutRun(len)'
  <2>1. PICK len \in 0 .. N_OUTPUT_BLOCKS : OutRun(len)
    BY DEF PipeInv, BlocksFollow
  <2>2. OutRun(len)'
    BY <2>1 DEF OutRun, Run, outVars
  <2> QED
    BY <2>2
<1>5. \A b \in InBlocks : IsFilled(sem, b) =>
         IsFilled(sem', b) /\ hdr'[b] = hdr[b] /\ data'[b] = data[b]
  <2>1. [LeavesFilledBlocks]_vars
    BY StepFreezes DEF PipeInv
  <2>2. \A b \in InBlocks : IsFilled(sem, b) => IsFilled(sem', b)
    <3>1. CASE sem' = sem
      BY <3>1
    <3>2. CASE sem' = SetFilled(sem, CurBlock)
      BY <3>2, PipeIsTyped, RingSizes DEF IsFilled, SetFilled, Rings
    <3> QED
      BY <3>1, <3>2, NetFills DEF Fills
  <2> QED
    BY <2>1, <2>2 DEF LeavesFilledBlocks, vars
<1>6. gpu.pc \in {"wait_out", "header", "data", "pass_on", "give_back"} =>
         /\ IsFilled(sem', gpu.curblock_in)
         /\ hdr'[gpu.curblock_in] = hdr[gpu.curblock_in]
         /\ data'[gpu.curblock_in] = data[gpu.curblock_in]
  BY <1>5, PipeIsTyped DEF PipeInv, GpuHolds
<1>7. GpuHolds' /\ Copied'
  BY <1>6 DEF PipeInv, GpuHolds, Copied, IsFilled
<1>8. GpuHasRoom' /\ OutHolds'
  BY DEF PipeInv, GpuHasRoom, OutHolds, outVars, IsFree, IsFilled
<1> QED
  BY <1>1, <1>2, <1>3, <1>4, <1>7, <1>8 DEF PipeInv, BlocksFollow
-----------------------------------------------------------------------------
\* The semaphores do not change, and the GPU thread stays at its blocks.
LEMMA RingsStay ==
    ASSUME PipeInv, UNCHANGED <<sem, osem, netVars, outVars>>,
           gpu'.curblock_in = gpu.curblock_in, gpu'.curblock_out = gpu.curblock_out
    PROVE  BlocksFollow' /\ OutHolds'
<1>1. PICK len \in 0 .. N_INPUT_BLOCKS : InRun(len)
  BY DEF PipeInv, BlocksFollow
<1>2. PICK olen \in 0 .. N_OUTPUT_BLOCKS : OutRun(olen)
  BY DEF PipeInv, BlocksFollow
<1>3. InRun(len)' /\ OutRun(olen)'
  BY <1>1, <1>2 DEF InRun, OutRun, Run, netVars, outVars
<1>4. OutHolds'
  BY DEF PipeInv, OutHolds, IsFilled, outVars
<1> QED
  BY <1>3, <1>4 DEF BlocksFollow

\* The GPU thread moves between its waits, or ends.
LEMMA GpuWaitKeeps ==
    ASSUME PipeInv, [Next]_vars, UNCHANGED <<netVars, outVars>>,
           \/ Gpu!EnterLoop \/ Gpu!LeaveLoop \/ Gpu!WaitInput \/ Gpu!WaitOutput
           \/ Gpu!GpuWaitFails
    PROVE  PipeInv'
<1>1. UNCHANGED <<sem, osem, oblock>>
  BY DEF Gpu!EnterLoop, Gpu!LeaveLoop, Gpu!WaitInput, Gpu!WaitOutput, Gpu!GpuWaitFails
<1>2. gpu \in [pc : {"top", "wait_in", "wait_out", "header", "data", "pass_on", "give_back",
                     "exited"},
               curblock_in : BlockIds(N_INPUT_BLOCKS), curblock_out : BlockIds(N_OUTPUT_BLOCKS)]
  BY DEF PipeInv, PipeTypes, Gpu!GpuTypeOK, Gpu!BlockIds, BlockIds
<1>3. \/ gpu' = [gpu EXCEPT !.pc = "wait_in"] \/ gpu' = [gpu EXCEPT !.pc = "exited"]
      \/ gpu' = [gpu EXCEPT !.pc = "wait_out"] /\ IsFilled(sem, gpu.curblock_in)
      \/ /\ gpu' = [gpu EXCEPT !.pc = "header"] /\ gpu.pc = "wait_out"
         /\ IsFree(osem, gpu.curblock_out)
  BY DEF Gpu!EnterLoop, Gpu!LeaveLoop, Gpu!WaitInput, Gpu!WaitOutput, Gpu!GpuWaitFails,
         Gpu!GoTo, Gpu!At, Gpu!IsFilled, Gpu!IsFree, IsFilled, IsFree
<1>4. gpu'.curblock_in = gpu.curblock_in /\ gpu'.curblock_out = gpu.curblock_out
  BY <1>2, <1>3
<1>5. Gpu!GpuTypeOK'
  BY <1>2, <1>3 DEF Gpu!GpuTypeOK, Gpu!BlockIds, BlockIds
<1>6. IInv'
  BY StepIInv DEF PipeInv
<1>7. PipeTypes'
  BY <1>1, <1>5 DEF PipeInv, PipeTypes, Out!OutTypeOK, outVars, netVars
<1>8. BlocksFollow' /\ OutHolds'
  BY <1>1, <1>4, RingsStay
<1>9. GpuHolds' /\ GpuHasRoom' /\ Copied'
  <2>1. gpu'.pc \notin {"data", "pass_on", "give_back"}
    BY <1>2, <1>3
  <2>2. gpu'.pc = "wait_out" => IsFilled(sem, gpu.curblock_in)
    BY <1>2, <1>3
  <2>3. gpu'.pc = "header" => IsFilled(sem, gpu.curblock_in) /\ IsFree(osem, gpu.curblock_out)
    BY <1>2, <1>3 DEF PipeInv, GpuHolds
  <2> QED
    BY <1>1, <1>4, <2>1, <2>2, <2>3 DEF GpuHolds, GpuHasRoom, Copied, IsFilled, IsFree
<1> QED
  BY <1>6, <1>7, <1>8, <1>9 DEF PipeInv

\* It copies a part of its block.
LEMMA GpuCopyKeeps ==
    ASSUME PipeInv, [Next]_vars, UNCHANGED <<netVars, outVars>>,
           Gpu!CopyHeader \/ Gpu!CopyData
    PROVE  PipeInv'
<1> DEFINE cin == gpu.curblock_in
           cout == gpu.curblock_out
<1>1. UNCHANGED <<sem, osem>>
  BY DEF Gpu!CopyHeader, Gpu!CopyData
<1>2. gpu \in [pc : {"top", "wait_in", "wait_out", "header", "data", "pass_on", "give_back",
                     "exited"},
               curblock_in : BlockIds(N_INPUT_BLOCKS), curblock_out : BlockIds(N_OUTPUT_BLOCKS)]
  BY DEF PipeInv, PipeTypes, Gpu!GpuTypeOK, Gpu!BlockIds, BlockIds
<1>3. /\ cin \in InBlocks /\ cout \in OutBlocks /\ oblock \in [OutBlocks -> BlockValue]
      /\ InBlock[cin].header = hdr[cin] /\ InBlock[cin].data = data[cin]
      /\ hdr[cin] \in Header /\ data[cin] \in SUBSET Nat
  BY PipeIsTyped DEF InBlock, PipeInv, IInv, TypeOK
<1>4. \/ /\ gpu.pc = "header" /\ gpu' = [gpu EXCEPT !.pc = "data"]
         /\ oblock' = [oblock EXCEPT ![cout].header = hdr[cin]]
      \/ /\ gpu.pc = "data" /\ gpu' = [gpu EXCEPT !.pc = "pass_on"]
         /\ oblock' = [oblock EXCEPT ![cout].data = data[cin]]
  BY <1>3 DEF Gpu!CopyHeader, Gpu!CopyData, Gpu!GoTo, Gpu!At
<1>5. gpu'.curblock_in = cin /\ gpu'.curblock_out = cout
  BY <1>2, <1>4
<1>6. Gpu!GpuTypeOK'
  BY <1>2, <1>4 DEF Gpu!GpuTypeOK, Gpu!BlockIds, BlockIds
<1>7. oblock' \in [OutBlocks -> BlockValue]
  BY <1>3, <1>4 DEF BlockValue
<1>8. IInv'
  BY StepIInv DEF PipeInv
<1>9. PipeTypes'
  BY <1>1, <1>6, <1>7 DEF PipeInv, PipeTypes, Out!OutTypeOK, outVars, netVars
<1>10. BlocksFollow' /\ OutHolds'
  BY <1>1, <1>5, RingsStay
<1>11. GpuHolds' /\ GpuHasRoom'
  BY <1>1, <1>2, <1>4, <1>5 DEF PipeInv, GpuHolds, GpuHasRoom, IsFilled, IsFree
<1>12. Copied'
  <2>1. CASE gpu.pc = "header"
    <3>1. gpu'.pc = "data" /\ oblock'[cout].header = hdr[cin]
      BY <1>2, <1>3, <1>4, <2>1 DEF BlockValue
    <3> QED
      BY <1>5, <3>1 DEF Copied, netVars
  <2>2. CASE gpu.pc = "data"
    <3>1. oblock[cout].header = hdr[cin]
      BY <2>2 DEF PipeInv, Copied
    <3>2. oblock'[cout].data = data[cin] /\ oblock'[cout].header = oblock[cout].header
      BY <1>3, <1>4, <2>2 DEF BlockValue
    <3> QED
      BY <1>5, <3>1, <3>2 DEF Copied, netVars
  <2> QED
    BY <1>4, <2>1, <2>2
<1> QED
  BY <1>8, <1>9, <1>10, <1>11, <1>12 DEF PipeInv

\* The block it passes on goes after the last one of the output ring.
LEMMA PassesOnNext ==
    ASSUME PipeInv, Gpu!PassOn
    PROVE  \E len \in 0 .. N_OUTPUT_BLOCKS :
              /\ len < N_OUTPUT_BLOCKS
              /\ OutRun(len)
              /\ osem[gpu.curblock_out] = "free"
              /\ osem' = SetFilled(osem, gpu.curblock_out)
              /\ osem' \in Rings(N_OUTPUT_BLOCKS)
              /\ Run(osem', out.block_idx, len + 1, N_OUTPUT_BLOCKS)
              /\ gpu'.curblock_out = (out.block_idx + (len + 1)) % N_OUTPUT_BLOCKS
<1>1. PICK len \in 0 .. N_OUTPUT_BLOCKS : OutRun(len)
  BY DEF PipeInv, BlocksFollow
<1> DEFINE n == N_OUTPUT_BLOCKS
           first == out.block_idx
           b == gpu.curblock_out
<1>2. /\ n \in Nat \ {0} /\ first \in BlockIds(n) /\ osem \in Rings(n)
      /\ Run(osem, first, len, n) /\ b = (first + len) % n
  BY <1>1, RingSizes, PipeIsTyped DEF OutRun
<1>3. osem[b] = "free"
  BY DEF PipeInv, GpuHasRoom, Gpu!PassOn, Gpu!At, IsFree
<1>4. osem' = SetFilled(osem, b)
  BY DEF Gpu!PassOn, Gpu!SetFilled, SetFilled
<1>5. /\ len < n /\ SetFilled(osem, b) \in Rings(n)
      /\ Run(SetFilled(osem, b), first, len + 1, n)
  BY <1>2, <1>3, FillExtendsRun
<1>6. len \in 0 .. n - 1
  BY <1>2, <1>5, SMT
<1>7. gpu'.curblock_out = NextBlock(b, n)
  <2>1. gpu \in [pc : {"top", "wait_in", "wait_out", "header", "data", "pass_on", "give_back",
                       "exited"},
                 curblock_in : BlockIds(N_INPUT_BLOCKS),
                 curblock_out : BlockIds(N_OUTPUT_BLOCKS)]
    BY DEF PipeInv, PipeTypes, Gpu!GpuTypeOK, Gpu!BlockIds, BlockIds
  <2> QED
    BY <2>1 DEF Gpu!PassOn, Gpu!NextBlock, NextBlock
<1>8. NextBlock(b, n) = (first + (len + 1)) % n
  BY <1>2, <1>6, AfterRun
<1> QED
  BY <1>1, <1>3, <1>4, <1>5, <1>7, <1>8

LEMMA GpuPassOnKeeps ==
    ASSUME PipeInv, [Next]_vars, UNCHANGED <<netVars, outVars>>, Gpu!PassOn
    PROVE  PipeInv'
<1>1. UNCHANGED <<sem, oblock>>
  BY DEF Gpu!PassOn
<1>2. gpu \in [pc : {"top", "wait_in", "wait_out", "header", "data", "pass_on", "give_back",
                     "exited"},
               curblock_in : BlockIds(N_INPUT_BLOCKS), curblock_out : BlockIds(N_OUTPUT_BLOCKS)]
  BY DEF PipeInv, PipeTypes, Gpu!GpuTypeOK, Gpu!BlockIds, BlockIds
<1>3. PICK len \in 0 .. N_OUTPUT_BLOCKS :
         /\ len < N_OUTPUT_BLOCKS
         /\ osem' = SetFilled(osem, gpu.curblock_out)
         /\ osem' \in Rings(N_OUTPUT_BLOCKS)
         /\ Run(osem', out.block_idx, len + 1, N_OUTPUT_BLOCKS)
         /\ gpu'.curblock_out = (out.block_idx + (len + 1)) % N_OUTPUT_BLOCKS
  BY PassesOnNext
<1>4. len + 1 \in 0 .. N_OUTPUT_BLOCKS
  BY <1>3, RingSizes, SMT
<1>5. NextBlock(gpu.curblock_out, N_OUTPUT_BLOCKS) \in BlockIds(N_OUTPUT_BLOCKS)
  BY RingSizes, PipeIsTyped, FromNext
<1>6. /\ gpu' = [gpu EXCEPT !.pc = "give_back",
                            !.curblock_out = NextBlock(@, N_OUTPUT_BLOCKS)]
      /\ gpu.pc = "pass_on"
  BY DEF Gpu!PassOn, Gpu!NextBlock, NextBlock, Gpu!At
<1>7. gpu'.curblock_in = gpu.curblock_in /\ gpu'.pc = "give_back" /\ Gpu!GpuTypeOK'
  BY <1>2, <1>5, <1>6 DEF Gpu!GpuTypeOK, Gpu!BlockIds, BlockIds
<1>8. IInv'
  BY StepIInv DEF PipeInv
<1>9. PipeTypes'
  BY <1>1, <1>3, <1>7 DEF PipeInv, PipeTypes, Out!OutTypeOK, outVars, netVars
<1>10. \E k \in 0 .. N_INPUT_BLOCKS : InRun(k)'
  <2>1. PICK k \in 0 .. N_INPUT_BLOCKS : InRun(k)
    BY DEF PipeInv, BlocksFollow
  <2>2. InRun(k)'
    BY <1>1, <1>7, <2>1 DEF InRun, Run, netVars
  <2> QED
    BY <2>2
<1>11. OutRun(len + 1)'
  BY <1>3 DEF OutRun, Run, outVars
<1>12. OutHolds'
  <2>1. \A b \in OutBlocks : IsFilled(osem, b) => IsFilled(osem', b)
    BY <1>3, PipeIsTyped, RingSizes DEF IsFilled, SetFilled, Rings
  <2> QED
    BY <2>1, PipeIsTyped DEF PipeInv, OutHolds, outVars, IsFilled
<1>13. GpuHolds' /\ GpuHasRoom' /\ Copied'
  BY <1>1, <1>6, <1>7 DEF PipeInv, GpuHolds, GpuHasRoom, Copied, IsFilled
<1> QED
  BY <1>4, <1>8, <1>9, <1>10, <1>11, <1>12, <1>13 DEF PipeInv, BlocksFollow

\* It gives its input block back, the first one of that ring.
LEMMA GpuGiveBackKeeps ==
    ASSUME PipeInv, [Next]_vars, UNCHANGED <<netVars, outVars>>, Gpu!GiveBack
    PROVE  PipeInv'
<1> DEFINE n == N_INPUT_BLOCKS
           first == gpu.curblock_in
<1>1. UNCHANGED <<osem, oblock>> /\ sem' = SetFree(sem, first)
  BY DEF Gpu!GiveBack, Gpu!SetFree, SetFree
<1>2. gpu \in [pc : {"top", "wait_in", "wait_out", "header", "data", "pass_on", "give_back",
                     "exited"},
               curblock_in : BlockIds(n), curblock_out : BlockIds(N_OUTPUT_BLOCKS)]
  BY DEF PipeInv, PipeTypes, Gpu!GpuTypeOK, Gpu!BlockIds, BlockIds
<1>3. /\ gpu' = [gpu EXCEPT !.pc = "top", !.curblock_in = NextBlock(@, n)]
      /\ gpu.pc = "give_back"
  BY DEF Gpu!GiveBack, Gpu!NextBlock, NextBlock, Gpu!At
<1>4. NextBlock(first, n) \in BlockIds(n)
  BY RingSizes, PipeIsTyped, FromNext
<1>5. /\ gpu'.curblock_in = NextBlock(first, n) /\ gpu'.curblock_out = gpu.curblock_out
      /\ gpu'.pc = "top" /\ Gpu!GpuTypeOK'
  BY <1>2, <1>3, <1>4 DEF Gpu!GpuTypeOK, Gpu!BlockIds, BlockIds
<1>6. PICK len \in 0 .. n : InRun(len)
  BY DEF PipeInv, BlocksFollow
<1>7. /\ len - 1 \in 0 .. n /\ Run(SetFree(sem, first), NextBlock(first, n), len - 1, n)
      /\ (NextBlock(first, n) + (len - 1)) % n = (first + len) % n
  <2>1. sem[first] = "filled"
    BY <1>3 DEF PipeInv, GpuHolds, IsFilled
  <2>2. /\ n \in Nat \ {0} /\ first \in BlockIds(n) /\ sem \in Rings(n)
        /\ Run(sem, first, len, n)
    BY <1>6, RingSizes, PipeIsTyped DEF InRun
  <2> QED
    BY <2>1, <2>2, FreeShortensRun
<1>8. InRun(len - 1)'
  BY <1>1, <1>5, <1>6, <1>7 DEF InRun, Run, netVars
<1>9. \E k \in 0 .. N_OUTPUT_BLOCKS : OutRun(k)'
  <2>1. PICK k \in 0 .. N_OUTPUT_BLOCKS : OutRun(k)
    BY DEF PipeInv, BlocksFollow
  <2>2. OutRun(k)'
    BY <1>1, <1>5, <2>1 DEF OutRun, Run, outVars
  <2> QED
    BY <2>2
<1>10. IInv'
  BY StepIInv DEF PipeInv
<1>11. PipeTypes'
  BY <1>1, <1>5 DEF PipeInv, PipeTypes, Out!OutTypeOK, outVars, netVars
<1>12. GpuHolds' /\ GpuHasRoom' /\ Copied' /\ OutHolds'
  BY <1>1, <1>5 DEF PipeInv, GpuHolds, GpuHasRoom, Copied, OutHolds, outVars, IsFilled
<1> QED
  BY <1>7, <1>8, <1>9, <1>10, <1>11, <1>12 DEF PipeInv, BlocksFollow
-----------------------------------------------------------------------------
OutLabels == {"top", "wait", "modes", "dumpvolt", "idle", "write", "clear", "release", "exited"}

LEMMA OutIsTyped ==
    ASSUME PipeInv
    PROVE  /\ out \in [pc : OutLabels, block_idx : BlockIds(N_OUTPUT_BLOCKS),
                       run_always : 0 .. 1, testmode : 0 .. 1, idle : 0 .. 1]
           /\ keys \in [RUNALWYS : 0 .. 1, TESTMODE : 0 .. 1, IDLE : 0 .. 1, DUMPVOLT : 0 .. 1]
           /\ faststatus \in 0 .. 1
<1>1. Out!OutTypeOK
  BY DEF PipeInv, PipeTypes
<1> QED
  BY <1>1 DEF Out!OutTypeOK, Out!BlockIds, BlockIds, OutLabels, Out!Keys

\* The output thread does something that leaves the ring as it is, or ends.
OutOnly ==
    \/ Out!ReadRunAlways \/ Out!LeaveLoop \/ Out!WaitFilled \/ Out!ReadModes \/ Out!PutDumpVolt
    \/ Out!PutIdle \/ Out!WriteBlock \/ Out!OutWaitFails \/ Out!WriteFails

LEMMA OutOnlyIs ==
    ASSUME PipeInv, OutOnly
    PROVE  /\ UNCHANGED <<osem, oblock>> /\ Out!OutTypeOK'
           /\ out'.block_idx = out.block_idx
           /\ out'.pc \in {"modes", "dumpvolt", "idle", "write", "clear", "release"}
                => IsFilled(osem, out.block_idx)
           /\ out.pc # "release" /\ out'.pc # "release"
<1>0. UNCHANGED <<osem, oblock>>
  BY DEF OutOnly, Out!ReadRunAlways, Out!LeaveLoop, Out!WaitFilled, Out!ReadModes,
         Out!PutDumpVolt, Out!PutIdle, Out!WriteBlock, Out!OutWaitFails, Out!WriteFails
<1>1. /\ out \in [pc : OutLabels, block_idx : BlockIds(N_OUTPUT_BLOCKS),
                  run_always : 0 .. 1, testmode : 0 .. 1, idle : 0 .. 1]
      /\ keys \in [RUNALWYS : 0 .. 1, TESTMODE : 0 .. 1, IDLE : 0 .. 1, DUMPVOLT : 0 .. 1]
      /\ faststatus \in 0 .. 1 /\ 0 \in 0 .. 1
  BY OutIsTyped, SMT
<1>2. /\ keys' \in [RUNALWYS : 0 .. 1, TESTMODE : 0 .. 1, IDLE : 0 .. 1, DUMPVOLT : 0 .. 1]
      /\ faststatus' \in 0 .. 1
  BY <1>1 DEF OutOnly, Out!ReadRunAlways, Out!LeaveLoop, Out!WaitFilled, Out!ReadModes,
         Out!PutDumpVolt, Out!PutIdle, Out!WriteBlock, Out!OutWaitFails, Out!WriteFails
<1>3. \/ out.pc = "top" /\ out' = [out EXCEPT !.pc = "wait", !.run_always = keys.RUNALWYS]
      \/ out.pc \in {"top", "wait", "write"} /\ out' = [out EXCEPT !.pc = "exited"]
      \/ /\ out.pc = "wait" /\ out' = [out EXCEPT !.pc = "modes"]
         /\ IsFilled(osem, out.block_idx)
      \/ /\ out.pc = "modes"
         /\ out' = [out EXCEPT !.pc = "dumpvolt", !.idle = keys.IDLE, !.testmode = keys.TESTMODE]
      \/ out.pc = "dumpvolt" /\ out' = [out EXCEPT !.pc = "idle"]
      \/ out.pc = "idle" /\ out' = [out EXCEPT !.pc = "write", !.idle = 0]
      \/ out.pc = "write" /\ out' = [out EXCEPT !.pc = "clear"]
  BY DEF OutOnly, Out!ReadRunAlways, Out!LeaveLoop, Out!WaitFilled, Out!ReadModes,
         Out!PutDumpVolt, Out!PutIdle, Out!WriteBlock, Out!OutWaitFails, Out!WriteFails,
         Out!At, Out!GoTo, Out!IsFilled, IsFilled
<1>4. /\ out' \in [pc : OutLabels, block_idx : BlockIds(N_OUTPUT_BLOCKS),
                   run_always : 0 .. 1, testmode : 0 .. 1, idle : 0 .. 1]
      /\ out'.block_idx = out.block_idx
  BY <1>1, <1>3 DEF OutLabels
<1>5. Out!OutTypeOK'
  BY <1>2, <1>4 DEF Out!OutTypeOK, Out!BlockIds, BlockIds, OutLabels, Out!Keys
<1>6. out.pc # "release" /\ out'.pc # "release"
  BY <1>1, <1>3
<1>7. out'.pc \in {"modes", "dumpvolt", "idle", "write", "clear"}
         => IsFilled(osem, out.block_idx)
  BY <1>1, <1>3 DEF PipeInv, OutHolds
<1> QED
  BY <1>0, <1>4, <1>5, <1>6, <1>7

LEMMA OutOnlyKeeps ==
    ASSUME PipeInv, [Next]_vars, UNCHANGED <<sem, netVars, gpu>>, OutOnly
    PROVE  PipeInv'
<1>1. /\ UNCHANGED <<osem, oblock>> /\ Out!OutTypeOK'
      /\ out'.block_idx = out.block_idx
      /\ out'.pc \in {"modes", "dumpvolt", "idle", "write", "clear", "release"}
           => IsFilled(osem, out.block_idx)
  BY OutOnlyIs
<1>2. IInv'
  BY StepIInv DEF PipeInv
<1>3. PipeTypes'
  BY <1>1 DEF PipeInv, PipeTypes, Gpu!GpuTypeOK, netVars
<1>4. BlocksFollow'
  <2>1. PICK len \in 0 .. N_INPUT_BLOCKS : InRun(len)
    BY DEF PipeInv, BlocksFollow
  <2>2. PICK olen \in 0 .. N_OUTPUT_BLOCKS : OutRun(olen)
    BY DEF PipeInv, BlocksFollow
  <2>3. InRun(len)' /\ OutRun(olen)'
    BY <1>1, <2>1, <2>2 DEF InRun, OutRun, Run, netVars
  <2> QED
    BY <2>3 DEF BlocksFollow
<1>5. GpuHolds' /\ GpuHasRoom' /\ Copied' /\ OutHolds'
  BY <1>1 DEF PipeInv, GpuHolds, GpuHasRoom, Copied, OutHolds, netVars, IsFilled, IsFree
<1> QED
  BY <1>2, <1>3, <1>4, <1>5 DEF PipeInv

LEMMA ClearBlockKeeps ==
    ASSUME PipeInv, [Next]_vars, UNCHANGED <<sem, netVars, gpu>>, Out!ClearBlock
    PROVE  PipeInv'
<1> DEFINE b == out.block_idx
<1>1. /\ UNCHANGED <<osem, keys, faststatus>>
      /\ oblock' = [oblock EXCEPT ![b] = Out!ZeroBlock]
      /\ out.pc = "clear" /\ out' = [out EXCEPT !.pc = "release"]
  BY DEF Out!ClearBlock, Out!At, Out!GoTo
<1>2. /\ out \in [pc : OutLabels, block_idx : BlockIds(N_OUTPUT_BLOCKS),
                  run_always : 0 .. 1, testmode : 0 .. 1, idle : 0 .. 1]
      /\ oblock \in [OutBlocks -> BlockValue] /\ b \in OutBlocks
  BY OutIsTyped, PipeIsTyped
<1>3. Out!OutTypeOK'
  BY <1>1, <1>2 DEF PipeInv, PipeTypes, Out!OutTypeOK, Out!BlockIds, BlockIds, OutLabels,
                    Out!Keys
<1>4. oblock' \in [OutBlocks -> BlockValue]
  <2>1. 0 \in Nat /\ 0 \in 0 .. U64 - 1
    BY PktsockConstants, Constants, SMT
  <2>2. Out!ZeroBlock \in BlockValue
    BY <2>1 DEF Out!ZeroBlock, BlockValue, Header
  <2> QED
    BY <1>1, <1>2, <2>2
<1>5. out'.block_idx = b
  BY <1>1, <1>2
<1>6. IsFilled(osem, b)
  BY <1>1 DEF PipeInv, OutHolds
<1>7. IInv'
  BY StepIInv DEF PipeInv
<1>8. PipeTypes'
  BY <1>1, <1>3, <1>4 DEF PipeInv, PipeTypes, Gpu!GpuTypeOK, netVars
<1>9. BlocksFollow'
  <2>1. PICK len \in 0 .. N_INPUT_BLOCKS : InRun(len)
    BY DEF PipeInv, BlocksFollow
  <2>2. PICK olen \in 0 .. N_OUTPUT_BLOCKS : OutRun(olen)
    BY DEF PipeInv, BlocksFollow
  <2>3. InRun(len)' /\ OutRun(olen)'
    BY <1>1, <1>5, <2>1, <2>2 DEF InRun, OutRun, Run, netVars
  <2> QED
    BY <2>3 DEF BlocksFollow
<1>10. GpuHolds' /\ GpuHasRoom' /\ OutHolds'
  BY <1>1, <1>5, <1>6 DEF PipeInv, GpuHolds, GpuHasRoom, OutHolds, netVars, IsFilled, IsFree
<1>11. Copied'
  <2>1. gpu.pc \in {"data", "pass_on"} => gpu.curblock_out # b
    BY <1>6 DEF PipeInv, GpuHasRoom, IsFilled, IsFree
  <2>2. gpu.pc \in {"data", "pass_on"} => oblock'[gpu.curblock_out] = oblock[gpu.curblock_out]
    BY <1>1, <1>2, <2>1, PipeIsTyped
  <2> QED
    BY <2>2 DEF PipeInv, Copied, netVars
<1> QED
  BY <1>7, <1>8, <1>9, <1>10, <1>11 DEF PipeInv

LEMMA ReleaseKeeps ==
    ASSUME PipeInv, [Next]_vars, UNCHANGED <<sem, netVars, gpu>>, Out!Release
    PROVE  PipeInv'
<1> DEFINE n == N_OUTPUT_BLOCKS
           first == out.block_idx
<1>1. /\ UNCHANGED <<oblock, keys, faststatus>> /\ osem' = SetFree(osem, first)
      /\ out.pc = "release"
      /\ out' = [out EXCEPT !.pc = "top", !.block_idx = NextBlock(@, n)]
  BY DEF Out!Release, Out!At, Out!SetFree, SetFree, Out!NextBlock, NextBlock
<1>2. out \in [pc : OutLabels, block_idx : BlockIds(n),
               run_always : 0 .. 1, testmode : 0 .. 1, idle : 0 .. 1]
  BY OutIsTyped
<1>3. NextBlock(first, n) \in BlockIds(n)
  BY RingSizes, PipeIsTyped, FromNext
<1>4. /\ out'.pc = "top" /\ out'.block_idx = NextBlock(first, n)
      /\ out' \in [pc : OutLabels, block_idx : BlockIds(n),
                   run_always : 0 .. 1, testmode : 0 .. 1, idle : 0 .. 1]
  BY <1>1, <1>2, <1>3, Zenon DEF OutLabels
<1>5. Out!OutTypeOK'
  BY <1>1, <1>4 DEF PipeInv, PipeTypes, Out!OutTypeOK, Out!BlockIds, BlockIds, OutLabels,
                    Out!Keys
<1>6. PICK len \in 0 .. n : OutRun(len)
  BY DEF PipeInv, BlocksFollow
<1>7. osem[first] = "filled"
  BY <1>1 DEF PipeInv, OutHolds, IsFilled
<1>8. /\ len - 1 \in 0 .. n /\ SetFree(osem, first) \in Rings(n)
      /\ Run(SetFree(osem, first), NextBlock(first, n), len - 1, n)
      /\ (NextBlock(first, n) + (len - 1)) % n = (first + len) % n
  <2>1. /\ n \in Nat \ {0} /\ first \in BlockIds(n) /\ osem \in Rings(n)
        /\ Run(osem, first, len, n)
    BY <1>6, RingSizes, PipeIsTyped DEF OutRun
  <2> QED
    BY <1>7, <2>1, FreeShortensRun
<1>9. OutRun(len - 1)'
  BY <1>1, <1>4, <1>6, <1>8 DEF OutRun, Run
<1>10. \E k \in 0 .. N_INPUT_BLOCKS : InRun(k)'
  <2>1. PICK k \in 0 .. N_INPUT_BLOCKS : InRun(k)
    BY DEF PipeInv, BlocksFollow
  <2>2. InRun(k)'
    BY <2>1 DEF InRun, Run, netVars
  <2> QED
    BY <2>2
<1>11. IInv'
  BY StepIInv DEF PipeInv
<1>12. PipeTypes'
  BY <1>1, <1>5, <1>8 DEF PipeInv, PipeTypes, Gpu!GpuTypeOK, netVars
<1>13. GpuHasRoom'
  <2>1. \A b \in OutBlocks : IsFree(osem, b) => IsFree(osem', b)
    BY <1>1, PipeIsTyped, RingSizes DEF IsFree, SetFree, Rings
  <2> QED
    BY <2>1, PipeIsTyped DEF PipeInv, GpuHasRoom, IsFree
<1>14. GpuHolds' /\ Copied' /\ OutHolds'
  BY <1>1, <1>4 DEF PipeInv, GpuHolds, Copied, OutHolds, netVars, IsFilled
<1> QED
  BY <1>8, <1>9, <1>10, <1>11, <1>12, <1>13, <1>14 DEF PipeInv, BlocksFollow
-----------------------------------------------------------------------------
\* A step in which the other two threads do nothing, and one of the network
\* thread or of the stream.
NetOnly ==
    \/ NetDeliver \/ NetStep \/ LosePacket
    \/ WaitFails /\ UNCHANGED <<osem, oblock, gpu, outVars, from, at, restarts, lost>>
    \/ UNCHANGED pipeVars

LEMMA NetOnlyIs ==
    ASSUME PipeInv, NetOnly
    PROVE  /\ NetMove /\ UNCHANGED <<osem, oblock, gpu, outVars>>
           /\ at' \in from .. from + Length /\ from' = from
<1>1. CASE NetDeliver
  <2>1. at < from + Length /\ Receive(NextPacket) /\ at' = at + 1
    BY <1>1 DEF NetDeliver, Deliver
  <2>2. NextPacket \in Packets /\ at + 1 \in from .. from + Length
    BY <2>1, PacketOfStream
  <2> QED
    BY <1>1, <2>1, <2>2 DEF NetDeliver, Deliver, NetMove
<1>2. CASE LosePacket
  <2>1. at < from + Length /\ at' = at + 1
    BY <1>2 DEF LosePacket
  <2>2. at + 1 \in from .. from + Length
    BY <2>1, PacketOfStream
  <2> QED
    BY <1>2, <2>1, <2>2 DEF LosePacket, NetMove
<1>3. CASE ~NetDeliver /\ ~LosePacket
  <2>1. at \in from .. from + Length
    BY DEF PipeInv, PipeTypes
  <2> QED
    BY <1>3, <2>1 DEF NetOnly, NetStep, NetMove, pipeVars, ringVars, netVars, vars
<1> QED
  BY <1>1, <1>2, <1>3

\* The steps of the pipeline, by who takes them.
LEMMA StepsOfThreads ==
    ASSUME [PipeNext]_pipeVars
    PROVE  \/ NetOnly
           \/ /\ UNCHANGED <<netVars, outVars>>
              /\ \/ Gpu!EnterLoop \/ Gpu!LeaveLoop \/ Gpu!WaitInput \/ Gpu!WaitOutput
                 \/ Gpu!GpuWaitFails
                 \/ Gpu!CopyHeader \/ Gpu!CopyData
                 \/ Gpu!PassOn \/ Gpu!GiveBack
           \/ /\ UNCHANGED <<sem, netVars, gpu>>
              /\ OutOnly \/ Out!ClearBlock \/ Out!Release
<1>1. CASE NetDeliver \/ NetStep \/ LosePacket \/ Idles \/ UNCHANGED pipeVars
  BY <1>1 DEF NetOnly, Idles
<1>2. CASE GpuMove
  BY <1>2 DEF GpuMove, Gpu!GpuStep
<1>3. CASE OutMove
  BY <1>3 DEF OutMove, Out!OutStep, OutOnly
<1>4. CASE Fails
  BY <1>4 DEF Fails, NetOnly, OutOnly
<1> QED
  BY <1>1, <1>2, <1>3, <1>4 DEF PipeNext

LEMMA StepPipeInv == PipeInv /\ [PipeNext]_pipeVars => PipeInv'
<1> SUFFICES ASSUME PipeInv, [PipeNext]_pipeVars PROVE PipeInv'
  OBVIOUS
<1>1. [Next]_vars
  BY StepIsNetworkStep
<1>2. CASE NetOnly
  <2>1. /\ NetMove /\ UNCHANGED <<osem, oblock, gpu, outVars>>
        /\ at' \in from .. from + Length /\ from' = from
    BY <1>2, NetOnlyIs
  <2> QED
    BY <1>1, <2>1, NetMoveKeeps
<1>3. CASE UNCHANGED <<netVars, outVars>> /\ (Gpu!EnterLoop \/ Gpu!LeaveLoop
              \/ Gpu!WaitInput \/ Gpu!WaitOutput \/ Gpu!GpuWaitFails)
  BY <1>1, <1>3, GpuWaitKeeps
<1>4. CASE UNCHANGED <<netVars, outVars>> /\ (Gpu!CopyHeader \/ Gpu!CopyData)
  BY <1>1, <1>4, GpuCopyKeeps
<1>5. CASE UNCHANGED <<netVars, outVars>> /\ Gpu!PassOn
  BY <1>1, <1>5, GpuPassOnKeeps
<1>6. CASE UNCHANGED <<netVars, outVars>> /\ Gpu!GiveBack
  BY <1>1, <1>6, GpuGiveBackKeeps
<1>7. CASE UNCHANGED <<sem, netVars, gpu>> /\ OutOnly
  BY <1>1, <1>7, OutOnlyKeeps
<1>8. CASE UNCHANGED <<sem, netVars, gpu>> /\ Out!ClearBlock
  BY <1>1, <1>8, ClearBlockKeeps
<1>9. CASE UNCHANGED <<sem, netVars, gpu>> /\ Out!Release
  BY <1>1, <1>9, ReleaseKeeps
<1> QED
  BY <1>2, <1>3, <1>4, <1>5, <1>6, <1>7, <1>8, <1>9, StepsOfThreads

\* PipeInv is an invariant of the pipeline.
THEOREM PipeInvariance == PipeSpec => []PipeInv
<1> QED
  BY InitPipeInv, StepPipeInv, PTL DEF PipeSpec

(***************************************************************************)
(* In the pipeline the network thread and its ring behave as Pktsock says: *)
(* what that module assumes of a consumer, that it frees none but filled   *)
(* blocks, the GPU thread does.  All that is proved of Spec holds here.    *)
(***************************************************************************)
THEOREM PipelineRefinesPktsock == PipeSpec => Spec
<1>1. PipeInit => Init
  BY DEF PipeInit, StreamInit
<1> QED
  BY <1>1, PipeInvariance, StepIsNetworkStep, PTL DEF PipeSpec, Spec

(***************************************************************************)
(* The state of the three threads and of both rings stays well-typed: each *)
(* thread's block number stays in its ring.                                *)
(***************************************************************************)
THEOREM PipeTypeCorrect == PipeSpec => []PipeTypeOK
<1>1. PipeInv => PipeTypeOK
  BY RingSizes DEF PipeInv, PipeTypes, IInv, PipeTypeOK, Rings
<1> QED
  BY <1>1, PipeInvariance, PTL

(***************************************************************************)
(* Two threads are never at the same block of a ring at once, although     *)
(* nothing but the semaphores keeps them apart.                            *)
(***************************************************************************)
THEOREM NoBlockIsShared == PipeSpec => []NoSharedBlock
<1>1. PipeInv => NoSharedBlock
  <2> SUFFICES ASSUME PipeInv PROVE NoSharedBlock
    OBVIOUS
  <2>1. ASSUME pc \in {"recv", "return"}, gpu.pc \notin {"top", "wait_in", "exited"}
        PROVE  gpu.curblock_in \notin {CurBlock, Ahead}
    <3>1. IsFree(sem, CurBlock) /\ IsFree(sem, Ahead)
      BY <2>1 DEF PipeInv, IInv, OwnsWindow, Holds
    <3>2. IsFilled(sem, gpu.curblock_in)
      BY <2>1 DEF PipeInv, PipeTypes, Gpu!GpuTypeOK, GpuHolds
    <3> QED
      BY <3>1, <3>2 DEF IsFree, IsFilled
  <2>2. ASSUME gpu.pc \in {"header", "data", "pass_on"},
               out.pc \notin {"top", "wait", "exited"}
        PROVE  gpu.curblock_out # out.block_idx
    <3>1. IsFree(osem, gpu.curblock_out)
      BY <2>2 DEF PipeInv, GpuHasRoom
    <3>2. IsFilled(osem, out.block_idx)
      BY <2>2, OutIsTyped DEF PipeInv, OutHolds, OutLabels
    <3> QED
      BY <3>1, <3>2 DEF IsFree, IsFilled
  <2> QED
    BY <2>1, <2>2 DEF NoSharedBlock
<1> QED
  BY <1>1, PipeInvariance, PTL
-----------------------------------------------------------------------------
(***************************************************************************)
(* The pipeline as a queue.  The blocks of the output ring come first.     *)
(***************************************************************************)
Front == FilledBlocks(osem, oblock, out.block_idx, N_OUTPUT_BLOCKS, out.pc = "release")
Back  == FilledBlocks(sem, InBlock, gpu.curblock_in, N_INPUT_BLOCKS, gpu.pc = "give_back")

LEMMA FrontIs ==
    /\ Front = IF out.pc = "release"
                 THEN FilledBlocks(osem, oblock, out.block_idx, N_OUTPUT_BLOCKS, TRUE)
                 ELSE FilledBlocks(osem, oblock, out.block_idx, N_OUTPUT_BLOCKS, FALSE)
    /\ Front' = IF out'.pc = "release"
                  THEN FilledBlocks(osem', oblock', out'.block_idx, N_OUTPUT_BLOCKS, TRUE)
                  ELSE FilledBlocks(osem', oblock', out'.block_idx, N_OUTPUT_BLOCKS, FALSE)
  BY DEF Front, FilledBlocks

LEMMA BackIs ==
    /\ Back = IF gpu.pc = "give_back"
                THEN FilledBlocks(sem, InBlock, gpu.curblock_in, N_INPUT_BLOCKS, TRUE)
                ELSE FilledBlocks(sem, InBlock, gpu.curblock_in, N_INPUT_BLOCKS, FALSE)
    /\ Back' = IF gpu'.pc = "give_back"
                 THEN FilledBlocks(sem', InBlock', gpu'.curblock_in, N_INPUT_BLOCKS, TRUE)
                 ELSE FilledBlocks(sem', InBlock', gpu'.curblock_in, N_INPUT_BLOCKS, FALSE)
  BY DEF Back, FilledBlocks

\* A block that is passed on but not freed is in its ring.
LEMMA SkipsFilled ==
    ASSUME PipeInv
    PROVE  /\ \A len \in 0 .. N_INPUT_BLOCKS :
                 InRun(len) => Skip(gpu.pc = "give_back") <= len
           /\ \A len \in 0 .. N_OUTPUT_BLOCKS :
                 OutRun(len) => Skip(out.pc = "release") <= len
<1>1. ASSUME NEW len \in 0 .. N_INPUT_BLOCKS, InRun(len)
      PROVE  Skip(gpu.pc = "give_back") <= len
  <2>1. sem[gpu.curblock_in] = IF 0 < len THEN "filled" ELSE "free"
    BY <1>1, RingSizes, PipeIsTyped, FirstOfRun DEF InRun
  <2>2. gpu.pc = "give_back" => 0 < len
    BY <2>1 DEF PipeInv, GpuHolds, IsFilled
  <2> QED
    BY <2>2, SMT DEF Skip
<1>2. ASSUME NEW len \in 0 .. N_OUTPUT_BLOCKS, OutRun(len)
      PROVE  Skip(out.pc = "release") <= len
  <2>1. osem[out.block_idx] = IF 0 < len THEN "filled" ELSE "free"
    BY <1>2, RingSizes, PipeIsTyped, FirstOfRun DEF OutRun
  <2>2. out.pc = "release" => 0 < len
    BY <2>1 DEF PipeInv, OutHolds, IsFilled
  <2> QED
    BY <2>2, SMT DEF Skip
<1> QED
  BY <1>1, <1>2

LEMMA QueueIsTyped ==
    ASSUME PipeInv
    PROVE  /\ \A len \in 0 .. N_INPUT_BLOCKS :
                 InRun(len) => Back \in Seq(BlockValue) /\ Len(Back) <= len
           /\ \A len \in 0 .. N_OUTPUT_BLOCKS :
                 OutRun(len) => Front \in Seq(BlockValue) /\ Len(Front) <= len
<1>1. ASSUME NEW len \in 0 .. N_INPUT_BLOCKS, InRun(len)
      PROVE  Back \in Seq(BlockValue) /\ Len(Back) <= len
  <2> DEFINE passedOn == gpu.pc = "give_back"
             skip == Skip(passedOn)
  <2>1. skip <= len /\ skip \in 0 .. 1
    BY <1>1, SkipsFilled, SMT DEF Skip
  <2>2. Back = FilledBlocks(sem, InBlock, gpu.curblock_in, N_INPUT_BLOCKS, passedOn)
    BY DEF Back
  <2> HIDE DEF passedOn
  <2>3. HoldsBlocks(FilledBlocks(sem, InBlock, gpu.curblock_in, N_INPUT_BLOCKS, passedOn),
                    BlockValue, len - skip, InBlock, gpu.curblock_in, skip, N_INPUT_BLOCKS)
    BY <1>1, <2>1, RingSizes, PipeIsTyped, FilledBlocksAre DEF InRun
  <2>4. Back \in Seq(BlockValue) /\ Len(Back) = len - skip
    BY <2>2, <2>3 DEF HoldsBlocks
  <2> HIDE DEF skip
  <2> QED
    BY <2>1, <2>4, SMT
<1>2. ASSUME NEW len \in 0 .. N_OUTPUT_BLOCKS, OutRun(len)
      PROVE  Front \in Seq(BlockValue) /\ Len(Front) <= len
  <2> DEFINE passedOn == out.pc = "release"
             skip == Skip(passedOn)
  <2>1. skip <= len /\ skip \in 0 .. 1
    BY <1>2, SkipsFilled, SMT DEF Skip
  <2>2. Front = FilledBlocks(osem, oblock, out.block_idx, N_OUTPUT_BLOCKS, passedOn)
    BY DEF Front
  <2> HIDE DEF passedOn
  <2>3. HoldsBlocks(FilledBlocks(osem, oblock, out.block_idx, N_OUTPUT_BLOCKS, passedOn),
                    BlockValue, len - skip, oblock, out.block_idx, skip, N_OUTPUT_BLOCKS)
    BY <1>2, <2>1, RingSizes, PipeIsTyped, FilledBlocksAre DEF OutRun
  <2>4. Front \in Seq(BlockValue) /\ Len(Front) = len - skip
    BY <2>2, <2>3 DEF HoldsBlocks
  <2> HIDE DEF skip
  <2> QED
    BY <2>1, <2>4, SMT
<1> QED
  BY <1>1, <1>2

\* The two rings hold nothing of what the network thread is writing.
LEMMA NetOnlyIsPut ==
    ASSUME PipeInv, NetOnly, [Next]_vars
    PROVE  \/ Fills /\ Queue!Put /\ InFlight \in Seq(BlockValue)
              /\ Appends(InFlight', InFlight, (InBlock')[CurBlock], BlockValue)
           \/ ~Fills /\ InFlight' = InFlight
<1>1. NetMove /\ UNCHANGED <<osem, oblock, gpu, outVars>>
  BY NetOnlyIs
<1>2. Front' = Front
  BY <1>1, FrontIs DEF outVars
<1>3. InFlight = Front \o Back /\ InFlight' = Front' \o Back'
  BY DEF InFlight, Front, Back
<1> DEFINE n == N_INPUT_BLOCKS
           first == gpu.curblock_in
           passedOn == gpu.pc = "give_back"
           block == InBlock
           after == InBlock'
           b == CurBlock
<1>4. Back = FilledBlocks(sem, block, first, n, passedOn)
  BY DEF Back
<1>5. Back' = FilledBlocks(sem', after, first, n, passedOn)
  BY <1>1 DEF Back
<1>6. /\ n \in Nat \ {0} /\ first \in BlockIds(n) /\ sem \in Rings(n)
      /\ block \in [BlockIds(n) -> BlockValue]
  BY RingSizes, PipeIsTyped
<1>7. after \in [BlockIds(n) -> BlockValue]
  <2>1. hdr' \in [InBlocks -> Header] /\ data' \in [InBlocks -> SUBSET Nat]
    BY StepIInv DEF PipeInv, IInv, TypeOK
  <2> QED
    BY <2>1, RingSizes DEF InBlock, BlockValue
<1>8. AgreeOnFilled(sem, block, after, n)
  <2>1. [LeavesFilledBlocks]_vars
    BY StepFreezes DEF PipeInv
  <2> QED
    BY <2>1, RingSizes DEF LeavesFilledBlocks, vars, AgreeOnFilled, InBlock
<1>9. \A len \in 0 .. n : InRun(len) => Skip(passedOn) <= len
  BY SkipsFilled
<1> HIDE DEF passedOn, block, after
<1>10. ASSUME sem' = sem
       PROVE  ~Fills /\ InFlight' = InFlight
  <2>0. ~Fills
    <3>1. Fills => sem[CurBlock] = "free" /\ sem'[CurBlock] = "filled"
      BY PipeIsTyped, RingSizes, WindowSlots DEF PipeInv, IInv, Fills, IsFree, SetFilled, Rings
    <3> QED
      BY <1>10, <3>1
  <2>1. PICK len \in 0 .. n : InRun(len)
    BY DEF PipeInv, BlocksFollow
  <2>2. Run(sem, first, len, n) /\ Skip(passedOn) <= len
    BY <1>9, <2>1 DEF InRun
  <2> HIDE DEF n, first
  <2>3. FilledBlocks(sem, after, first, n, passedOn) = FilledBlocks(sem, block, first, n, passedOn)
    <3>1. n \in Nat \ {0} /\ first \in BlockIds(n) /\ len \in 0 .. n
      BY <1>6, <2>1
    <3>2. block \in [BlockIds(n) -> BlockValue] /\ after \in [BlockIds(n) -> BlockValue]
      BY <1>6, <1>7
    <3>3. Run(sem, first, len, n) /\ AgreeOnFilled(sem, block, after, n) /\ Skip(passedOn) <= len
      BY <1>8, <2>2
    <3> QED
      BY <3>1, <3>2, <3>3, FreeBlocksDoNotCount, SMTT(60)
  <2> QED
    BY <1>2, <1>3, <1>4, <1>5, <1>10, <2>0, <2>3
<1>11. CASE Fills
  <2>1. PICK len \in 0 .. n : /\ len < n - 1 /\ InRun(len)
                              /\ b = (first + len) % n
    BY <1>11, FillsNext
  <2>2. /\ Run(sem, first, len, n) /\ Skip(passedOn) <= len /\ sem[b] = "free"
        /\ sem' = SetFilled(sem, b)
    BY <1>9, <1>11, <2>1 DEF InRun, Fills, IsFree
  <2> HIDE DEF n, first, b
  <2>3. Appends(FilledBlocks(SetFilled(sem, b), after, first, n, passedOn),
                FilledBlocks(sem, block, first, n, passedOn), after[b], BlockValue)
    <3>1. IsNext(b, sem, first, len, n)
      BY <2>1, <2>2 DEF IsNext
    <3> QED
      BY <1>6, <1>7, <1>8, <2>2, <3>1, FillAppends, Zenon
  <2>4. /\ Back \in Seq(BlockValue) /\ after[b] \in BlockValue
        /\ Back' = Append(Back, after[b])
    BY <1>4, <1>5, <2>2, <2>3 DEF Appends
  <2>5. PICK olen \in 0 .. N_OUTPUT_BLOCKS : OutRun(olen)
    BY DEF PipeInv, BlocksFollow
  <2>6. Front \in Seq(BlockValue) /\ Len(Front) <= olen /\ Len(Back) <= len
    BY <2>1, <2>5, QueueIsTyped DEF n
  <2>7. /\ InFlight \in Seq(BlockValue) /\ Len(InFlight) = Len(Front) + Len(Back)
        /\ Len(InFlight') = Len(InFlight) + 1
        /\ SubSeq(InFlight', 1, Len(InFlight)) = InFlight
        /\ InFlight' = Append(InFlight, after[b])
    <3> DEFINE fr == Front
               bk == Back
               e  == after[b]
    <3>1. fr \in Seq(BlockValue) /\ bk \in Seq(BlockValue) /\ e \in BlockValue
      BY <2>4, <2>6
    <3>2. InFlight = fr \o bk /\ InFlight' = fr \o Append(bk, e)
      BY <1>2, <1>3, <2>4
    <3> HIDE DEF fr, bk, e
    <3>3. GoesInBehind(fr, bk, e, BlockValue)
      BY <3>1, PutAtBack, Zenon
    <3> QED
      BY <3>2, <3>3, Zenon DEF GoesInBehind, fr, bk, e
  <2>8. Len(InFlight) < N_INPUT_BLOCKS - 1 + N_OUTPUT_BLOCKS
    <3>1. Len(Front) \in Nat /\ Len(Back) \in Nat
      BY <2>4, <2>6, LenProperties
    <3> QED
      BY <2>1, <2>6, <2>7, <3>1, RingSizes, SMT DEF n
  <2> QED
    BY <1>11, <2>4, <2>7, <2>8 DEF Queue!Put, Appends, after, b
<1> QED
  BY <1>1, <1>10, <1>11, NetFills

\* ... nor of what the GPU thread is copying.
LEMMA GpuCopyIsStutter ==
    ASSUME PipeInv, UNCHANGED <<netVars, outVars>>,
           \/ Gpu!EnterLoop \/ Gpu!LeaveLoop \/ Gpu!WaitInput \/ Gpu!WaitOutput
           \/ Gpu!GpuWaitFails \/ Gpu!CopyHeader \/ Gpu!CopyData
    PROVE  InFlight' = InFlight
<1>1. gpu \in [pc : {"top", "wait_in", "wait_out", "header", "data", "pass_on", "give_back",
                     "exited"},
               curblock_in : BlockIds(N_INPUT_BLOCKS), curblock_out : BlockIds(N_OUTPUT_BLOCKS)]
  BY DEF PipeInv, PipeTypes, Gpu!GpuTypeOK, Gpu!BlockIds, BlockIds
<1>2. /\ UNCHANGED <<sem, osem, InBlock>>
      /\ \E label \in {"wait_in", "wait_out", "header", "data", "pass_on", "exited"} :
             gpu' = [gpu EXCEPT !.pc = label]
      /\ gpu.pc # "give_back"
  BY DEF Gpu!EnterLoop, Gpu!LeaveLoop, Gpu!WaitInput, Gpu!WaitOutput, Gpu!GpuWaitFails,
         Gpu!CopyHeader, Gpu!CopyData, Gpu!GoTo, Gpu!At, InBlock, netVars
<1>3. gpu'.pc # "give_back" /\ gpu'.curblock_in = gpu.curblock_in
  BY <1>1, <1>2
<1>4. Back' = Back
  BY <1>2, <1>3, BackIs
<1> DEFINE n == N_OUTPUT_BLOCKS
           first == out.block_idx
           passedOn == out.pc = "release"
           after == oblock'
<1>5. AgreeOnFilled(osem, oblock, after, n) /\ after \in [BlockIds(n) -> BlockValue]
  <2>1. oblock \in [BlockIds(n) -> BlockValue] /\ gpu.curblock_out \in BlockIds(n)
    BY PipeIsTyped, RingSizes
  <2>2. CASE after = oblock
    BY <2>1, <2>2 DEF AgreeOnFilled
  <2>3. CASE Gpu!CopyHeader \/ Gpu!CopyData
    <3>1. IsFree(osem, gpu.curblock_out)
      BY <2>3 DEF PipeInv, GpuHasRoom, Gpu!CopyHeader, Gpu!CopyData, Gpu!At
    <3>2. InBlock[gpu.curblock_in].header \in Header /\ InBlock[gpu.curblock_in].data \in SUBSET Nat
      BY PipeIsTyped DEF BlockValue
    <3>3. \/ after = [oblock EXCEPT ![gpu.curblock_out].header = InBlock[gpu.curblock_in].header]
          \/ after = [oblock EXCEPT ![gpu.curblock_out].data = InBlock[gpu.curblock_in].data]
      BY <2>3 DEF Gpu!CopyHeader, Gpu!CopyData
    <3> HIDE DEF after
    <3>4. after \in [BlockIds(n) -> BlockValue]
      BY <2>1, <3>2, <3>3 DEF BlockValue
    <3>5. \A b \in BlockIds(n) : b # gpu.curblock_out => after[b] = oblock[b]
      BY <2>1, <3>3
    <3> QED
      BY <3>1, <3>4, <3>5 DEF AgreeOnFilled, IsFree, IsFilled
  <2> QED
    BY <2>2, <2>3 DEF Gpu!EnterLoop, Gpu!LeaveLoop, Gpu!WaitInput, Gpu!WaitOutput,
                      Gpu!GpuWaitFails
<1>6. Front = FilledBlocks(osem, oblock, first, n, passedOn)
  BY DEF Front
<1>7. Front' = FilledBlocks(osem, after, first, n, passedOn)
  BY <1>2 DEF Front, outVars
<1>8. PICK len \in 0 .. n : OutRun(len)
  BY DEF PipeInv, BlocksFollow
<1>9. Run(osem, first, len, n) /\ Skip(passedOn) <= len
  BY <1>8, SkipsFilled DEF OutRun
<1>10. n \in Nat \ {0} /\ first \in BlockIds(n) /\ oblock \in [BlockIds(n) -> BlockValue]
  BY RingSizes, PipeIsTyped
<1> HIDE DEF passedOn, after, n, first
<1>11. FilledBlocks(osem, after, first, n, passedOn) = FilledBlocks(osem, oblock, first, n, passedOn)
  BY <1>5, <1>8, <1>9, <1>10, FreeBlocksDoNotCount
<1> QED
  BY <1>4, <1>6, <1>7, <1>11 DEF InFlight, Front, Back

\* A block that is passed on leaves the input ring and enters the output ring.
LEMMA PassOnIsStutter ==
    ASSUME PipeInv, UNCHANGED <<netVars, outVars>>, Gpu!PassOn
    PROVE  InFlight' = InFlight
<1> DEFINE n == N_OUTPUT_BLOCKS
           first == out.block_idx
           b == gpu.curblock_out
           cin == gpu.curblock_in
           block == oblock
           iblock == InBlock
           passedOn == out.pc = "release"
<1>1. /\ UNCHANGED <<sem, oblock, InBlock>> /\ gpu.pc = "pass_on"
      /\ gpu'.pc = "give_back" /\ gpu'.curblock_in = cin
  <2>1. gpu \in [pc : {"top", "wait_in", "wait_out", "header", "data", "pass_on", "give_back",
                       "exited"},
                 curblock_in : BlockIds(N_INPUT_BLOCKS),
                 curblock_out : BlockIds(N_OUTPUT_BLOCKS)]
    BY DEF PipeInv, PipeTypes, Gpu!GpuTypeOK, Gpu!BlockIds, BlockIds
  <2> QED
    BY <2>1 DEF Gpu!PassOn, Gpu!At, InBlock, netVars
<1>2. /\ Back = FilledBlocks(sem, iblock, cin, N_INPUT_BLOCKS, FALSE)
      /\ Back' = FilledBlocks(sem, iblock, cin, N_INPUT_BLOCKS, TRUE)
  BY <1>1, BackIs
<1>3. Back \in Seq(BlockValue) /\ Back # << >> /\ Head(Back) = iblock[cin] /\ Back' = Tail(Back)
  <2>1. PICK len \in 0 .. N_INPUT_BLOCKS : InRun(len)
    BY DEF PipeInv, BlocksFollow
  <2>2. sem[cin] = "filled"
    BY <1>1 DEF PipeInv, GpuHolds, IsFilled
  <2>3. Run(sem, cin, len, N_INPUT_BLOCKS)
    BY <2>1 DEF InRun
  <2>4. 0 < len
    BY <2>2, <2>3, RingSizes, PipeIsTyped, FirstOfRun
  <2>5. cin \in BlockIds(N_INPUT_BLOCKS) /\ iblock \in [BlockIds(N_INPUT_BLOCKS) -> BlockValue]
    BY RingSizes, PipeIsTyped
  <2> DEFINE in == N_INPUT_BLOCKS
  <2>6. Run(sem, cin, len, in) /\ in \in Nat \ {0} /\ len \in 0 .. in
    BY <2>3, RingSizes
  <2> HIDE DEF cin, iblock, in
  <2>7. Takes(FilledBlocks(sem, iblock, cin, in, TRUE), FilledBlocks(sem, iblock, cin, in, FALSE),
              iblock[cin], BlockValue)
    BY <2>4, <2>5, <2>6, PassingOnTakes, Zenon DEF in
  <2> QED
    BY <1>2, <2>7 DEF Takes, in
<1>4. block[b] = iblock[cin]
  <2>1. /\ oblock[b].header = hdr[cin] /\ oblock[b].data = data[cin]
    BY <1>1 DEF PipeInv, Copied
  <2>2. oblock[b] \in BlockValue /\ InBlock[cin] = [header |-> hdr[cin], data |-> data[cin]]
    BY PipeIsTyped DEF InBlock
  <2> QED
    BY <2>1, <2>2 DEF BlockValue
<1>5. PICK len \in 0 .. n : OutRun(len) /\ osem[b] = "free" /\ osem' = SetFilled(osem, b)
  BY PassesOnNext
<1>6. Front = FilledBlocks(osem, block, first, n, passedOn)
  BY DEF Front
<1>7. Front' = FilledBlocks(SetFilled(osem, b), block, first, n, passedOn)
  BY <1>1, <1>5 DEF Front, outVars
<1>8. /\ n \in Nat \ {0} /\ first \in BlockIds(n) /\ osem \in Rings(n)
      /\ block \in [BlockIds(n) -> BlockValue] /\ b \in BlockIds(n)
  BY RingSizes, PipeIsTyped
<1>9. IsNext(b, osem, first, len, n) /\ Skip(passedOn) <= len
  BY <1>5, SkipsFilled DEF OutRun, IsNext
<1>10. AgreeOnFilled(osem, block, block, n)
  BY DEF AgreeOnFilled
<1> HIDE DEF passedOn, n, first, b, block, iblock, cin
<1>11. Appends(FilledBlocks(SetFilled(osem, b), block, first, n, passedOn),
               FilledBlocks(osem, block, first, n, passedOn), block[b], BlockValue)
  BY <1>8, <1>9, <1>10, FillAppends, Zenon
<1>12. Front \in Seq(BlockValue) /\ Front' = Append(Front, Head(Back))
  BY <1>3, <1>4, <1>6, <1>7, <1>11 DEF Appends
<1>13. Front' \o Back' = Front \o Back
  BY <1>3, <1>12, PassBetween
<1> QED
  BY <1>13 DEF InFlight, Front, Back

LEMMA GiveBackIsStutter ==
    ASSUME PipeInv, UNCHANGED <<netVars, outVars>>, Gpu!GiveBack
    PROVE  InFlight' = InFlight
<1> DEFINE n == N_INPUT_BLOCKS
           first == gpu.curblock_in
           block == InBlock
<1>1. gpu \in [pc : {"top", "wait_in", "wait_out", "header", "data", "pass_on", "give_back",
                     "exited"},
               curblock_in : BlockIds(n), curblock_out : BlockIds(N_OUTPUT_BLOCKS)]
  BY DEF PipeInv, PipeTypes, Gpu!GpuTypeOK, Gpu!BlockIds, BlockIds
<1>2. /\ UNCHANGED <<osem, oblock, InBlock>> /\ sem' = SetFree(sem, first)
      /\ gpu.pc = "give_back"
      /\ gpu' = [gpu EXCEPT !.pc = "top", !.curblock_in = NextBlock(@, n)]
  BY DEF Gpu!GiveBack, Gpu!At, Gpu!SetFree, SetFree, Gpu!NextBlock, NextBlock, InBlock, netVars
<1>3. gpu'.pc # "give_back" /\ gpu'.curblock_in = NextBlock(first, n)
  BY <1>1, <1>2
<1>4. Front' = Front
  BY <1>2, FrontIs DEF outVars
<1>5. /\ Back = FilledBlocks(sem, block, first, n, TRUE)
      /\ Back' = FilledBlocks(SetFree(sem, first), block, NextBlock(first, n), n, FALSE)
  BY <1>2, <1>3, BackIs
<1>6. PICK len \in 0 .. n : InRun(len)
  BY DEF PipeInv, BlocksFollow
<1>7. /\ Run(sem, first, len, n) /\ sem[first] = "filled"
      /\ n \in Nat \ {0} /\ first \in BlockIds(n) /\ sem \in Rings(n)
      /\ block \in [BlockIds(n) -> BlockValue]
  BY <1>2, <1>6, RingSizes, PipeIsTyped DEF InRun, PipeInv, GpuHolds, IsFilled
<1> HIDE DEF n, first, block
<1>8. Back' = Back
  BY <1>5, <1>7, FreeingKeeps
<1> QED
  BY <1>4, <1>8 DEF InFlight, Front, Back

LEMMA OutOnlyIsStutter ==
    ASSUME PipeInv, UNCHANGED <<sem, netVars, gpu>>, OutOnly
    PROVE  InFlight' = InFlight
<1>1. Front' = Front
  BY OutOnlyIs, FrontIs
<1>2. Back' = Back
  BY BackIs DEF InBlock, netVars
<1> QED
  BY <1>1, <1>2 DEF InFlight, Front, Back

\* A block is out of the queue when the output thread has cleared it.
LEMMA ClearBlockIsTake ==
    ASSUME PipeInv, UNCHANGED <<sem, netVars, gpu>>, Out!ClearBlock
    PROVE  Queue!Take
<1> DEFINE n == N_OUTPUT_BLOCKS
           first == out.block_idx
           block == oblock
           after == oblock'
<1>1. /\ osem' = osem /\ after = [oblock EXCEPT ![first] = Out!ZeroBlock]
      /\ out.pc = "clear" /\ out' = [out EXCEPT !.pc = "release"]
  BY DEF Out!ClearBlock, Out!At, Out!GoTo
<1>2. out'.pc = "release" /\ out'.block_idx = first
  BY <1>1, OutIsTyped
<1>3. Back' = Back
  BY BackIs DEF InBlock, netVars
<1>4. /\ Front = FilledBlocks(osem, block, first, n, FALSE)
      /\ Front' = FilledBlocks(osem, after, first, n, TRUE)
  BY <1>1, <1>2, FrontIs
<1>5. /\ n \in Nat \ {0} /\ first \in BlockIds(n) /\ block \in [BlockIds(n) -> BlockValue]
  BY RingSizes, PipeIsTyped
<1>6. after \in [BlockIds(n) -> BlockValue]
  <2>1. 0 \in Nat /\ 0 \in 0 .. U64 - 1
    BY PktsockConstants, Constants, SMT
  <2>2. Out!ZeroBlock \in BlockValue
    BY <2>1 DEF Out!ZeroBlock, BlockValue, Header
  <2> QED
    BY <1>1, <1>5, <2>2
<1>7. AgreeElsewhere(first, block, after, n)
  BY <1>1, <1>5 DEF AgreeElsewhere
<1>8. PICK len \in 0 .. n : OutRun(len)
  BY DEF PipeInv, BlocksFollow
<1>9. Run(osem, first, len, n) /\ 0 < len
  <2>1. Run(osem, first, len, n) /\ osem[first] = "filled"
    BY <1>1, <1>8 DEF OutRun, PipeInv, OutHolds, IsFilled
  <2> QED
    BY <1>5, <2>1, FirstOfRun
<1>10. PICK ilen \in 0 .. N_INPUT_BLOCKS : InRun(ilen)
  BY DEF PipeInv, BlocksFollow
<1>11. Back \in Seq(BlockValue)
  BY <1>10, QueueIsTyped
<1> HIDE DEF n, first, block, after
<1>12. Takes(FilledBlocks(osem, block, first, n, TRUE),
             FilledBlocks(osem, block, first, n, FALSE), block[first], BlockValue)
  BY <1>5, <1>9, PassingOnTakes, ZenonT(60)
<1>13. FilledBlocks(osem, after, first, n, TRUE) = FilledBlocks(osem, block, first, n, TRUE)
  BY <1>5, <1>6, <1>7, <1>9, PassedOnDoesNotCount, ZenonT(60)
<1>14. Front \in Seq(BlockValue) /\ Front # << >> /\ Front' = Tail(Front)
  BY <1>4, <1>12, <1>13, Zenon DEF Takes
<1>15. Front \o Back # << >> /\ Tail(Front) \o Back = Tail(Front \o Back)
  BY <1>11, <1>14, TakeFromFront
<1>16. InFlight = Front \o Back /\ InFlight' = Front' \o Back'
  BY DEF InFlight, Front, Back
<1>17. InFlight # << >> /\ InFlight' = Tail(InFlight)
  BY <1>3, <1>14, <1>15, <1>16
<1> QED
  BY <1>17 DEF Queue!Take

LEMMA ReleaseIsStutter ==
    ASSUME PipeInv, UNCHANGED <<sem, netVars, gpu>>, Out!Release
    PROVE  InFlight' = InFlight
<1> DEFINE n == N_OUTPUT_BLOCKS
           first == out.block_idx
           block == oblock
<1>1. /\ oblock' = oblock /\ osem' = SetFree(osem, first) /\ out.pc = "release"
      /\ out' = [out EXCEPT !.pc = "top", !.block_idx = NextBlock(@, n)]
  BY DEF Out!Release, Out!At, Out!SetFree, SetFree, Out!NextBlock, NextBlock
<1>2. out'.pc # "release" /\ out'.block_idx = NextBlock(first, n)
  BY <1>1, OutIsTyped
<1>3. Back' = Back
  BY BackIs DEF InBlock, netVars
<1>4. /\ Front = FilledBlocks(osem, block, first, n, TRUE)
      /\ Front' = FilledBlocks(SetFree(osem, first), block, NextBlock(first, n), n, FALSE)
  BY <1>1, <1>2, FrontIs
<1>5. PICK len \in 0 .. n : OutRun(len)
  BY DEF PipeInv, BlocksFollow
<1>6. /\ Run(osem, first, len, n) /\ osem[first] = "filled"
      /\ n \in Nat \ {0} /\ first \in BlockIds(n) /\ osem \in Rings(n)
      /\ block \in [BlockIds(n) -> BlockValue]
  BY <1>1, <1>5, RingSizes, PipeIsTyped DEF OutRun, PipeInv, OutHolds, IsFilled
<1> HIDE DEF n, first, block
<1>7. Front' = Front
  BY <1>4, <1>6, FreeingKeeps
<1> QED
  BY <1>3, <1>7 DEF InFlight, Front, Back

LEMMA StepOfQueue == PipeInv /\ [PipeNext]_pipeVars => [Queue!QueueNext]_InFlight
<1> SUFFICES ASSUME PipeInv, [PipeNext]_pipeVars
             PROVE  Queue!Put \/ Queue!Take \/ InFlight' = InFlight
  BY DEF Queue!QueueNext
<1>1. [Next]_vars
  BY StepIsNetworkStep
<1>2. CASE NetOnly
  BY <1>1, <1>2, NetOnlyIsPut
<1>3. CASE UNCHANGED <<netVars, outVars>> /\ (Gpu!EnterLoop \/ Gpu!LeaveLoop
              \/ Gpu!WaitInput \/ Gpu!WaitOutput \/ Gpu!GpuWaitFails
              \/ Gpu!CopyHeader \/ Gpu!CopyData)
  BY <1>3, GpuCopyIsStutter
<1>4. CASE UNCHANGED <<netVars, outVars>> /\ Gpu!PassOn
  BY <1>4, PassOnIsStutter
<1>5. CASE UNCHANGED <<netVars, outVars>> /\ Gpu!GiveBack
  BY <1>5, GiveBackIsStutter
<1>6. CASE UNCHANGED <<sem, netVars, gpu>> /\ OutOnly
  BY <1>6, OutOnlyIsStutter
<1>7. CASE UNCHANGED <<sem, netVars, gpu>> /\ Out!ClearBlock
  BY <1>7, ClearBlockIsTake
<1>8. CASE UNCHANGED <<sem, netVars, gpu>> /\ Out!Release
  BY <1>8, ReleaseIsStutter
<1> QED
  BY <1>2, <1>3, <1>4, <1>5, <1>6, <1>7, <1>8, StepsOfThreads

LEMMA InitOfQueue == PipeInit => Queue!QueueInit
<1> SUFFICES ASSUME PipeInit PROVE InFlight = << >>
  BY DEF Queue!QueueInit
<1>1. PipeInv
  BY InitPipeInv
<1>2. /\ sem = DatabufCreate(N_INPUT_BLOCKS) /\ osem = DatabufCreate(N_OUTPUT_BLOCKS)
      /\ gpu = [pc |-> "top", curblock_in |-> 0, curblock_out |-> 0]
      /\ out = [pc |-> "top", block_idx |-> 0, run_always |-> 0, testmode |-> 1, idle |-> 0]
      /\ last_filled = -1
  BY DEF PipeInit, StreamInit, Init, Gpu!InitGpu, Out!InitOutput
<1>3. InRun(0) /\ OutRun(0) /\ 0 \in 0 .. N_INPUT_BLOCKS /\ 0 \in 0 .. N_OUTPUT_BLOCKS
  <2>1. /\ (0 + 0) % N_INPUT_BLOCKS = 0 /\ (-1 + 1) % N_INPUT_BLOCKS = 0
        /\ (0 + 0) % N_OUTPUT_BLOCKS = 0
        /\ 0 \in 0 .. N_INPUT_BLOCKS /\ 0 \in 0 .. N_OUTPUT_BLOCKS
    BY RingSizes, SMT
  <2> QED
    BY <1>2, <2>1, RingSizes, EmptyRun DEF InRun, OutRun
<1>4. Back \in Seq(BlockValue) /\ Len(Back) <= 0 /\ Front \in Seq(BlockValue) /\ Len(Front) <= 0
  BY <1>1, <1>3, QueueIsTyped
<1>5. Back = << >> /\ Front = << >>
  <2>1. Len(Back) = 0 /\ Len(Front) = 0
    BY <1>4, LenProperties, SMT
  <2> QED
    BY <1>4, <2>1, EmptySeq
<1>6. Front \o Back = << >>
  BY <1>5, SMT
<1> QED
  BY <1>6 DEF InFlight, Front, Back

(***************************************************************************)
(* The two rings with the thread between them are a bounded queue: every   *)
(* block comes out as it went in, in order, once, or stays inside when a   *)
(* thread ends; and no more blocks go in than the rings have room for      *)
(* beside the one the network thread keeps.                                *)
(***************************************************************************)
THEOREM PipelineIsAQueue == PipeSpec => ImplementsQueue
<1> QED
  BY InitOfQueue, PipeInvariance, StepOfQueue, PTL
     DEF PipeSpec, ImplementsQueue, Queue!QueueSafety
-----------------------------------------------------------------------------
(***************************************************************************)
(* What comes out of the queue, and so what is in the file.                *)
(***************************************************************************)

\* The first counter of the block that the network thread fills next.
Upcoming == IF pc = "status" THEN binfo.mcnt_start + Nm ELSE binfo.mcnt_start

\* The stream is never so far behind the window that its packets would be
\* taken for those of a restarted counter.
NearStream ==
    /\ binfo.mcnt_start - at <= Far
    /\ pc = "status" => binfo.mcnt_start + Nm <= at

\* What has been stored in an input block since it got its header is part of
\* that block; all else in its data is left over from before.  A block that is
\* still to be acquired has nothing of the window in it.
Limit == IF pc = "acquire" THEN binfo.mcnt_start + Nm ELSE binfo.mcnt_start + 2 * Nm

DataIsPast ==
    /\ pc = "start" => \A b \in InBlocks : data[b] = {}
    /\ \A b \in InBlocks : \A x \in data[b] :
          /\ x < Limit
          /\ x \in stored[b] \/ x < hdr[b].mcnt

\* What a block holds is its own, or left over from an earlier block of its slot.
LeftOver(x, first) == x < first /\ block_for_mcnt(x) = block_for_mcnt(first)

OfItsBlock(e) ==
    /\ e.header.mcnt % Nm = 0
    /\ \A x \in e.data : x \in BlockMcnts(e.header.mcnt) \/ LeftOver(x, e.header.mcnt)

\* The blocks in the queue are successive parts of the stream, ...
InOrder ==
    \A i \in 1 .. Len(InFlight) :
        /\ OfItsBlock(InFlight[i])
        /\ InFlight[i].header.mcnt + Nm <= Upcoming
        /\ \A j \in 1 .. Len(InFlight) :
               i < j => InFlight[i].header.mcnt + Nm <= InFlight[j].header.mcnt

\* ... and later ones than what is in the file, but for the block that is just
\* written and not yet out of the queue.
FileIsBehind ==
    \A m \in file :
        /\ m \in Nat /\ m < Upcoming
        /\ \A i \in 1 .. Len(InFlight) :
               i > 1 \/ out.pc # "clear" => m < InFlight[i].header.mcnt

LEMMA UpcomingIs ==
    ASSUME PipeInv
    PROVE  /\ at \in Nat /\ binfo.mcnt_start \in Nat /\ Upcoming \in Nat
           /\ Far \in Nat /\ Far < LATE_PKT_MCNT_THRESHOLD
<1>1. from \in Nat /\ Length \in Nat /\ at \in from .. from + Length
  BY StreamAssumption DEF PipeInv, PipeTypes
<1>2. at \in Nat
  BY <1>1, SMT
<1>3. binfo.mcnt_start \in Nat /\ binfo.mcnt_start + Nm \in Nat
  BY WindowSlots DEF PipeInv, IInv
<1>4. Far \in Nat /\ Far < LATE_PKT_MCNT_THRESHOLD
  BY HalfIs, Constants, SMT
<1> QED
  BY <1>2, <1>3, <1>4 DEF Upcoming

\* The packet at hand is the next one of the stream.
LEMMA PacketIsNext ==
    ASSUME PipeInv
    PROVE  NextPacket \in Packet /\ NextPacket.mcnt = at /\ Dist(NextPacket) = at - binfo.mcnt_start
  BY UpcomingIs, PktsockConstants, StreamAssumption DEF NextPacket, Packet, Dist

\* A packet out of sequence is ahead of the window: packets were lost.
LEMMA OutOfSeqIsAhead ==
    ASSUME PipeInv, NearStream, IsOutOfSeq(at - binfo.mcnt_start)
    PROVE  binfo.mcnt_start + 2 * Nm <= at
<1> DEFINE base == binfo.mcnt_start
           late == LATE_PKT_MCNT_THRESHOLD
<1>1. ~(0 <= at - base /\ at - base < 2 * Nm) /\ ~(at - base < 0 /\ at - base > -late)
  BY DEF IsOutOfSeq, InWindow, IsLate
<1>2. base - at <= Far /\ Far < late /\ Far \in Nat /\ late \in Nat
  BY UpcomingIs, HalfIs DEF NearStream
<1>3. at \in Nat /\ base \in Nat /\ Nm \in Nat
  BY UpcomingIs, Constants
<1> HIDE DEF base, late
<1>4. base + 2 * Nm <= at
  BY <1>1, <1>2, <1>3, SMT
<1> QED
  BY <1>4 DEF base

\* A resynchronisation moves the window forward.
LEMMA ResyncGoesOn ==
    ASSUME PipeInv, NearStream, Resync(NextPacket)
    PROVE  /\ binfo'.mcnt_start \in Nat /\ binfo.mcnt_start < binfo'.mcnt_start
           /\ binfo.mcnt_start + 2 * Nm <= binfo'.mcnt_start
           /\ binfo'.mcnt_start - at <= Far
<1>1. IsOutOfSeq(at - binfo.mcnt_start)
  BY PacketIsNext DEF Resync
<1>2. binfo.mcnt_start + 2 * Nm <= at
  BY <1>1, OutOfSeqIsAhead
<1>3. binfo'.mcnt_start = ResetMcnt(at, binfo.block_i)
  BY PacketIsNext DEF Resync
<1>4. /\ binfo'.mcnt_start \in Nat /\ binfo'.mcnt_start % Nm = 0
      /\ binfo'.mcnt_start - at \in 1 - Nm .. Far
  BY <1>3, PacketIsNext, ResyncSlots DEF PipeInv, Far
<1>5. /\ at \in Nat /\ binfo.mcnt_start \in Nat /\ Nm \in Nat /\ Nm > 0 /\ Far \in Nat
  BY UpcomingIs, Constants, SMT
<1>6. binfo.mcnt_start + Nm < binfo'.mcnt_start
  BY <1>2, <1>4, <1>5, SMT
<1>7. binfo.mcnt_start + 2 * Nm <= binfo'.mcnt_start
  <2> SUFFICES ASSUME ~(binfo.mcnt_start + 2 * Nm <= binfo'.mcnt_start) PROVE FALSE
    OBVIOUS
  <2>1. /\ binfo.mcnt_start + Nm \in Nat /\ (binfo.mcnt_start + Nm) % Nm = 0
    BY WindowSlots DEF PipeInv, IInv
  <2>2. /\ binfo.mcnt_start + Nm <= binfo'.mcnt_start
        /\ binfo'.mcnt_start < (binfo.mcnt_start + Nm) + Nm
        /\ binfo'.mcnt_start <= binfo'.mcnt_start /\ binfo'.mcnt_start < binfo'.mcnt_start + Nm
    BY <1>4, <1>5, <1>6, SMT
  <2>3. RoundDown(binfo'.mcnt_start) = binfo.mcnt_start + Nm
    BY <1>4, <2>1, <2>2, SameBlock
  <2>4. RoundDown(binfo'.mcnt_start) = binfo'.mcnt_start
    BY <1>4, <2>2, SameBlock
  <2> QED
    BY <1>4, <1>5, <1>6, <2>3, <2>4, SMT
<1> QED
  BY <1>4, <1>5, <1>6, <1>7, SMT

\* What the network thread and the stream do to the window.
LEMMA WindowGoesOn ==
    ASSUME PipeInv, NearStream, NetOnly
    PROVE  /\ NearStream'
           /\ Upcoming <= Upcoming'
           /\ Fills => /\ binfo' = binfo /\ Upcoming = binfo.mcnt_start
                       /\ Upcoming' = Upcoming + Nm
                       /\ hdr'[CurBlock].mcnt = binfo.mcnt_start
                       /\ data' = data
<1> DEFINE base == binfo.mcnt_start
<1>0. /\ at \in Nat /\ base \in Nat /\ Nm \in Nat /\ Far \in Nat
      /\ base - at <= Far
      /\ (pc = "status" => base + Nm <= at)
  BY UpcomingIs, Constants DEF NearStream
<1>1. ASSUME Receive(NextPacket), MarkFilled(NextPacket), at' = at + 1
      PROVE  /\ NearStream' /\ Upcoming <= Upcoming'
             /\ binfo' = binfo /\ Upcoming = base /\ Upcoming' = Upcoming + Nm
             /\ hdr'[CurBlock].mcnt = base /\ data' = data
  <2>1. pc = "recv" /\ pc' = "status" /\ binfo' = binfo /\ data' = data
        /\ hdr' = [hdr EXCEPT ![CurBlock].time = base]
    BY <1>1 DEF Receive, MarkFilled, StampBlock
  <2>2. Completes(at - base)
    BY <1>1, PacketIsNext DEF MarkFilled
  <2>3. base + Nm <= at
    BY <1>0, <2>2, CompletesInNext, SMT
  <2>4. hdr'[CurBlock].mcnt = base
    <3>1. hdr \in [InBlocks -> Header] /\ CurBlock \in InBlocks
      BY WindowSlots DEF PipeInv, IInv, TypeOK
    <3>2. hdr[CurBlock].mcnt = base
      BY <2>1 DEF PipeInv, IInv, OwnsWindow, Holds
    <3> QED
      BY <2>1, <3>1, <3>2 DEF Header
  <2>5. Upcoming = base /\ Upcoming' = base + Nm
    BY <2>1 DEF Upcoming
  <2>6. NearStream'
    BY <1>0, <1>1, <2>1, <2>3, SMT DEF NearStream
  <2> QED
    BY <1>0, <2>1, <2>4, <2>5, <2>6, SMT
<1>2. ASSUME Receive(NextPacket), ~MarkFilled(NextPacket), at' = at + 1
      PROVE  NearStream' /\ Upcoming <= Upcoming' /\ ~Fills
  <2>1. pc = "recv" /\ pc' \in {"recv", "exited"}
    BY <1>2 DEF Receive, StorePacket, SetFilledFails, IgnoreLate, CountOutOfSeq, Resync, vars
  <2>2. /\ binfo'.mcnt_start \in Nat /\ base <= binfo'.mcnt_start
        /\ binfo'.mcnt_start - at <= Far
    <3>1. CASE Resync(NextPacket)
      <4>1. /\ binfo'.mcnt_start \in Nat /\ base < binfo'.mcnt_start
            /\ binfo'.mcnt_start - at <= Far
        BY <3>1, ResyncGoesOn
      <4> QED
        BY <1>0, <4>1, SMT
    <3>2. CASE StorePacket(NextPacket)
      <4>1. binfo \in BlockInfo
        BY DEF PipeInv, IInv, TypeOK, BlockInfo
      <4>2. binfo'.mcnt_start = base
        BY <3>2, <4>1, PacketIsNext, CountPacketIs DEF StorePacket
      <4> QED
        BY <1>0, <4>2, SMT
    <3>3. CASE SetFilledFails(NextPacket) \/ IgnoreLate(NextPacket) \/ CountOutOfSeq(NextPacket)
      <4>1. binfo'.mcnt_start = base
        BY <3>3 DEF SetFilledFails, IgnoreLate, CountOutOfSeq, vars, PipeInv, IInv, TypeOK
      <4> QED
        BY <1>0, <4>1, SMT
    <3> QED
      BY <1>2, <3>1, <3>2, <3>3 DEF Receive
  <2>3. Upcoming = base /\ Upcoming' = binfo'.mcnt_start
    BY <2>1 DEF Upcoming
  <2>4. NearStream'
    BY <1>0, <1>2, <2>1, <2>2, SMT DEF NearStream
  <2> QED
    BY <2>1, <2>2, <2>3, <2>4 DEF Fills
<1>3. ASSUME UpdateStatus, at' = at
      PROVE  NearStream' /\ Upcoming <= Upcoming' /\ ~Fills
  <2>1. pc = "status" /\ pc' = "acquire" /\ binfo'.mcnt_start = base + Nm
    BY <1>3 DEF UpdateStatus, Advance, PipeInv, IInv, TypeOK
  <2> QED
    BY <1>0, <1>3, <2>1, SMT DEF NearStream, Upcoming, Fills
<1>4. ASSUME Start \/ AcquireNext \/ Return \/ WaitFails, at' = at
      PROVE  NearStream' /\ Upcoming <= Upcoming' /\ ~Fills
  <2>1. pc # "status" /\ pc' # "status" /\ binfo'.mcnt_start = base
    <3>1. CASE AcquireNext
      BY <3>1, AcquireNextInfo DEF AcquireNext, PipeInv
    <3> QED
      BY <1>4, <3>1 DEF Start, Return, WaitFails
  <2> QED
    BY <1>0, <1>4, <2>1, SMT DEF NearStream, Upcoming, Fills
<1>5. ASSUME UNCHANGED vars, at' = at \/ at' = at + 1
      PROVE  NearStream' /\ Upcoming <= Upcoming' /\ ~Fills
  BY <1>0, <1>5, SMT DEF NearStream, Upcoming, Fills, vars
<1> QED
  BY <1>1, <1>2, <1>3, <1>4, <1>5
     DEF NetOnly, NetDeliver, Deliver, NetStep, LosePacket, pipeVars, netVars, ringVars, vars

\* The same data under headers of the same blocks.
LEMMA DataStaysPast ==
    ASSUME DataIsPast, data' = data, stored' = stored,
           \A b \in InBlocks : hdr'[b].mcnt = hdr[b].mcnt,
           pc' = "start" => pc = "start",
           \A b \in InBlocks : \A x \in data[b] : x < Limit => x < Limit'
    PROVE  DataIsPast'
  BY DEF DataIsPast

\* A packet of the window is copied.
LEMMA CopyIsPast ==
    ASSUME NEW d \in [InBlocks -> SUBSET Nat], NEW s \in [InBlocks -> SUBSET Nat],
           NEW p \in Packet, NEW h, NEW limit, p.mcnt < limit,
           \A b \in InBlocks : \A x \in d[b] : x < limit /\ (x \in s[b] \/ x < h[b].mcnt),
           NEW b \in InBlocks, NEW x \in CopyPayload(d, p)[b]
    PROVE  x < limit /\ (x \in NoteStored(s, p)[b] \/ x < h[b].mcnt)
<1>1. s[b] \subseteq NoteStored(s, p)[b]
  BY SlotIsBlock DEF NoteStored, Packet
<1>2. x \in d[b] \/ (x = p.mcnt /\ ~BadSid(p) /\ b = block_for_mcnt(p.mcnt))
  BY CopyPayloadIs
<1>3. CASE x \in d[b]
  BY <1>1, <1>3
<1>4. CASE x = p.mcnt /\ ~BadSid(p) /\ b = block_for_mcnt(p.mcnt)
  <2>1. NoteStored(s, p)[block_for_mcnt(p.mcnt)] = s[block_for_mcnt(p.mcnt)] \cup {p.mcnt}
    BY <1>4, NoteStoredIs
  <2> QED
    BY <1>4, <2>1
<1> QED
  BY <1>2, <1>3, <1>4

\* In an in-order stream, left-overs are always earlier than the header above
\* them: the window moves forward only, and a new header is past all it held.
LEMMA StepDataIsPast ==
    ASSUME PipeInv, NearStream, DataIsPast, NetOnly
    PROVE  DataIsPast'
<1> DEFINE base == binfo.mcnt_start
           p == NextPacket
<1>0. /\ at \in Nat /\ base \in Nat /\ Nm \in Nat /\ Nm > 0
      /\ hdr \in [InBlocks -> Header] /\ binfo \in BlockInfo
      /\ data \in [InBlocks -> SUBSET Nat] /\ stored \in [InBlocks -> SUBSET Nat]
      /\ p \in Packet /\ p.mcnt = at /\ Dist(p) = at - base
  BY UpcomingIs, PacketIsNext, Constants, SMT DEF PipeInv, IInv, TypeOK, BlockInfo
<1>1. /\ CurBlock \in InBlocks /\ Ahead \in InBlocks /\ Ahead # CurBlock
  BY WindowSlots DEF PipeInv, IInv
<1>2. \A b \in InBlocks : \A x \in data[b] :
         x \in Nat /\ x < Limit /\ (x \in stored[b] \/ x < hdr[b].mcnt)
  BY <1>0 DEF DataIsPast
<1> HIDE DEF p, base
<1>3. ASSUME Receive(p), StorePacket(p) PROVE DataIsPast'
  <2>1. /\ pc = "recv" /\ pc' = "recv" /\ data' = CopyPayload(data, p)
        /\ stored' = NoteStored(stored, p) /\ InWindow(at - base)
    BY <1>0, <1>3 DEF Receive, StorePacket
  <2>2. binfo'.mcnt_start = base
    BY <1>0, <1>3, CountPacketIs DEF StorePacket, base
  <2>3. Limit = base + 2 * Nm /\ Limit' = base + 2 * Nm
    BY <2>1, <2>2 DEF Limit, base
  <2>4. p.mcnt < Limit
    BY <1>0, <2>1, <2>3, SMT DEF InWindow
  <2>5. \A b \in InBlocks : hdr'[b].mcnt = hdr[b].mcnt
    BY <1>0, <1>3, DecrementMissedIs DEF StorePacket
  <2>6. ASSUME NEW b \in InBlocks, NEW x \in data'[b]
        PROVE  x < Limit /\ (x \in stored'[b] \/ x < hdr[b].mcnt)
    <3>1. \A c \in InBlocks : \A y \in data[c] :
             y < Limit /\ (y \in stored[c] \/ y < hdr[c].mcnt)
      BY <1>2
    <3>2. x \in CopyPayload(data, p)[b]
      BY <2>1, <2>6
    <3>3. x < Limit /\ (x \in NoteStored(stored, p)[b] \/ x < hdr[b].mcnt)
      BY <1>0, <2>4, <3>1, <3>2, CopyIsPast
    <3> QED
      BY <2>1, <3>3
  <2> QED
    BY <2>1, <2>3, <2>5, <2>6 DEF DataIsPast
<1>4. ASSUME Receive(p), MarkFilled(p) \/ SetFilledFails(p) PROVE DataIsPast'
  <2>1. /\ pc = "recv" /\ pc' \in {"status", "exited"} /\ UNCHANGED <<data, stored, binfo>>
        /\ hdr' = [hdr EXCEPT ![CurBlock].time = binfo.mcnt_start]
    BY <1>4 DEF Receive, MarkFilled, SetFilledFails, StampBlock
  <2>2. Limit' = Limit
    BY <2>1 DEF Limit
  <2>3. \A b \in InBlocks : hdr'[b].mcnt = hdr[b].mcnt
    BY <1>0, <1>1, <2>1 DEF Header
  <2> QED
    BY <2>1, <2>2, <2>3, DataStaysPast
<1>5. ASSUME Receive(p), IgnoreLate(p) \/ CountOutOfSeq(p) PROVE DataIsPast'
  <2>1. UNCHANGED <<pc, data, stored, hdr>> /\ binfo'.mcnt_start = base
    BY <1>0, <1>5 DEF IgnoreLate, CountOutOfSeq, vars, BlockInfo, base
  <2>2. Limit' = Limit
    BY <2>1 DEF Limit, base
  <2> QED
    BY <2>1, <2>2, DataStaysPast
<1>6. ASSUME Receive(p), Resync(p) PROVE DataIsPast'
  <2> DEFINE start == ResetMcnt(p.mcnt, binfo.block_i)
  <2>1. /\ pc = "recv" /\ pc' = "recv" /\ data' = data /\ binfo'.mcnt_start = start
        /\ hdr' = InitializeBlock(InitializeBlock(hdr, start, p.sid), start + Nm, p.sid)
        /\ stored' = NoneStored(NoneStored(stored, start), start + Nm)
    BY <1>6 DEF Receive, Resync
  <2>2. start \in Nat /\ base + 2 * Nm <= start
    BY <1>6, <2>1, ResyncGoesOn DEF p, base
  <2>3. /\ start % Nm = 0
        /\ block_for_mcnt(start) = CurBlock /\ block_for_mcnt(start + Nm) = Ahead
    BY <1>0, ResyncSlots DEF PipeInv
  <2>4. p.sid \in Nat
    BY <1>0 DEF Packet
  <2> HIDE DEF start
  <2>5. /\ hdr'[CurBlock].mcnt = start /\ hdr'[Ahead].mcnt = start + Nm
        /\ \A c \in InBlocks \ {CurBlock, Ahead} : hdr'[c] = hdr[c] /\ stored'[c] = stored[c]
    BY <1>0, <2>1, <2>2, <2>3, <2>4, InitializeTwoBlocks
  <2>6. Limit = base + 2 * Nm /\ Limit' = start + 2 * Nm
    BY <2>1 DEF Limit, base
  <2>7. ASSUME NEW b \in InBlocks, NEW x \in data[b]
        PROVE  /\ x < start /\ x < start + Nm /\ x < Limit'
    <3>1. x \in Nat /\ x < Limit
      BY <1>2
    <3> QED
      BY <1>0, <2>2, <2>6, <3>1, SMT
  <2>8. ASSUME NEW b \in InBlocks, NEW x \in data'[b]
        PROVE  x < Limit' /\ (x \in stored'[b] \/ x < hdr'[b].mcnt)
    <3>1. x \in data[b]
      BY <2>1, <2>8
    <3>2. CASE b \in {CurBlock, Ahead}
      BY <2>5, <2>7, <3>1, <3>2
    <3>3. CASE b \notin {CurBlock, Ahead}
      BY <1>2, <2>5, <2>7, <3>1, <3>3
    <3> QED
      BY <3>2, <3>3
  <2> QED
    BY <2>1, <2>8 DEF DataIsPast
<1>7. ASSUME UpdateStatus PROVE DataIsPast'
  <2>1. /\ pc = "status" /\ pc' = "acquire" /\ UNCHANGED <<hdr, data, stored>>
        /\ binfo'.mcnt_start = base + Nm
    BY <1>7 DEF UpdateStatus, Advance, PipeInv, IInv, TypeOK, base
  <2>2. Limit' = (base + Nm) + Nm /\ Limit = base + 2 * Nm
    BY <2>1 DEF Limit, base
  <2>3. Limit' = Limit
    BY <1>0, <2>2, SMT
  <2> QED
    BY <2>1, <2>3, DataStaysPast
<1>8. ASSUME AcquireNext PROVE DataIsPast'
  <2> DEFINE h == InitializeBlock(hdr, pkt.mcnt + Nm, pkt.sid)
             s == NoneStored(stored, pkt.mcnt + Nm)
  <2>1. /\ pc = "acquire" /\ pc' = "return" /\ data' = CopyPayload(data, pkt)
        /\ stored' = NoteStored(s, pkt) /\ hdr' = DecrementMissed(h, pkt)
    BY <1>8 DEF AcquireNext
  <2>2. /\ pkt.mcnt \in Nat /\ pkt.sid \in Nat /\ pkt.mcnt + Nm \in Nat
        /\ block_for_mcnt(pkt.mcnt) = CurBlock /\ block_for_mcnt(pkt.mcnt + Nm) = Ahead
        /\ RoundDown(pkt.mcnt + Nm) = base + Nm
    BY <2>1, AcquireNextSlots DEF PipeInv, base
  <2>3. pkt \in Packet /\ pkt.mcnt \in BlockMcnts(base)
    BY <2>1, <2>2 DEF Packet, PipeInv, IInv, TypeOK, PacketInNextBlock, base
  <2>4. /\ h \in [InBlocks -> Header] /\ h[Ahead].mcnt = base + Nm
        /\ \A c \in InBlocks : c # Ahead => h[c] = hdr[c]
    BY <1>0, <2>2, InitializeBlockIs
  <2>5. /\ s \in [InBlocks -> SUBSET Nat]
        /\ \A c \in InBlocks : c # Ahead => s[c] = stored[c]
    BY <1>0, <2>2, NoneStoredIs
  <2> HIDE DEF h, s
  <2>6. \A b \in InBlocks : hdr'[b].mcnt = h[b].mcnt
    BY <2>1, <2>3, <2>4, DecrementMissedIs
  <2>7. binfo'.mcnt_start = base
    BY <1>8, AcquireNextInfo DEF PipeInv, base
  <2>8. Limit = base + Nm /\ Limit' = base + 2 * Nm
    BY <2>1, <2>7 DEF Limit, base
  <2>9. pkt.mcnt < Limit'
    BY <1>0, <2>2, <2>3, <2>8, SMT DEF BlockMcnts
  <2>10. ASSUME NEW b \in InBlocks, NEW x \in data[b]
         PROVE  x < Limit' /\ (x \in s[b] \/ x < h[b].mcnt)
    <3>1. x \in Nat /\ x < base + Nm /\ (x \in stored[b] \/ x < hdr[b].mcnt)
      BY <1>2, <2>8
    <3>2. x < Limit'
      BY <1>0, <2>8, <3>1, SMT
    <3>3. CASE b = Ahead
      BY <2>4, <3>1, <3>2, <3>3
    <3>4. CASE b # Ahead
      BY <2>4, <2>5, <3>1, <3>2, <3>4
    <3> QED
      BY <3>3, <3>4
  <2>11. ASSUME NEW b \in InBlocks, NEW x \in data'[b]
         PROVE  x < Limit' /\ (x \in stored'[b] \/ x < h[b].mcnt)
    BY <1>0, <2>1, <2>3, <2>5, <2>9, <2>10, <2>11, CopyIsPast
  <2> QED
    BY <2>1, <2>6, <2>11 DEF DataIsPast
<1>9. ASSUME Start PROVE DataIsPast'
  <2>1. pc = "start" /\ pc' = "recv" /\ data' = data
    BY <1>9 DEF Start
  <2> QED
    BY <2>1 DEF DataIsPast
<1>10. ASSUME Return \/ WaitFails PROVE DataIsPast'
  <2>1. /\ UNCHANGED <<hdr, data, stored, binfo>> /\ pc' \in {"recv", "exited"}
    BY <1>10 DEF Return, WaitFails
  <2>2. Limit' = base + 2 * Nm /\ (Limit = base + 2 * Nm \/ Limit = base + Nm)
    BY <2>1 DEF Limit, base
  <2>3. \A b \in InBlocks : \A x \in data[b] : x < Limit => x < Limit'
    <3>1. \A x \in Nat : x < Limit => x < Limit'
      BY <1>0, <2>2, SMT
    <3> QED
      BY <1>2, <3>1
  <2> QED
    BY <2>1, <2>3, DataStaysPast
<1>11. ASSUME UNCHANGED vars PROVE DataIsPast'
  BY <1>11 DEF vars, DataIsPast, Limit
<1> QED
  BY <1>3, <1>4, <1>5, <1>6, <1>7, <1>8, <1>9, <1>10, <1>11
     DEF NetOnly, NetDeliver, Deliver, NetStep, LosePacket, Receive, pipeVars, netVars, ringVars,
         vars, p

\* Steps of the other two threads, by what they do to the queue and the file:
\* they touch neither, ...
QueueRests ==
    /\ InFlight' = InFlight /\ file' = file
    /\ out'.pc = "clear" <=> out.pc = "clear"

\* ... write the first block, if the modes say so, ...
FirstIsWritten ==
    /\ InFlight' = InFlight /\ InFlight # << >>
    /\ file' = file \/ file' = InFlight[1].data
    /\ out.pc = "write" /\ out'.pc = "clear"

\* ... or take it out.
FirstIsTaken ==
    /\ InFlight # << >> /\ InFlight' = Tail(InFlight) /\ file' = file
    /\ out.pc = "clear" /\ out'.pc # "clear"

LEMMA InFlightIsTyped == ASSUME PipeInv PROVE InFlight \in Seq(BlockValue)
<1>1. PICK len \in 0 .. N_INPUT_BLOCKS : InRun(len)
  BY DEF PipeInv, BlocksFollow
<1>2. PICK olen \in 0 .. N_OUTPUT_BLOCKS : OutRun(olen)
  BY DEF PipeInv, BlocksFollow
<1>3. Back \in Seq(BlockValue) /\ Front \in Seq(BlockValue)
  BY <1>1, <1>2, QueueIsTyped
<1> QED
  BY <1>3, ConcatProperties DEF InFlight, Front, Back

\* The block the output thread writes is the first of the queue.
LEMMA WrittenIsFirst ==
    ASSUME PipeInv, out.pc = "write"
    PROVE  InFlight # << >> /\ InFlight[1] = oblock[out.block_idx]
<1> DEFINE n == N_OUTPUT_BLOCKS
           first == out.block_idx
           block == oblock
<1>1. Front = FilledBlocks(osem, block, first, n, FALSE)
  BY FrontIs
<1>2. n \in Nat \ {0} /\ first \in BlockIds(n) /\ block \in [BlockIds(n) -> BlockValue]
  BY RingSizes, PipeIsTyped
<1>3. PICK len \in 0 .. n : OutRun(len)
  BY DEF PipeInv, BlocksFollow
<1>4. Run(osem, first, len, n) /\ 0 < len
  <2>1. Run(osem, first, len, n) /\ osem[first] = "filled"
    BY <1>3 DEF OutRun, PipeInv, OutHolds, IsFilled
  <2> QED
    BY <1>2, <2>1, FirstOfRun
<1>5. PICK ilen \in 0 .. N_INPUT_BLOCKS : InRun(ilen)
  BY DEF PipeInv, BlocksFollow
<1>6. Back \in Seq(BlockValue)
  BY <1>5, QueueIsTyped
<1> HIDE DEF n, first, block
<1>7. Takes(FilledBlocks(osem, block, first, n, TRUE),
            FilledBlocks(osem, block, first, n, FALSE), block[first], BlockValue)
  BY <1>2, <1>4, PassingOnTakes, ZenonT(60)
<1>8. Front \in Seq(BlockValue) /\ Front # << >> /\ Head(Front) = block[first]
  BY <1>1, <1>7, Zenon DEF Takes
<1>9. Front \o Back # << >> /\ Head(Front \o Back) = block[first]
  BY <1>6, <1>8, TakeFromFront
<1>10. InFlight = Front \o Back
  BY DEF InFlight, Front, Back
<1>11. \A q \in Seq(BlockValue) : q # << >> => Head(q) = q[1]
  BY SMT
<1> QED
  BY <1>9, <1>10, <1>11, InFlightIsTyped DEF block, first

LEMMA WhatMoves ==
    ASSUME PipeInv, [PipeNext]_pipeVars
    PROVE  \/ NetOnly /\ UNCHANGED <<out, file>>
           \/ UNCHANGED netVars /\ (QueueRests \/ FirstIsWritten \/ FirstIsTaken)
<1>1. CASE NetOnly
  BY <1>1, NetOnlyIs DEF outVars
<1>2. CASE UNCHANGED <<netVars, outVars>> /\ (Gpu!EnterLoop \/ Gpu!LeaveLoop
              \/ Gpu!WaitInput \/ Gpu!WaitOutput \/ Gpu!GpuWaitFails
              \/ Gpu!CopyHeader \/ Gpu!CopyData \/ Gpu!PassOn \/ Gpu!GiveBack)
  BY <1>2, GpuCopyIsStutter, PassOnIsStutter, GiveBackIsStutter DEF QueueRests, outVars
<1>3. CASE UNCHANGED <<sem, netVars, gpu>> /\ OutOnly
  <2>1. InFlight' = InFlight
    BY <1>3, OutOnlyIsStutter
  <2>2. out \in [pc : OutLabels, block_idx : BlockIds(N_OUTPUT_BLOCKS),
                 run_always : 0 .. 1, testmode : 0 .. 1, idle : 0 .. 1]
    BY OutIsTyped
  <2>3. CASE Out!WriteBlock
    <3>1. /\ out.pc = "write" /\ out' = [out EXCEPT !.pc = "clear"]
          /\ file' = file \/ file' = oblock[out.block_idx].data
      BY <2>3 DEF Out!WriteBlock, Out!At, Out!GoTo
    <3> QED
      BY <1>3, <2>1, <2>2, <3>1, WrittenIsFirst DEF FirstIsWritten
  <2>4. CASE ~Out!WriteBlock
    <3>1. /\ file' = file
          /\ out.pc \in {"top", "wait", "modes", "dumpvolt", "idle", "write"}
          /\ \/ out' = [out EXCEPT !.pc = "wait", !.run_always = keys.RUNALWYS]
             \/ out' = [out EXCEPT !.pc = "exited"]
             \/ out' = [out EXCEPT !.pc = "modes"]
             \/ out' = [out EXCEPT !.pc = "dumpvolt", !.idle = keys.IDLE,
                                   !.testmode = keys.TESTMODE]
             \/ out' = [out EXCEPT !.pc = "idle"]
             \/ out' = [out EXCEPT !.pc = "write", !.idle = 0]
      BY <1>3, <2>4 DEF OutOnly, Out!ReadRunAlways, Out!LeaveLoop, Out!WaitFilled, Out!ReadModes,
             Out!PutDumpVolt, Out!PutIdle, Out!OutWaitFails, Out!WriteFails, Out!At, Out!GoTo
    <3>2. out.pc # "clear" /\ out'.pc # "clear"
      BY <2>2, <3>1
    <3> QED
      BY <1>3, <2>1, <3>1, <3>2 DEF QueueRests
  <2> QED
    BY <2>3, <2>4
<1>4. CASE UNCHANGED <<sem, netVars, gpu>> /\ Out!ClearBlock
  <2>1. InFlight # << >> /\ InFlight' = Tail(InFlight)
    BY <1>4, ClearBlockIsTake DEF Queue!Take
  <2>2. file' = file /\ out.pc = "clear" /\ out' = [out EXCEPT !.pc = "release"]
    BY <1>4 DEF Out!ClearBlock, Out!At, Out!GoTo
  <2> QED
    BY <1>4, <2>1, <2>2, OutIsTyped DEF FirstIsTaken
<1>5. CASE UNCHANGED <<sem, netVars, gpu>> /\ Out!Release
  <2>1. InFlight' = InFlight
    BY <1>5, ReleaseIsStutter
  <2>2. /\ file' = file /\ out.pc = "release"
        /\ out' = [out EXCEPT !.pc = "top", !.block_idx = Out!NextBlock(@, N_OUTPUT_BLOCKS)]
    BY <1>5 DEF Out!Release, Out!At
  <2> QED
    BY <1>5, <2>1, <2>2, OutIsTyped DEF QueueRests
<1> QED
  BY <1>1, <1>2, <1>3, <1>4, <1>5, StepsOfThreads

LEMMA InitOrder == PipeInit => NearStream /\ DataIsPast /\ InOrder /\ FileIsBehind
<1> SUFFICES ASSUME PipeInit PROVE NearStream /\ DataIsPast /\ InOrder /\ FileIsBehind
  OBVIOUS
<1>1. pc = "start" /\ binfo.mcnt_start = 0 /\ file = {}
  BY DEF PipeInit, StreamInit, Init, Out!InitOutput
<1>2. at \in Nat /\ Far \in Nat
  BY InitPipeInv, UpcomingIs
<1>3. NearStream
  BY <1>1, <1>2, SMT DEF NearStream
<1>4. InFlight = << >> /\ 1 .. Len(<< >>) = {}
  BY InitOfQueue, SMT DEF Queue!QueueInit
<1>5. DataIsPast
  BY DEF PipeInit, StreamInit, Init, DataIsPast
<1> QED
  BY <1>1, <1>3, <1>4, <1>5 DEF InOrder, FileIsBehind

LEMMA BlocksAreTyped ==
    ASSUME NEW q \in Seq(BlockValue)
    PROVE  \A i \in 1 .. Len(q) :
               /\ q[i] \in BlockValue
               /\ q[i].header.mcnt \in Nat /\ q[i].data \subseteq Nat
<1>1. \A e \in BlockValue : e.header.mcnt \in Nat /\ e.data \subseteq Nat
  BY DEF BlockValue, Header
<1>2. \A i \in 1 .. Len(q) : q[i] \in BlockValue
  BY ElementOfSeq
<1> QED
  BY <1>1, <1>2

\* A block goes into the queue: it is the next one of the stream.
LEMMA FillsInStream ==
    ASSUME PipeInv, NearStream, DataIsPast, InOrder, FileIsBehind, [PipeNext]_pipeVars,
           NetOnly, UNCHANGED <<out, file>>, Fills
    PROVE  InOrder' /\ FileIsBehind'
<1> DEFINE q  == InFlight
           q2 == InFlight'
           e  == (InBlock')[CurBlock]
           u  == Upcoming
<1>1. /\ binfo' = binfo /\ u = binfo.mcnt_start /\ Upcoming' = u + Nm
      /\ hdr'[CurBlock].mcnt = binfo.mcnt_start
      /\ data' = data
  BY WindowGoesOn
<1>2. q \in Seq(BlockValue) /\ e \in BlockValue /\ q2 = Append(q, e)
  BY StepIsNetworkStep, NetOnlyIsPut DEF Appends
<1>3. /\ q2 \in Seq(BlockValue) /\ Len(q2) = Len(q) + 1 /\ Len(q) \in Nat
      /\ \A i \in 1 .. Len(q) : q2[i] = q[i]
      /\ q2[Len(q) + 1] = e
  BY <1>2, AppendProperties, LenProperties
<1>4. e.header.mcnt = u /\ OfItsBlock(e)
  <2>1. /\ CurBlock \in InBlocks /\ binfo.mcnt_start % Nm = 0
        /\ stored[CurBlock] \subseteq BlockMcnts(hdr[CurBlock].mcnt)
        /\ hdr[CurBlock].mcnt = binfo.mcnt_start
    BY WindowSlots DEF PipeInv, IInv, StoredUnderHeader, OwnsWindow, Holds, Fills
  <2>2. e = [header |-> hdr'[CurBlock], data |-> data'[CurBlock]]
    BY <2>1 DEF InBlock
  <2>3. block_for_mcnt(binfo.mcnt_start) = CurBlock
    BY WindowSlots DEF PipeInv, IInv
  <2>4. \A x \in data[CurBlock] :
           /\ block_for_mcnt(x) = CurBlock
           /\ x \in BlockMcnts(binfo.mcnt_start) \/ x < binfo.mcnt_start
    BY <2>1 DEF PipeInv, IInv, OnePerPlace, DataIsPast
  <2> QED
    BY <1>1, <2>1, <2>2, <2>3, <2>4 DEF OfItsBlock, LeftOver
<1>5. u \in Nat /\ Nm \in Nat /\ \A i \in 1 .. Len(q) : q[i].header.mcnt \in Nat
  BY <1>2, UpcomingIs, BlocksAreTyped, Constants
<1>6. \A i \in 1 .. Len(q) :
         /\ OfItsBlock(q[i])
         /\ q[i].header.mcnt + Nm <= u
         /\ \A j \in 1 .. Len(q) : i < j => q[i].header.mcnt + Nm <= q[j].header.mcnt
  BY DEF InOrder
<1>7. \A m \in file : /\ m \in Nat /\ m < u
                      /\ \A i \in 1 .. Len(q) :
                             i > 1 \/ out.pc # "clear" => m < q[i].header.mcnt
  BY DEF FileIsBehind
<1> HIDE DEF q, q2, e, u
<1>8. \A i \in 1 .. Len(q2) : \/ i \in 1 .. Len(q) /\ q2[i] = q[i]
                              \/ i = Len(q) + 1 /\ q2[i] = e
  BY <1>3, SMT
<1>9. ASSUME NEW i \in 1 .. Len(q2)
      PROVE  /\ OfItsBlock(q2[i])
             /\ q2[i].header.mcnt + Nm <= u + Nm
             /\ \A j \in 1 .. Len(q2) : i < j => q2[i].header.mcnt + Nm <= q2[j].header.mcnt
  <2>1. CASE i \in 1 .. Len(q) /\ q2[i] = q[i]
    <3>1. q2[i].header.mcnt \in Nat /\ q2[i].header.mcnt + Nm <= u /\ OfItsBlock(q2[i])
      BY <1>5, <1>6, <2>1
    <3>2. ASSUME NEW j \in 1 .. Len(q2), i < j
          PROVE  q2[i].header.mcnt + Nm <= q2[j].header.mcnt
      BY <1>4, <1>6, <1>8, <2>1, <3>1, <3>2
    <3> QED
      BY <1>5, <3>1, <3>2, SMT
  <2>2. CASE i = Len(q) + 1 /\ q2[i] = e
    <3>1. \A j \in 1 .. Len(q2) : ~(i < j)
      BY <1>3, <2>2, SMT
    <3> QED
      BY <1>4, <1>5, <2>2, <3>1, SMT
  <2> QED
    BY <1>8, <2>1, <2>2
<1>10. ASSUME NEW m \in file
       PROVE  /\ m \in Nat /\ m < u + Nm
              /\ \A i \in 1 .. Len(q2) : i > 1 \/ out.pc # "clear" => m < q2[i].header.mcnt
  <2>1. m \in Nat /\ m < u /\ m < u + Nm
    BY <1>5, <1>7, SMT
  <2> QED
    BY <1>4, <1>7, <1>8, <2>1
<1> QED
  BY <1>1, <1>9, <1>10 DEF InOrder, FileIsBehind, u, q2

LEMMA StepOrder ==
    ASSUME PipeInv, PipeInv', NearStream, DataIsPast, InOrder, FileIsBehind,
           [PipeNext]_pipeVars
    PROVE  NearStream' /\ DataIsPast' /\ InOrder' /\ FileIsBehind'
<1> DEFINE q == InFlight
           u == Upcoming
<1>1. /\ q \in Seq(BlockValue) /\ Len(q) \in Nat
      /\ u \in Nat /\ Upcoming' \in Nat /\ Nm \in Nat
  <2>1. binfo'.mcnt_start \in Nat /\ Nm \in Nat
    BY Constants DEF PipeInv, IInv, TypeOK
  <2>2. Upcoming' \in Nat
    BY <2>1, SMT DEF Upcoming
  <2> QED
    BY <2>1, <2>2, InFlightIsTyped, LenProperties, UpcomingIs
<1>2. \A i \in 1 .. Len(q) : q[i].header.mcnt \in Nat
  BY <1>1, BlocksAreTyped
<1>3. \A i \in 1 .. Len(q) :
         /\ OfItsBlock(q[i])
         /\ q[i].header.mcnt + Nm <= u
         /\ \A j \in 1 .. Len(q) : i < j => q[i].header.mcnt + Nm <= q[j].header.mcnt
  BY DEF InOrder
<1>4. \A m \in file : /\ m \in Nat /\ m < u
                      /\ \A i \in 1 .. Len(q) :
                             i > 1 \/ out.pc # "clear" => m < q[i].header.mcnt
  BY DEF FileIsBehind
<1>5. UNCHANGED netVars => Upcoming' = u /\ NearStream' /\ DataIsPast'
  BY DEF netVars, Upcoming, NearStream, DataIsPast, Limit
<1>6. CASE NetOnly /\ UNCHANGED <<out, file>>
  <2>1. NearStream' /\ DataIsPast' /\ u <= Upcoming'
    BY <1>6, WindowGoesOn, StepDataIsPast
  <2>2. CASE Fills
    BY <1>6, <2>1, <2>2, FillsInStream
  <2>3. CASE ~Fills
    <3>1. InFlight' = q
      BY <1>6, <2>3, StepIsNetworkStep, NetOnlyIsPut
    <3> HIDE DEF q, u
    <3>2. \A i \in 1 .. Len(q) : q[i].header.mcnt + Nm <= Upcoming'
      BY <1>1, <1>2, <1>3, <2>1, SMT
    <3>3. \A m \in file : m < Upcoming'
      BY <1>1, <1>4, <2>1, SMT
    <3> QED
      BY <1>3, <1>4, <1>6, <2>1, <3>1, <3>2, <3>3 DEF InOrder, FileIsBehind
  <2> QED
    BY <2>2, <2>3
<1>7. CASE UNCHANGED netVars /\ QueueRests
  BY <1>3, <1>4, <1>5, <1>7 DEF QueueRests, InOrder, FileIsBehind
<1>8. CASE UNCHANGED netVars /\ FirstIsWritten
  <2>1. InFlight' = q /\ q # << >> /\ out.pc # "clear" /\ (file' = file \/ file' = q[1].data)
    BY <1>8 DEF FirstIsWritten
  <2>2. Upcoming' = u /\ NearStream' /\ DataIsPast'
    BY <1>5, <1>8
  <2>3. 1 \in 1 .. Len(q)
    BY <1>1, <2>1, EmptySeq, SMT
  <2>4. ASSUME NEW m \in q[1].data
        PROVE  /\ m \in Nat /\ m < u
               /\ \A i \in 1 .. Len(q) : i > 1 => m < q[i].header.mcnt
    <3>1. /\ m \in BlockMcnts(q[1].header.mcnt) \/ m < q[1].header.mcnt
          /\ m \in Nat /\ q[1].header.mcnt \in Nat
      BY <1>1, <1>2, <1>3, <2>3, <2>4, BlocksAreTyped DEF OfItsBlock, LeftOver
    <3>2. m \in Nat /\ m < q[1].header.mcnt + Nm
      BY <1>1, <3>1, Constants, SMT DEF BlockMcnts
    <3>3. q[1].header.mcnt + Nm <= u
      BY <1>3, <2>3
    <3>4. \A i \in 1 .. Len(q) : i > 1 => q[1].header.mcnt + Nm <= q[i].header.mcnt
      BY <1>3, <2>3, SMT
    <3> HIDE DEF q, u
    <3> QED
      BY <1>1, <1>2, <3>1, <3>2, <3>3, <3>4, SMT
  <2>5. \A m \in file' : /\ m \in Nat /\ m < u
                         /\ \A i \in 1 .. Len(q) : i > 1 => m < q[i].header.mcnt
    BY <1>4, <2>1, <2>4
  <2>6. out'.pc = "clear"
    BY <1>8 DEF FirstIsWritten
  <2> QED
    BY <1>3, <2>1, <2>2, <2>5, <2>6 DEF InOrder, FileIsBehind
<1>9. CASE UNCHANGED netVars /\ FirstIsTaken
  <2> DEFINE q2 == InFlight'
  <2>1. q # << >> /\ q2 = Tail(q) /\ file' = file
    BY <1>9 DEF FirstIsTaken
  <2>2. Upcoming' = u /\ NearStream' /\ DataIsPast'
    BY <1>5, <1>9
  <2>3. Len(q2) = Len(q) - 1 /\ \A i \in 1 .. Len(q2) : q2[i] = q[i + 1]
    BY <1>1, <2>1, HeadTailProperties
  <2> HIDE DEF q, q2, u
  <2>4. \A i \in 1 .. Len(q2) : /\ i + 1 \in 1 .. Len(q) /\ i + 1 > 1
                                /\ \A j \in 1 .. Len(q2) : i < j => i + 1 < j + 1
    BY <1>1, <2>3, SMT
  <2>5. ASSUME NEW i \in 1 .. Len(q2)
        PROVE  /\ OfItsBlock(q2[i])
               /\ q2[i].header.mcnt + Nm <= u
               /\ \A j \in 1 .. Len(q2) : i < j => q2[i].header.mcnt + Nm <= q2[j].header.mcnt
    BY <1>3, <2>3, <2>4
  <2>6. ASSUME NEW m \in file, NEW i \in 1 .. Len(q2)
        PROVE  m < q2[i].header.mcnt
    BY <1>4, <2>3, <2>4
  <2> QED
    BY <1>4, <2>1, <2>2, <2>5, <2>6 DEF InOrder, FileIsBehind, q2, u
<1> QED
  BY <1>6, <1>7, <1>8, <1>9, WhatMoves

\* The block that the output thread is at.
Written == oblock[out.block_idx].header.mcnt

(***************************************************************************)
(* A write never goes back in the stream: the block that is written is     *)
(* later than all that was in the file, and what it has of other blocks is *)
(* left over from earlier ones of its slot; wherever the stream starts,    *)
(* whatever the network loses, and whichever thread ends.                  *)
(***************************************************************************)
THEOREM FileNeverGoesBack == PipeSpec => [][file' # file => GoesOn(Written)]_pipeVars
<1>1. (PipeInv /\ InOrder /\ FileIsBehind) /\ [PipeNext]_pipeVars
          => [file' # file => GoesOn(Written)]_pipeVars
  <2> SUFFICES ASSUME PipeInv, InOrder, FileIsBehind, [PipeNext]_pipeVars, file' # file
               PROVE  GoesOn(Written)
    OBVIOUS
  <2>1. /\ InFlight # << >> /\ file' = InFlight[1].data /\ out.pc = "write"
    BY WhatMoves DEF QueueRests, FirstIsWritten, FirstIsTaken
  <2>2. InFlight \in Seq(BlockValue) /\ 1 \in 1 .. Len(InFlight)
    BY <2>1, InFlightIsTyped, EmptySeq, SMT
  <2>3. InFlight[1].header.mcnt = Written
    BY <2>1, WrittenIsFirst DEF Written
  <2>4. \A n \in file' : n \in BlockMcnts(Written) \/ LeftOver(n, Written)
    BY <2>1, <2>2, <2>3 DEF InOrder, OfItsBlock
  <2>5. \A m \in file : m < Written
    BY <2>1, <2>2, <2>3 DEF FileIsBehind
  <2> QED
    BY <2>4, <2>5 DEF GoesOn, LeftOver
<1>2. PipeInv /\ PipeInv' /\ NearStream /\ DataIsPast /\ InOrder /\ FileIsBehind
              /\ [PipeNext]_pipeVars
          => NearStream' /\ DataIsPast' /\ InOrder' /\ FileIsBehind'
  BY StepOrder
<1> QED
  BY <1>1, <1>2, InitOrder, PipeInvariance, PTL DEF PipeSpec
-----------------------------------------------------------------------------
(***************************************************************************)
(* When no block is lost as a whole.                                       *)
(***************************************************************************)

\* Fewer packets are lost than complete a block: its last Nm or so counters.
FewLost == MaxLost < 2 * Nm - Half

\* Something has been stored, or a block filled.
Begun == last_filled # -1 \/ \E b \in InBlocks : data[b] # {}

\* From the first packet on, the stream does not leave the window: a block is
\* completed before as many packets are lost as would take it out.
InSync ==
    /\ lost \in 0 .. MaxLost
    /\ Begun /\ pc # "exited" => at - Upcoming <= Half + lost

\* The packet that completed a block is in the next one; before the first one
\* is completed, nothing is left over.
HasPacket ==
    /\ pc = "start" => last_filled = -1 /\ \A b \in InBlocks : data[b] = {}
    /\ pc \in {"status", "acquire"} => pkt.sid = Source /\ last_filled # -1
    /\ last_filled = -1 => \A b \in InBlocks : data[b] \subseteq stored[b]
    /\ last_filled # -1 /\ pc \in {"recv", "return"} => stored[CurBlock] # {}

\* The block's own packets.
Own(e) == e.data \cap BlockMcnts(e.header.mcnt)

\* Only the first block that is passed on may have none of its own packets,
\* and then it has no data at all.
NoneEmpty ==
    /\ last_filled = -1 => InFlight = << >> /\ file = {}
    /\ \A i \in 1 .. Len(InFlight) :
          i > 1 \/ file # {} \/ InFlight[i].data # {} => Own(InFlight[i]) # {}

LEMMA InitNoneEmpty == PipeInit => InSync /\ HasPacket /\ NoneEmpty
<1> SUFFICES ASSUME PipeInit PROVE InSync /\ HasPacket /\ NoneEmpty
  OBVIOUS
<1>1. last_filled = -1 /\ pc = "start" /\ lost = 0 /\ file = {}
  BY DEF PipeInit, StreamInit, Init, Out!InitOutput
<1>2. InFlight = << >> /\ 1 .. Len(<< >>) = {}
  BY InitOfQueue, SMT DEF Queue!QueueInit
<1>3. lost \in 0 .. MaxLost
  BY <1>1, PipelineAssumption, SMT
<1>4. \A b \in InBlocks : data[b] = {}
  BY DEF PipeInit, StreamInit, Init
<1> QED
  BY <1>1, <1>2, <1>3, <1>4 DEF InSync, Begun, HasPacket, NoneEmpty

\* What the network thread does to its window and its blocks, then.
LEMMA KeepsUp ==
    ASSUME GoodSource, FewLost, PipeInv, NearStream, InSync, HasPacket, NetOnly
    PROVE  /\ InSync' /\ HasPacket'
           /\ last_filled' = last_filled \/ last_filled' \in Nat
<1> DEFINE base == binfo.mcnt_start
<1>0. /\ at \in Nat /\ base \in Nat /\ Nm \in Nat /\ Half \in Nat /\ Nm <= Half
      /\ lost \in Nat /\ MaxLost \in Nat /\ lost <= MaxLost /\ MaxLost < 2 * Nm - Half
  BY UpcomingIs, Constants, HalfIs, PipelineAssumption, SMT DEF InSync, FewLost
<1>1. Begun /\ pc = "recv" => at - base <= Half + lost
  BY DEF InSync, Upcoming
<1>2. (last_filled + 1) % N_INPUT_BLOCKS \in Nat /\ (last_filled + 1) % N_INPUT_BLOCKS # -1
  <2>1. last_filled + 1 \in Nat
    BY SMT DEF PipeInv, IInv, TypeOK, InBlocks, BlockIds
  <2> QED
    BY <2>1, Constants, SMT
<1>3. ASSUME Receive(NextPacket), at' = at + 1, lost' = lost
      PROVE  /\ InSync' /\ HasPacket'
             /\ last_filled' = last_filled \/ last_filled' \in Nat
  <2>1. pc = "recv" /\ Dist(NextPacket) = at - base /\ NextPacket.sid = Source
    BY <1>3, PacketIsNext DEF Receive, NextPacket
  <2>2. lost' \in 0 .. MaxLost
    BY <1>0, <1>3, SMT
  <2>3. CASE MarkFilled(NextPacket)
    <3>1. /\ pc' = "status" /\ binfo' = binfo /\ pkt' = NextPacket
          /\ last_filled' = (last_filled + 1) % N_INPUT_BLOCKS
      BY <2>3 DEF MarkFilled
    <3>2. at - base < 2 * Nm
      BY <2>1, <2>3 DEF MarkFilled, Completes, InWindow
    <3>3. at' - (base + Nm) <= Half + lost'
      BY <1>0, <1>3, <3>2, SMT
    <3> QED
      BY <1>2, <2>1, <2>2, <3>1, <3>3 DEF InSync, HasPacket, Upcoming
  <2>4. CASE SetFilledFails(NextPacket)
    BY <1>2, <2>2, <2>4 DEF SetFilledFails, InSync, HasPacket
  <2>5. CASE StorePacket(NextPacket)
    <3>1. /\ binfo \in BlockInfo /\ stored \in [InBlocks -> SUBSET Nat] /\ CurBlock \in InBlocks
          /\ data \in [InBlocks -> SUBSET Nat] /\ NextPacket \in Packet
      BY WindowSlots, PacketIsNext DEF PipeInv, IInv, TypeOK, BlockInfo
    <3>2. binfo'.mcnt_start = base /\ CurBlock' = CurBlock
      BY <2>5, <3>1, CountPacketIs DEF StorePacket, CurBlock
    <3>3. /\ pc' = "recv" /\ last_filled' = last_filled
          /\ stored' = NoteStored(stored, NextPacket) /\ data' = CopyPayload(data, NextPacket)
      BY <2>1, <2>5 DEF StorePacket
    <3>4. stored[CurBlock] \subseteq stored'[CurBlock]
      BY <3>1, <3>3 DEF NoteStored
    <3>5. at - base < Half
      BY <1>0, <2>1, <2>5, SMT DEF StorePacket, Completes, InWindow, Half
    <3>6. at' - base <= Half + lost'
      BY <1>0, <1>3, <3>5, SMT
    <3>7. last_filled = -1 => \A b \in InBlocks : data'[b] \subseteq stored'[b]
      <4> SUFFICES ASSUME last_filled = -1, NEW b \in InBlocks, NEW x \in data'[b]
                   PROVE  x \in stored'[b]
        OBVIOUS
      <4>1. data[b] \subseteq stored[b] /\ stored[b] \subseteq stored'[b]
        BY <3>1, <3>3 DEF HasPacket, NoteStored
      <4>2. x \in data[b] \/ (x = NextPacket.mcnt /\ ~BadSid(NextPacket)
                                  /\ b = block_for_mcnt(NextPacket.mcnt))
        BY <3>1, <3>3, CopyPayloadIs
      <4> QED
        BY <3>1, <3>3, <4>1, <4>2, NoteStoredIs
    <3> QED
      BY <2>1, <2>2, <3>2, <3>3, <3>4, <3>6, <3>7 DEF InSync, HasPacket, Upcoming
  <2>6. CASE IgnoreLate(NextPacket)
    <3>1. at - base < 0
      BY <2>1, <2>6 DEF IgnoreLate, IsLate
    <3>2. at' - base <= Half + lost'
      BY <1>0, <1>3, <3>1, SMT
    <3> QED
      BY <2>1, <2>2, <2>6, <3>2
         DEF IgnoreLate, vars, InSync, Begun, HasPacket, Upcoming, CurBlock
  <2>7. CASE CountOutOfSeq(NextPacket) \/ Resync(NextPacket)
    <3>1. base + 2 * Nm <= at
      BY <2>1, <2>7, OutOfSeqIsAhead DEF CountOutOfSeq, Resync
    <3>2. ~Begun
      BY <1>0, <1>1, <2>1, <3>1, SMT
    <3>3. last_filled' = last_filled /\ pc' = "recv" /\ data' = data
      BY <2>1, <2>7 DEF CountOutOfSeq, Resync
    <3>4. ~Begun' /\ last_filled' = -1 /\ \A b \in InBlocks : data'[b] = {}
      BY <3>2, <3>3 DEF Begun
    <3> QED
      BY <2>2, <3>3, <3>4 DEF InSync, HasPacket
  <2> QED
    BY <1>3, <2>3, <2>4, <2>5, <2>6, <2>7 DEF Receive
<1>4. ASSUME UpdateStatus, at' = at, lost' = lost
      PROVE  InSync' /\ HasPacket' /\ last_filled' = last_filled
  <2>1. /\ pc = "status" /\ pc' = "acquire" /\ binfo'.mcnt_start = base + Nm
        /\ UNCHANGED <<last_filled, pkt, data, stored>>
    BY <1>4 DEF UpdateStatus, Advance, PipeInv, IInv, TypeOK
  <2> QED
    BY <1>4, <2>1 DEF InSync, Begun, HasPacket, Upcoming
<1>5. ASSUME AcquireNext, at' = at, lost' = lost
      PROVE  InSync' /\ HasPacket' /\ last_filled' = last_filled
  <2>1. pc = "acquire" /\ pc' = "return" /\ last_filled' = last_filled /\ last_filled # -1
    BY <1>5 DEF AcquireNext, HasPacket
  <2>2. binfo'.mcnt_start = base /\ CurBlock' = CurBlock
    BY <1>5, AcquireNextInfo DEF PipeInv, CurBlock
  <2>3. ~BadSid(pkt)
    <3>1. pkt.sid = Source
      BY <2>1 DEF HasPacket
    <3> QED
      BY <3>1, PktsockConstants, StreamAssumption, SMT DEF BadSid, GoodSource
  <2>4. stored'[CurBlock] # {}
    BY <1>5, <2>3, AcquireNextWrites DEF PipeInv
  <2> QED
    BY <1>5, <2>1, <2>2, <2>4 DEF InSync, Begun, HasPacket, Upcoming
<1>6. ASSUME Start \/ Return \/ WaitFails, at' = at, lost' = lost
      PROVE  InSync' /\ HasPacket' /\ last_filled' = last_filled
  <2>1. CASE Start
    BY <1>6, <2>1 DEF Start, InSync, Begun, HasPacket, Upcoming
  <2>2. CASE Return \/ WaitFails
    BY <1>6, <2>2 DEF Return, WaitFails, InSync, Begun, HasPacket, Upcoming, CurBlock
  <2> QED
    BY <1>6, <2>1, <2>2
<1>7. CASE LosePacket
  <2>1. UNCHANGED vars /\ at' = at + 1 /\ lost' = lost + 1 /\ lost < MaxLost
    BY <1>7 DEF LosePacket
  <2>2. lost' \in 0 .. MaxLost
    BY <1>0, <2>1, SMT
  <2>3. Begun /\ pc # "exited" => at' - Upcoming <= Half + lost'
    BY <1>0, <2>1, UpcomingIs, SMT DEF InSync
  <2> QED
    BY <2>1, <2>2, <2>3 DEF vars, InSync, Begun, HasPacket, Upcoming, CurBlock
<1>8. CASE UNCHANGED pipeVars
  BY <1>8 DEF pipeVars, netVars, ringVars, InSync, Begun, HasPacket, Upcoming, CurBlock
<1> QED
  BY <1>3, <1>4, <1>5, <1>6, <1>7, <1>8 DEF NetOnly, NetDeliver, Deliver, NetStep

\* What is stored in the block that is filled is its own.
LEMMA FilledHasOwn ==
    ASSUME PipeInv, NearStream, NetOnly, Fills
    PROVE  LET e == (InBlock')[CurBlock]
           IN  /\ stored[CurBlock] \subseteq Own(e)
               /\ e.data = data[CurBlock]
<1>1. CurBlock \in InBlocks
  BY WindowSlots DEF PipeInv, IInv
<1>2. data' = data /\ hdr'[CurBlock].mcnt = binfo.mcnt_start
  BY WindowGoesOn
<1>3. hdr[CurBlock].mcnt = binfo.mcnt_start
  BY DEF Fills, PipeInv, IInv, OwnsWindow, Holds
<1>4. stored[CurBlock] \subseteq data[CurBlock] \cap BlockMcnts(binfo.mcnt_start)
  BY <1>1, <1>3 DEF PipeInv, IInv, StoredUnderHeader
<1>5. (InBlock')[CurBlock] = [header |-> hdr'[CurBlock], data |-> data'[CurBlock]]
  BY <1>1 DEF InBlock
<1> QED
  BY <1>2, <1>4, <1>5 DEF Own

LEMMA StepNoneEmpty ==
    ASSUME GoodSource, FewLost, PipeInv, NearStream, InSync, HasPacket, NoneEmpty,
           [PipeNext]_pipeVars
    PROVE  InSync' /\ HasPacket' /\ NoneEmpty'
<1> DEFINE q  == InFlight
           q2 == InFlight'
<1>1. q \in Seq(BlockValue) /\ Len(q) \in Nat
  BY InFlightIsTyped, LenProperties
<1>2. /\ last_filled = -1 => q = << >> /\ file = {}
      /\ \A i \in 1 .. Len(q) : i > 1 \/ file # {} \/ q[i].data # {} => Own(q[i]) # {}
  BY DEF NoneEmpty
<1>3. CASE NetOnly /\ UNCHANGED <<out, file>>
  <2>1. /\ InSync' /\ HasPacket'
        /\ last_filled' = last_filled \/ last_filled' \in Nat
    BY <1>3, KeepsUp
  <2>2. last_filled' = -1 => last_filled = -1
    BY <2>1, SMT
  <2>3. CASE Fills
    <3> DEFINE e == (InBlock')[CurBlock]
    <3>1. q2 = Append(q, e) /\ e \in BlockValue
      BY <1>3, <2>3, StepIsNetworkStep, NetOnlyIsPut DEF Appends
    <3>2. /\ Len(q2) = Len(q) + 1
          /\ \A i \in 1 .. Len(q) : q2[i] = q[i]
          /\ q2[Len(q) + 1] = e
      BY <1>1, <3>1, AppendProperties
    <3>3. last_filled' # -1
      <4>1. last_filled + 1 \in Nat /\ N_INPUT_BLOCKS \in Nat \ {0}
        BY Constants, SMT DEF PipeInv, IInv, TypeOK, InBlocks, BlockIds
      <4>2. (last_filled + 1) % N_INPUT_BLOCKS \in Nat
        BY <4>1, SMT
      <4> QED
        BY <2>3, <4>2, SMT DEF Fills
    <3>4. last_filled # -1 \/ e.data # {} => Own(e) # {}
      <4>1. CurBlock \in InBlocks /\ stored[CurBlock] \subseteq Own(e) /\ e.data = data[CurBlock]
        BY <1>3, <2>3, FilledHasOwn, WindowSlots DEF PipeInv, IInv
      <4> HIDE DEF e
      <4>2. last_filled # -1 => stored[CurBlock] # {}
        BY <2>3 DEF HasPacket, Fills
      <4>3. last_filled = -1 /\ e.data # {} => stored[CurBlock] # {}
        BY <4>1 DEF HasPacket
      <4> QED
        BY <4>1, <4>2, <4>3
    <3> HIDE DEF q, q2, e
    <3>6. \A i \in 1 .. Len(q2) : i \in 1 .. Len(q) \/ i = Len(q) + 1
      BY <1>1, <3>2, SMT
    <3>7. last_filled = -1 => Len(q) = 0 /\ file = {}
      BY <1>2, EmptySeq
    <3>8. ASSUME NEW i \in 1 .. Len(q2), i > 1 \/ file # {} \/ q2[i].data # {}
          PROVE  Own(q2[i]) # {}
      <4>1. CASE i \in 1 .. Len(q)
        BY <1>2, <3>2, <3>8, <4>1
      <4>2. CASE i = Len(q) + 1
        <5>1. last_filled # -1 \/ e.data # {}
          BY <3>2, <3>7, <3>8, <4>2, SMT
        <5> QED
          BY <3>2, <3>4, <4>2, <5>1
      <4> QED
        BY <3>6, <4>1, <4>2
    <3> QED
      BY <1>3, <2>1, <3>3, <3>8 DEF NoneEmpty, q2
  <2>4. CASE ~Fills
    <3>1. q2 = q
      BY <1>3, <2>4, StepIsNetworkStep, NetOnlyIsPut
    <3> QED
      BY <1>2, <1>3, <2>1, <2>2, <3>1 DEF NoneEmpty
  <2> QED
    BY <2>3, <2>4
<1>4. UNCHANGED netVars => last_filled' = last_filled /\ InSync' /\ HasPacket'
  BY DEF netVars, InSync, Begun, HasPacket, Upcoming, CurBlock
<1>5. CASE UNCHANGED netVars /\ QueueRests
  BY <1>2, <1>4, <1>5 DEF QueueRests, NoneEmpty
<1>6. CASE UNCHANGED netVars /\ FirstIsWritten
  <2>1. q2 = q /\ q # << >>
    BY <1>6 DEF FirstIsWritten
  <2>2. 1 \in 1 .. Len(q)
    BY <1>1, <2>1, EmptySeq, SMT
  <2>3. file' = file \/ file' = q[1].data
    BY <1>6 DEF FirstIsWritten
  <2>4. last_filled' # -1
    BY <1>2, <1>4, <1>6, <2>1
  <2>5. ASSUME NEW i \in 1 .. Len(q), i > 1 \/ file' # {} \/ q[i].data # {}
        PROVE  Own(q[i]) # {}
    <3>1. CASE i > 1
      BY <1>2, <3>1
    <3>2. CASE ~(i > 1)
      <4>1. i = 1
        BY <1>1, <3>2, SMT
      <4> QED
        BY <1>2, <2>3, <2>5, <4>1
    <3> QED
      BY <3>1, <3>2
  <2> QED
    BY <1>4, <1>6, <2>1, <2>4, <2>5 DEF NoneEmpty
<1>7. CASE UNCHANGED netVars /\ FirstIsTaken
  <2>1. q # << >> /\ q2 = Tail(q) /\ file' = file
    BY <1>7 DEF FirstIsTaken
  <2>2. last_filled' # -1
    BY <1>2, <1>4, <1>7, <2>1
  <2>3. Len(q2) = Len(q) - 1 /\ \A i \in 1 .. Len(q2) : q2[i] = q[i + 1]
    BY <1>1, <2>1, HeadTailProperties
  <2> HIDE DEF q, q2
  <2>4. \A i \in 1 .. Len(q2) : i + 1 \in 1 .. Len(q) /\ i + 1 > 1
    BY <1>1, <2>3, SMT
  <2>5. \A i \in 1 .. Len(q2) : Own(q2[i]) # {}
    BY <1>2, <2>3, <2>4
  <2> QED
    BY <1>4, <1>7, <2>2, <2>5 DEF NoneEmpty, q2
<1> QED
  BY <1>3, <1>5, <1>6, <1>7, WhatMoves

(***************************************************************************)
(* The file moves forward: no write goes back in the stream, and every     *)
(* write brings something new, whenever the packets lost are too few for a *)
(* block to be lost as a whole and their source is one of the              *)
(* configuration.                                                          *)
(***************************************************************************)
THEOREM FileGoesForward ==
    ASSUME GoodSource, FewLost
    PROVE  PipeSpec => FileMovesForward
<1>1. (PipeInv /\ NoneEmpty) /\ [PipeNext]_pipeVars
          => [file' # file => \E n \in file' : n >= Written]_pipeVars
  <2> SUFFICES ASSUME PipeInv, NoneEmpty, [PipeNext]_pipeVars, file' # file
               PROVE  \E n \in file' : n >= Written
    OBVIOUS
  <2> DEFINE e == InFlight[1]
  <2>1. /\ InFlight # << >> /\ file' = e.data /\ out.pc = "write"
    BY WhatMoves DEF QueueRests, FirstIsWritten, FirstIsTaken
  <2>2. InFlight \in Seq(BlockValue) /\ 1 \in 1 .. Len(InFlight)
    BY <2>1, InFlightIsTyped, EmptySeq, SMT
  <2>3. e.header.mcnt = Written /\ Written \in Nat
    BY <2>1, <2>2, WrittenIsFirst, BlocksAreTyped DEF Written
  <2>4. Own(e) # {}
    BY <2>1, <2>2 DEF NoneEmpty
  <2> HIDE DEF e
  <2>5. PICK n \in e.data : n \in BlockMcnts(Written)
    BY <2>3, <2>4 DEF Own
  <2>6. n >= Written
    BY <2>3, <2>5, Constants, SMT DEF BlockMcnts
  <2> QED
    BY <2>1, <2>5, <2>6
<1>2. PipeInv /\ PipeInv' /\ NearStream /\ DataIsPast /\ InOrder /\ FileIsBehind
              /\ [PipeNext]_pipeVars
          => NearStream' /\ DataIsPast' /\ InOrder' /\ FileIsBehind'
  BY StepOrder
<1>3. PipeInv /\ NearStream /\ InSync /\ HasPacket /\ NoneEmpty /\ [PipeNext]_pipeVars
          => InSync' /\ HasPacket' /\ NoneEmpty'
  BY StepNoneEmpty
<1> DEFINE Forward ==
        LET first == oblock[out.block_idx].header.mcnt
        IN  GoesOn(first) /\ \E n \in file' : n >= first
<1>4. [file' # file => GoesOn(Written)]_pipeVars
              /\ [file' # file => \E n \in file' : n >= Written]_pipeVars
          => [file' # file => Forward]_pipeVars
  BY DEF Written
<1>5. PipeSpec => [][file' # file => Forward]_pipeVars
  <2> HIDE DEF Forward
  <2> QED
    BY <1>1, <1>2, <1>3, <1>4, InitOrder, InitNoneEmpty, PipeInvariance, FileNeverGoesBack, PTL
       DEF PipeSpec
<1> QED
  BY <1>5 DEF FileMovesForward
-----------------------------------------------------------------------------
(***************************************************************************)
(* What is left over in a block is counted in its header.                  *)
(***************************************************************************)

\* A step that changes nothing of the network thread, except that the GPU
\* thread may give it a block back.
LEMMA ConsumerStep ==
    ASSUME PipeInv, [PipeNext]_pipeVars, ~NetOnly
    PROVE  /\ UNCHANGED netVars
           /\ UNCHANGED vars \/ \E b \in InBlocks : Drain(b)
<1>1. CASE UNCHANGED <<netVars, outVars>> /\ Gpu!GiveBack
  <2>1. gpu.curblock_in \in InBlocks /\ IsFilled(sem, gpu.curblock_in)
    BY <1>1, PipeIsTyped DEF PipeInv, GpuHolds, Gpu!GiveBack, Gpu!At
  <2>2. Drain(gpu.curblock_in)
    BY <1>1, <2>1 DEF netVars, Gpu!GiveBack, Drain, Gpu!SetFree, SetFree
  <2> QED
    BY <1>1, <2>1, <2>2
<1>2. CASE /\ UNCHANGED <<netVars, outVars>>
           /\ \/ Gpu!EnterLoop \/ Gpu!LeaveLoop \/ Gpu!WaitInput \/ Gpu!WaitOutput
              \/ Gpu!GpuWaitFails
              \/ Gpu!CopyHeader \/ Gpu!CopyData \/ Gpu!PassOn
  <2>1. sem' = sem
    BY <1>2 DEF Gpu!EnterLoop, Gpu!LeaveLoop, Gpu!WaitInput, Gpu!WaitOutput, Gpu!GpuWaitFails,
                Gpu!CopyHeader, Gpu!CopyData, Gpu!PassOn
  <2> QED
    BY <1>2, <2>1 DEF netVars, vars
<1>3. CASE UNCHANGED <<sem, netVars, gpu>>
  BY <1>3 DEF netVars, vars
<1> QED
  BY <1>1, <1>2, <1>3, StepsOfThreads

LEMMA StepCounted ==
    ASSUME GoodSource, PipeInv, Came, GapsCounted, [PipeNext]_pipeVars
    PROVE  Came' /\ GapsCounted'
<1>1. IInv /\ at \in Nat /\ \A b \in InBlocks : stored[b] \subseteq Nat
  BY UpcomingIs DEF PipeInv, IInv, TypeOK
<1>2. CASE \/ NetDeliver \/ NetStep
           \/ WaitFails /\ UNCHANGED <<osem, oblock, gpu, outVars, from, at, restarts, lost>>
  <2>1. StreamStep
    BY <1>2 DEF NetDeliver, NetStep, StreamStep, ThreadStep
  <2>2. StreamNext
    BY <2>1 DEF StreamStep, StreamNext
  <2> QED
    BY <1>1, <2>1, <2>2, StepCame, StreamCounts
<1>3. CASE LosePacket
  <2>1. UNCHANGED vars /\ at' = at + 1
    BY <1>3 DEF LosePacket
  <2>2. \A x \in Nat : x < at => x < at'
    BY <1>1, <2>1, SMT
  <2>3. pkt \in [mcnt : Nat, sid : Nat]
    BY <1>1 DEF IInv, TypeOK
  <2>4. Came'
    BY <1>1, <2>1, <2>2, <2>3 DEF Came, Completing, vars
  <2> QED
    BY <1>1, <2>1, <2>4, OtherStepsCount
<1>4. CASE UNCHANGED pipeVars
  <2>1. UNCHANGED vars /\ at' = at
    BY <1>4 DEF pipeVars, ringVars, netVars, vars
  <2>2. Came'
    BY <2>1 DEF Came, Completing, vars
  <2> QED
    BY <1>1, <2>1, <2>2, OtherStepsCount
<1>5. CASE ~NetOnly
  <2>1. UNCHANGED netVars /\ (UNCHANGED vars \/ \E b \in InBlocks : Drain(b))
    BY <1>5, ConsumerStep
  <2>2. Came'
    BY <2>1 DEF netVars, Came, Completing
  <2> QED
    BY <1>1, <2>1, <2>2, OtherStepsCount
<1>6. CASE NetOnly
  BY <1>2, <1>3, <1>4, <1>6 DEF NetOnly
<1> QED
  BY <1>5, <1>6

\* The header of a block counts the places that its own packets leave.
GapsAnnounced(e) == e.header.missed_pkts = Nm - Cardinality(Own(e))

QueueCounted == \A i \in 1 .. Len(InFlight) : GapsAnnounced(InFlight[i])

LEMMA FilledIsCounted ==
    ASSUME PipeInv, PipeInv', DataIsPast', GapsCounted', Fills
    PROVE  GapsAnnounced((InBlock')[CurBlock])
<1> DEFINE b == CurBlock
<1>1. b \in InBlocks
  BY WindowSlots DEF PipeInv, IInv
<1>2. IsFilled(sem', b)
  BY <1>1, PipeIsTyped, RingSizes DEF Fills, SetFilled, IsFilled, Rings
<1> HIDE DEF b
<1>3. hdr'[b].missed_pkts = Nm - Cardinality(stored'[b])
  BY <1>1, <1>2 DEF GapsCounted, MissedIsExact, IsFilled
<1>4. hdr'[b].mcnt \in Nat
  BY <1>1 DEF PipeInv, IInv, TypeOK, Header
<1>5. stored'[b] \subseteq data'[b] \cap BlockMcnts(hdr'[b].mcnt)
  BY <1>1 DEF PipeInv, IInv, StoredUnderHeader
<1>6. \A x \in BlockMcnts(hdr'[b].mcnt) : ~(x < hdr'[b].mcnt)
  BY <1>4, Constants, SMT DEF BlockMcnts
<1>7. data'[b] \cap BlockMcnts(hdr'[b].mcnt) \subseteq stored'[b]
  BY <1>1, <1>6 DEF DataIsPast
<1>8. (InBlock')[b] = [header |-> hdr'[b], data |-> data'[b]]
  BY <1>1 DEF InBlock
<1>9. Own((InBlock')[b]) = stored'[b]
  BY <1>5, <1>7, <1>8 DEF Own
<1> QED
  BY <1>3, <1>8, <1>9 DEF GapsAnnounced, b

LEMMA StepQueueCounted ==
    ASSUME PipeInv, PipeInv', DataIsPast', GapsCounted', QueueCounted, [PipeNext]_pipeVars
    PROVE  QueueCounted'
<1> DEFINE q  == InFlight
           q2 == InFlight'
<1>1. q \in Seq(BlockValue) /\ Len(q) \in Nat
  BY InFlightIsTyped, LenProperties
<1>2. \A i \in 1 .. Len(q) : GapsAnnounced(q[i])
  BY DEF QueueCounted
<1>3. CASE NetOnly /\ Fills
  <2> DEFINE e == (InBlock')[CurBlock]
  <2>1. q2 = Append(q, e) /\ e \in BlockValue
    BY <1>3, StepIsNetworkStep, NetOnlyIsPut DEF Appends
  <2>2. GapsAnnounced(e)
    BY <1>3, FilledIsCounted
  <2> HIDE DEF q, q2, e
  <2>3. /\ Len(q2) = Len(q) + 1
        /\ \A i \in 1 .. Len(q) : q2[i] = q[i]
        /\ q2[Len(q) + 1] = e
    BY <1>1, <2>1, AppendProperties
  <2>4. \A i \in 1 .. Len(q2) : i \in 1 .. Len(q) \/ i = Len(q) + 1
    BY <1>1, <2>3, SMT
  <2>5. \A i \in 1 .. Len(q2) : GapsAnnounced(q2[i])
    BY <1>2, <2>2, <2>3, <2>4
  <2> QED
    BY <2>5 DEF QueueCounted, GapsAnnounced, Own, q2
<1>4. CASE q2 = q
  BY <1>2, <1>4 DEF QueueCounted, GapsAnnounced, Own
<1>5. CASE FirstIsTaken
  <2>1. q # << >> /\ q2 = Tail(q)
    BY <1>5 DEF FirstIsTaken
  <2>2. Len(q2) = Len(q) - 1 /\ \A i \in 1 .. Len(q2) : q2[i] = q[i + 1]
    BY <1>1, <2>1, HeadTailProperties
  <2> HIDE DEF q, q2
  <2>3. \A i \in 1 .. Len(q2) : i + 1 \in 1 .. Len(q)
    BY <1>1, <2>2, SMT
  <2>4. \A i \in 1 .. Len(q2) : GapsAnnounced(q2[i])
    BY <1>2, <2>2, <2>3
  <2> QED
    BY <2>4 DEF QueueCounted, GapsAnnounced, Own, q2
<1>6. CASE NetOnly /\ ~Fills
  <2>1. q2 = q
    BY <1>6, StepIsNetworkStep, NetOnlyIsPut
  <2> QED
    BY <1>4, <2>1
<1> QED
  BY <1>3, <1>4, <1>5, <1>6, WhatMoves DEF QueueRests, FirstIsWritten

(***************************************************************************)
(* missed_pkts of every block on its way to the file is the number of      *)
(* places its own packets did not fill, where payloads of earlier blocks   *)
(* are left over: for any stream with a good source id, whatever is lost,  *)
(* and however the window is reset.                                        *)
(***************************************************************************)
THEOREM LeftOversCounted ==
    ASSUME GoodSource
    PROVE  PipeSpec => []LeftOversAreCounted
<1>1. PipeInit => Came /\ GapsCounted /\ QueueCounted
  <2> SUFFICES ASSUME PipeInit PROVE Came /\ GapsCounted /\ QueueCounted
    OBVIOUS
  <2>1. Came /\ GapsCounted
    BY InitCounts DEF PipeInit, StreamInit, Init, Came, Completing
  <2>2. InFlight = << >> /\ 1 .. Len(<< >>) = {}
    BY InitOfQueue, SMT DEF Queue!QueueInit
  <2> QED
    BY <2>1, <2>2 DEF QueueCounted
<1>2. PipeInv /\ PipeInv' /\ NearStream /\ DataIsPast /\ InOrder /\ FileIsBehind
              /\ [PipeNext]_pipeVars
          => NearStream' /\ DataIsPast' /\ InOrder' /\ FileIsBehind'
  BY StepOrder
<1>3. PipeInv /\ Came /\ GapsCounted /\ [PipeNext]_pipeVars => Came' /\ GapsCounted'
  BY StepCounted
<1>4. PipeInv /\ PipeInv' /\ DataIsPast' /\ GapsCounted' /\ QueueCounted /\ [PipeNext]_pipeVars
          => QueueCounted'
  BY StepQueueCounted
<1>5. PipeInv /\ QueueCounted => LeftOversAreCounted
  <2> SUFFICES ASSUME PipeInv, QueueCounted PROVE LeftOversAreCounted
    OBVIOUS
  <2>1. DOMAIN InFlight = 1 .. Len(InFlight)
    BY InFlightIsTyped, LenProperties
  <2> QED
    BY <2>1 DEF QueueCounted, GapsAnnounced, Own, LeftOversAreCounted
<1> QED
  BY <1>1, <1>2, <1>3, <1>4, <1>5, InitOrder, PipeInvariance, PTL DEF PipeSpec
=============================================================================
