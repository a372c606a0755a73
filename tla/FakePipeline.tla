---------------------------- MODULE FakePipeline ----------------------------
(***************************************************************************)
(* The pipeline as s6_test.sh starts it: the fake network thread           *)
(* (s6_fake_net_thread.cpp), the GPU thread and the output thread, until   *)
(* somebody asks it to stop.                                               *)
(*                                                                         *)
(* For each block the fake thread generates the data of the whole ring     *)
(* anew, although it has waited for that one block only: the other threads *)
(* read the other blocks meanwhile.  What saves them is that gen_fake_data *)
(* generates the same data each time.                                      *)
(*                                                                         *)
(* Left out: the sleep of a second per block, and the keys it reports by.  *)
(***************************************************************************)
EXTENDS RingQueue

CONSTANTS
    N_INPUT_BLOCKS, N_OUTPUT_BLOCKS,
    U64,         \* 2^64: mcnt wraps here
    Modes,       \* the settings of the status keys an operator may have made
    MayFail      \* may waiting for a block, or opening the file, fail?

ASSUME FakePipelineAssumption ==
    /\ N_INPUT_BLOCKS \in Nat \ {0} /\ N_OUTPUT_BLOCKS \in Nat \ {0}
    /\ U64 \in Nat /\ U64 > N_INPUT_BLOCKS + N_OUTPUT_BLOCKS
    /\ MayFail \in BOOLEAN

VARIABLES
    sem, iblock,                      \* the input ring
    osem, oblock,                     \* the output ring
    fake,                             \* the fake network thread
    gpu, out, keys, faststatus, file, \* the other two, as in their modules
    running,                          \* run_threads()
    after                             \* blocks each thread completed since the stop request

inVars   == <<sem, iblock>>
outVars  == <<out, keys, faststatus, file>>
fakeVars == <<inVars, osem, oblock, fake, gpu, outVars, running, after>>

InBlocks  == BlockIds(N_INPUT_BLOCKS)
OutBlocks == BlockIds(N_OUTPUT_BLOCKS)

Gpu == INSTANCE GpuThread WITH isem <- sem
Out == INSTANCE OutputThread

ASSUME ModesAssumption == Modes \subseteq Out!Keys

Threads == {"fake", "gpu", "out"}
-----------------------------------------------------------------------------
Init ==
    /\ sem = DatabufCreate(N_INPUT_BLOCKS)
    /\ osem = DatabufCreate(N_OUTPUT_BLOCKS)
    /\ iblock = [b \in InBlocks |-> Out!ZeroBlock]
    /\ oblock = [b \in OutBlocks |-> Out!ZeroBlock]
    /\ fake = [pc |-> "top", block_idx |-> 0, mcnt |-> 0, i |-> 1]
    /\ Gpu!InitGpu
    /\ Out!InitOutput
    /\ keys \in Modes
    /\ running = TRUE
    /\ after = [t \in Threads |-> 0]

At(label) == fake.pc = label
GoTo(label) == fake' = [fake EXCEPT !.pc = label]

LeaveLoop == At("top") /\ ~running /\ GoTo("exited") /\ UNCHANGED inVars

EnterLoopAlways == At("top") /\ GoTo("wait") /\ UNCHANGED inVars

EnterLoop == At("top") /\ running /\ GoTo("wait") /\ UNCHANGED inVars

WaitFreeUnchecked == At("wait") /\ GoTo("header") /\ UNCHANGED inVars

\* A timeout only reports "blocked" and waits again.
WaitFree ==
    /\ At("wait")
    /\ IsFree(sem, fake.block_idx)
    /\ GoTo("header")
    /\ UNCHANGED inVars

\* Source id and time stamp keep their zeros.
PutHeader ==
    /\ At("header")
    /\ iblock' = [iblock EXCEPT ![fake.block_idx].header.mcnt = fake.mcnt,
                                ![fake.block_idx].header.missed_pkts = 0]
    /\ GoTo("generate")
    /\ UNCHANGED sem

\* The generator that is commented out seeds its noise with the time.
SeededData == {fake.mcnt}

\* A sine wave of a fixed frequency.
gen_fake_data == {1}

GenerateData ==
    /\ At("generate")
    /\ iblock' = [iblock EXCEPT ![0].data = gen_fake_data]
    /\ fake' = [fake EXCEPT !.pc = "copy", !.i = 1]
    /\ UNCHANGED sem

\* Block 0 is copied over every other block, one after the other.
CopyToBlock ==
    /\ At("copy") /\ fake.i < N_INPUT_BLOCKS
    /\ iblock' = [iblock EXCEPT ![fake.i].data = iblock[0].data]
    /\ fake' = [fake EXCEPT !.i = @ + 1]
    /\ UNCHANGED sem

MarkFilledAgain ==
    /\ At("copy") /\ fake.i = N_INPUT_BLOCKS
    /\ sem' = SetFilled(sem, fake.block_idx)
    /\ fake' = [fake EXCEPT !.pc = "top", !.mcnt = (@ + 1) % U64]
    /\ UNCHANGED iblock

MarkFilled ==
    /\ At("copy") /\ fake.i = N_INPUT_BLOCKS
    /\ sem' = SetFilled(sem, fake.block_idx)
    /\ fake' = [fake EXCEPT !.pc = "top", !.mcnt = (@ + 1) % U64,
                            !.block_idx = NextBlock(@, N_INPUT_BLOCKS)]
    /\ UNCHANGED iblock

FakeWaitFails == At("wait") /\ GoTo("exited") /\ UNCHANGED inVars
-----------------------------------------------------------------------------
FakeStep ==
    \/ EnterLoop \/ LeaveLoop \/ WaitFree \/ PutHeader
    \/ GenerateData \/ CopyToBlock \/ MarkFilled

\* The last step of a block counts, once a stop has been requested.
Count(t, completed) ==
    after' = IF completed /\ ~running THEN [after EXCEPT ![t] = @ + 1] ELSE after

FakeMove ==
    /\ FakeStep
    /\ Count("fake", ~At("top") /\ fake'.pc = "top")
    /\ UNCHANGED <<osem, oblock, gpu, outVars, running>>

GpuMove ==
    /\ Gpu!GpuStep
    /\ Count("gpu", gpu.pc = "give_back")
    /\ UNCHANGED <<iblock, fake, outVars, running>>

OutMove ==
    /\ Out!OutStep
    /\ Count("out", out.pc = "release")
    /\ UNCHANGED <<inVars, fake, gpu, running>>

StopRequest ==
    /\ running
    /\ running' = FALSE
    /\ UNCHANGED <<inVars, osem, oblock, fake, gpu, outVars, after>>

\* An error ends a thread; its blocks stay as they are.
Fails ==
    /\ MayFail
    /\ \/ FakeWaitFails /\ UNCHANGED <<osem, oblock, gpu, outVars>>
       \/ Gpu!GpuWaitFails /\ UNCHANGED <<iblock, fake, outVars>>
       \/ (Out!OutWaitFails \/ Out!WriteFails) /\ UNCHANGED <<inVars, fake, gpu>>
    /\ UNCHANGED <<running, after>>

\* Some thread has left.
Ended == "exited" \in {fake.pc, gpu.pc, out.pc}

\* Every thread has left, or waits in a loop that does not look at
\* run_threads(), for a block that will not come.
AtRest ==
    /\ fake.pc \in {"wait", "exited"}
    /\ gpu.pc \in {"wait_in", "wait_out", "exited"}
    /\ out.pc \in {"wait", "exited"}
    /\ Ended

Rests == AtRest /\ UNCHANGED fakeVars

Next == FakeMove \/ GpuMove \/ OutMove \/ StopRequest \/ Fails \/ Rests

\* Each thread takes the steps it can take; a stop may never be asked for.
Fairness == WF_fakeVars(FakeMove) /\ WF_fakeVars(GpuMove) /\ WF_fakeVars(OutMove)

Spec == Init /\ [][Next]_fakeVars /\ Fairness
-----------------------------------------------------------------------------
\* The blocks between the fake thread and the end, oldest first.
InFlight ==
    FilledBlocks(osem, oblock, out.block_idx, N_OUTPUT_BLOCKS, out.pc = "release")
    \o FilledBlocks(sem, iblock, gpu.curblock_in, N_INPUT_BLOCKS, gpu.pc = "give_back")

Queue == INSTANCE BlockQueue
            WITH Capacity <- N_INPUT_BLOCKS + N_OUTPUT_BLOCKS, queue <- InFlight

(***************************************************************************)
(* The three threads are a bounded queue of blocks, errors and stop        *)
(* requests included.  Blocks in the queue stay what they are, although    *)
(* the fake thread writes to those of the input ring: the threads that     *)
(* read them do not notice.                                                *)
(***************************************************************************)
FakeImplementsQueue == Queue!QueueSafety

(***************************************************************************)
(* A stop request is noticed between two blocks: each thread completes at  *)
(* most the one it is at or waits for, however the requests and the blocks *)
(* interleave.                                                             *)
(***************************************************************************)
OneBlockAfterStop == \A t \in Threads : after[t] <= 1

(***************************************************************************)
(* After a stop request, or once a thread has ended on an error, the whole *)
(* pipeline comes to rest and stays there: no thread goes on working.      *)
(***************************************************************************)
ComesToRest == (~running \/ Ended) ~> []AtRest

(***************************************************************************)
(* Until then blocks keep coming out: the threads do not wait for each     *)
(* other in a circle.                                                      *)
(***************************************************************************)
BlocksKeepComing == <>Ended \/ []<>(out.pc = "write")
=============================================================================
