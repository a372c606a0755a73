----------------------------- MODULE GpuThread -----------------------------
(***************************************************************************)
(* The middle thread of the pipeline, s6_gpu_thread.cpp.  In this build it *)
(* does no spectroscopy: it copies each block of the input ring, header    *)
(* and data, to the output ring.  It takes the blocks of both rings in     *)
(* turn, from block 0 on.                                                  *)
(*                                                                         *)
(* The module has the thread's steps only; Pipeline composes it with the   *)
(* threads that fill the input ring and empty the output ring.  Left out:  *)
(* the status keys it reports by, and the named semaphore for the GPU,     *)
(* which is opened and never waited for.                                   *)
(***************************************************************************)
EXTENDS Databuf

CONSTANTS N_INPUT_BLOCKS, N_OUTPUT_BLOCKS

VARIABLES
    isem,    \* semaphores of the input ring
    iblock,  \* its blocks: [header, data]; this thread only reads them
    osem,    \* semaphores of the output ring
    oblock,  \* its blocks
    gpu,     \* the thread: pc, curblock_in, curblock_out
    running  \* run_threads(): no stop has been requested

InitGpu == gpu = [pc |-> "top", curblock_in |-> 0, curblock_out |-> 0]

At(label) == gpu.pc = label
GoTo(label) == gpu' = [gpu EXCEPT !.pc = label]

\* run_threads() is looked at between two blocks only, not while waiting.
EnterLoop == At("top") /\ running /\ GoTo("wait_in") /\ UNCHANGED <<isem, osem, oblock>>
LeaveLoop == At("top") /\ ~running /\ GoTo("exited") /\ UNCHANGED <<isem, osem, oblock>>

\* A timeout only reports "blocked" and waits again.
WaitInput ==
    /\ At("wait_in")
    /\ IsFilled(isem, gpu.curblock_in)
    /\ GoTo("wait_out")
    /\ UNCHANGED <<isem, osem, oblock>>

\* last_mcount is never assigned, so that its test is always true and the
\* thread always waits for the output block.
WaitOutputUnchecked ==
    /\ At("wait_out")
    /\ GoTo("header")
    /\ UNCHANGED <<isem, osem, oblock>>

WaitOutput ==
    /\ At("wait_out")
    /\ IsFree(osem, gpu.curblock_out)
    /\ GoTo("header")
    /\ UNCHANGED <<isem, osem, oblock>>

CopyHeader ==
    /\ At("header")
    /\ oblock' = [oblock EXCEPT ![gpu.curblock_out].header = iblock[gpu.curblock_in].header]
    /\ GoTo("data")
    /\ UNCHANGED <<isem, osem>>

CopyDataSkipped ==
    /\ At("data")
    /\ GoTo("pass_on")
    /\ UNCHANGED <<isem, osem, oblock>>

CopyData ==
    /\ At("data")
    /\ oblock' = [oblock EXCEPT ![gpu.curblock_out].data = iblock[gpu.curblock_in].data]
    /\ GoTo("pass_on")
    /\ UNCHANGED <<isem, osem>>

PassOnNoWrap ==
    /\ At("pass_on")
    /\ osem' = SetFilled(osem, gpu.curblock_out)
    /\ gpu' = [gpu EXCEPT !.pc = "give_back", !.curblock_out = @ + 1]
    /\ UNCHANGED <<isem, oblock>>

PassOn ==
    /\ At("pass_on")
    /\ osem' = SetFilled(osem, gpu.curblock_out)
    /\ gpu' = [gpu EXCEPT !.pc = "give_back",
                          !.curblock_out = NextBlock(@, N_OUTPUT_BLOCKS)]
    /\ UNCHANGED <<isem, oblock>>

GiveBack ==
    /\ At("give_back")
    /\ isem' = SetFree(isem, gpu.curblock_in)
    /\ gpu' = [gpu EXCEPT !.pc = "top",
                          !.curblock_in = NextBlock(@, N_INPUT_BLOCKS)]
    /\ UNCHANGED <<osem, oblock>>

\* Any other error of a wait ends the thread, whatever it holds.
GpuWaitFails ==
    /\ At("wait_in") \/ At("wait_out")
    /\ GoTo("exited")
    /\ UNCHANGED <<isem, osem, oblock>>

GpuStep ==
    \/ EnterLoop \/ LeaveLoop
    \/ WaitInput \/ WaitOutput \/ CopyHeader \/ CopyData \/ PassOn \/ GiveBack

GpuTypeOK ==
    gpu \in [pc : {"top", "wait_in", "wait_out", "header", "data", "pass_on", "give_back", "exited"},
             curblock_in : BlockIds(N_INPUT_BLOCKS), curblock_out : BlockIds(N_OUTPUT_BLOCKS)]
=============================================================================
