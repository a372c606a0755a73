------------------------- MODULE FakePipelineProofs -------------------------
(***************************************************************************)
(* The pipeline with the fake network thread, for any sizes of its rings:  *)
(* a stop request is obeyed after one block at most, and the rings are a   *)
(* bounded queue, although the fake thread writes to filled blocks.        *)
(***************************************************************************)
EXTENDS FakePipeline, RingQueueProofs

Header     == [mcnt : Nat, sid : Nat, time : Nat, missed_pkts : Nat]
BlockValue == [header : Header, data : SUBSET Nat]

FakeLabels == {"top", "wait", "header", "generate", "copy", "exited"}
GpuLabels  == {"top", "wait_in", "wait_out", "header", "data", "pass_on", "give_back", "exited"}
OutLabels  == {"top", "wait", "modes", "dumpvolt", "idle", "write", "clear", "release", "exited"}

FakeThreads == [pc : FakeLabels, block_idx : BlockIds(N_INPUT_BLOCKS), mcnt : Nat,
                i : 1 .. N_INPUT_BLOCKS]
GpuThreads  == [pc : GpuLabels, curblock_in : BlockIds(N_INPUT_BLOCKS),
                curblock_out : BlockIds(N_OUTPUT_BLOCKS)]
OutThreads  == [pc : OutLabels, block_idx : BlockIds(N_OUTPUT_BLOCKS),
                run_always : 0 .. 1, testmode : 0 .. 1, idle : 0 .. 1]

ThreadTypes ==
    /\ fake \in FakeThreads /\ gpu \in GpuThreads /\ out \in OutThreads
    /\ keys \in Out!Keys /\ faststatus \in 0 .. 1
    /\ running \in BOOLEAN

RingTypes ==
    /\ sem \in Rings(N_INPUT_BLOCKS) /\ osem \in Rings(N_OUTPUT_BLOCKS)
    /\ iblock \in [BlockIds(N_INPUT_BLOCKS) -> BlockValue]
    /\ oblock \in [BlockIds(N_OUTPUT_BLOCKS) -> BlockValue]

LEMMA FakeConstants ==
    /\ N_INPUT_BLOCKS \in Nat \ {0} /\ N_OUTPUT_BLOCKS \in Nat \ {0}
    /\ 0 \in BlockIds(N_INPUT_BLOCKS) /\ 0 \in BlockIds(N_OUTPUT_BLOCKS)
    /\ 1 \in 1 .. N_INPUT_BLOCKS
    /\ InBlocks = BlockIds(N_INPUT_BLOCKS) /\ OutBlocks = BlockIds(N_OUTPUT_BLOCKS)
    /\ \A m \in Nat : (m + 1) % U64 \in Nat
<1>1. /\ N_INPUT_BLOCKS \in Nat \ {0} /\ N_OUTPUT_BLOCKS \in Nat \ {0}
      /\ U64 \in Nat /\ U64 > N_INPUT_BLOCKS + N_OUTPUT_BLOCKS
  BY FakePipelineAssumption
<1>2. 0 \in BlockIds(N_INPUT_BLOCKS) /\ 0 \in BlockIds(N_OUTPUT_BLOCKS) /\ 1 \in 1 .. N_INPUT_BLOCKS
  BY <1>1, SMT DEF BlockIds
<1>3. \A m \in Nat : (m + 1) % U64 \in Nat
  BY <1>1, SMT
<1> QED
  BY <1>1, <1>2, <1>3 DEF InBlocks, OutBlocks

LEMMA ZeroIsTyped == Out!ZeroBlock \in BlockValue
<1>1. 0 \in Nat
  BY SMT
<1> QED
  BY <1>1 DEF Out!ZeroBlock, BlockValue, Header
-----------------------------------------------------------------------------
(***************************************************************************)
(* What each thread does to its own variable.                              *)
(***************************************************************************)
LEMMA FakeThreadSteps ==
    ASSUME ThreadTypes, FakeStep \/ FakeWaitFails
    PROVE  /\ fake' \in FakeThreads
           /\ \/ fake.pc = "top" /\ running /\ fake'.pc = "wait"
              \/ fake.pc = "top" /\ ~running /\ fake'.pc = "exited"
              \/ fake.pc = "wait" /\ fake'.pc \in {"header", "exited"}
              \/ fake.pc \in {"header", "generate", "copy"}
                   /\ fake'.pc \in {"generate", "copy", "top"}
<1>1. fake \in FakeThreads
  BY DEF ThreadTypes
<1>2. CASE EnterLoop \/ LeaveLoop \/ WaitFree \/ PutHeader \/ FakeWaitFails
  <2>1. /\ \E label \in FakeLabels : fake' = [fake EXCEPT !.pc = label]
        /\ \/ fake.pc = "top" /\ running /\ fake' = [fake EXCEPT !.pc = "wait"]
           \/ fake.pc = "top" /\ ~running /\ fake' = [fake EXCEPT !.pc = "exited"]
           \/ fake.pc = "wait" /\ fake' = [fake EXCEPT !.pc = "header"]
           \/ fake.pc = "wait" /\ fake' = [fake EXCEPT !.pc = "exited"]
           \/ fake.pc = "header" /\ fake' = [fake EXCEPT !.pc = "generate"]
    BY <1>2 DEF EnterLoop, LeaveLoop, WaitFree, PutHeader, FakeWaitFails, At, GoTo, FakeLabels
  <2> QED
    BY <1>1, <2>1 DEF FakeThreads
<1>3. CASE GenerateData
  BY <1>1, <1>3, FakeConstants DEF GenerateData, At, FakeThreads, FakeLabels
<1>4. CASE CopyToBlock
  <2>1. fake.i + 1 \in 1 .. N_INPUT_BLOCKS
    <3>1. fake.i \in 1 .. N_INPUT_BLOCKS /\ fake.i < N_INPUT_BLOCKS /\ N_INPUT_BLOCKS \in Nat
      BY <1>1, <1>4, FakeConstants DEF CopyToBlock, FakeThreads
    <3> QED
      BY <3>1, SMT
  <2>2. fake.pc = "copy" /\ fake' = [fake EXCEPT !.i = fake.i + 1]
    BY <1>4 DEF CopyToBlock, At
  <2> QED
    BY <1>1, <2>1, <2>2 DEF FakeThreads
<1>5. CASE MarkFilled
  <2>1. fake.block_idx \in BlockIds(N_INPUT_BLOCKS) /\ fake.mcnt \in Nat
    BY <1>1 DEF FakeThreads
  <2>2. NextBlock(fake.block_idx, N_INPUT_BLOCKS) \in BlockIds(N_INPUT_BLOCKS)
    BY <2>1, FakeConstants, FromNext
  <2>3. /\ fake.pc = "copy"
        /\ fake' = [fake EXCEPT !.pc = "top", !.mcnt = (fake.mcnt + 1) % U64,
                                !.block_idx = NextBlock(fake.block_idx, N_INPUT_BLOCKS)]
    BY <1>5 DEF MarkFilled, At
  <2>4. (fake.mcnt + 1) % U64 \in Nat
    BY <2>1, FakeConstants
  <2> QED
    BY <1>1, <2>2, <2>3, <2>4 DEF FakeThreads, FakeLabels
<1> QED
  BY <1>2, <1>3, <1>4, <1>5 DEF FakeStep

LEMMA GpuThreadSteps ==
    ASSUME ThreadTypes, Gpu!GpuStep \/ Gpu!GpuWaitFails
    PROVE  /\ gpu' \in GpuThreads
           /\ \/ gpu.pc = "top" /\ running /\ gpu'.pc = "wait_in"
              \/ gpu.pc = "top" /\ ~running /\ gpu'.pc = "exited"
              \/ gpu.pc \in {"wait_in", "wait_out"} /\ gpu'.pc \in {"wait_out", "header", "exited"}
              \/ gpu.pc \in {"header", "data", "pass_on"}
                   /\ gpu'.pc \in {"data", "pass_on", "give_back"}
              \/ gpu.pc = "give_back" /\ gpu'.pc = "top"
<1>1. gpu \in GpuThreads
  BY DEF ThreadTypes
<1>2. CASE \/ Gpu!EnterLoop \/ Gpu!LeaveLoop \/ Gpu!WaitInput \/ Gpu!WaitOutput
           \/ Gpu!CopyHeader \/ Gpu!CopyData \/ Gpu!GpuWaitFails
  <2>1. \/ gpu.pc = "top" /\ running /\ gpu' = [gpu EXCEPT !.pc = "wait_in"]
        \/ gpu.pc = "top" /\ ~running /\ gpu' = [gpu EXCEPT !.pc = "exited"]
        \/ gpu.pc = "wait_in" /\ gpu' = [gpu EXCEPT !.pc = "wait_out"]
        \/ gpu.pc = "wait_out" /\ gpu' = [gpu EXCEPT !.pc = "header"]
        \/ gpu.pc \in {"wait_in", "wait_out"} /\ gpu' = [gpu EXCEPT !.pc = "exited"]
        \/ gpu.pc = "header" /\ gpu' = [gpu EXCEPT !.pc = "data"]
        \/ gpu.pc = "data" /\ gpu' = [gpu EXCEPT !.pc = "pass_on"]
    BY <1>2 DEF Gpu!EnterLoop, Gpu!LeaveLoop, Gpu!WaitInput, Gpu!WaitOutput, Gpu!CopyHeader,
                Gpu!CopyData, Gpu!GpuWaitFails, Gpu!At, Gpu!GoTo
  <2> QED
    BY <1>1, <2>1 DEF GpuThreads, GpuLabels
<1>3. CASE Gpu!PassOn
  <2>1. NextBlock(gpu.curblock_out, N_OUTPUT_BLOCKS) \in BlockIds(N_OUTPUT_BLOCKS)
    BY <1>1, FakeConstants, FromNext DEF GpuThreads
  <2>2. /\ gpu.pc = "pass_on"
        /\ gpu' = [gpu EXCEPT !.pc = "give_back",
                              !.curblock_out = NextBlock(gpu.curblock_out, N_OUTPUT_BLOCKS)]
    BY <1>3 DEF Gpu!PassOn, Gpu!At, Gpu!NextBlock, NextBlock
  <2> QED
    BY <1>1, <2>1, <2>2 DEF GpuThreads, GpuLabels
<1>4. CASE Gpu!GiveBack
  <2>1. NextBlock(gpu.curblock_in, N_INPUT_BLOCKS) \in BlockIds(N_INPUT_BLOCKS)
    BY <1>1, FakeConstants, FromNext DEF GpuThreads
  <2>2. /\ gpu.pc = "give_back"
        /\ gpu' = [gpu EXCEPT !.pc = "top",
                              !.curblock_in = NextBlock(gpu.curblock_in, N_INPUT_BLOCKS)]
    BY <1>4 DEF Gpu!GiveBack, Gpu!At, Gpu!NextBlock, NextBlock
  <2> QED
    BY <1>1, <2>1, <2>2 DEF GpuThreads, GpuLabels
<1> QED
  BY <1>2, <1>3, <1>4 DEF Gpu!GpuStep

LEMMA OutThreadSteps ==
    ASSUME ThreadTypes, Out!OutStep \/ Out!OutWaitFails \/ Out!WriteFails
    PROVE  /\ out' \in OutThreads /\ keys' \in Out!Keys /\ faststatus' \in 0 .. 1
           /\ \/ out.pc = "top" /\ running /\ out'.pc = "wait"
              \/ out.pc = "top" /\ ~running /\ out'.pc = "exited"
              \/ out.pc = "wait" /\ out'.pc \in {"modes", "exited"}
              \/ out.pc \in {"modes", "dumpvolt", "idle", "write", "clear"}
                   /\ out'.pc \in {"dumpvolt", "idle", "write", "clear", "release", "exited"}
              \/ out.pc = "release" /\ out'.pc = "top"
<1>1. /\ out \in OutThreads /\ faststatus \in 0 .. 1 /\ 0 \in 0 .. 1
      /\ keys \in [RUNALWYS : 0 .. 1, TESTMODE : 0 .. 1, IDLE : 0 .. 1, DUMPVOLT : 0 .. 1]
  <2>1. 0 \in 0 .. 1
    BY SMT
  <2> QED
    BY <2>1 DEF ThreadTypes, Out!Keys
<1>2. /\ keys' \in [RUNALWYS : 0 .. 1, TESTMODE : 0 .. 1, IDLE : 0 .. 1, DUMPVOLT : 0 .. 1]
      /\ faststatus' \in 0 .. 1
  BY <1>1 DEF Out!OutStep, Out!ReadRunAlways, Out!LeaveLoop, Out!WaitFilled, Out!ReadModes,
         Out!PutDumpVolt, Out!PutIdle, Out!WriteBlock, Out!ClearBlock, Out!Release,
         Out!OutWaitFails, Out!WriteFails
<1>3. CASE Out!Release
  <2>1. NextBlock(out.block_idx, N_OUTPUT_BLOCKS) \in BlockIds(N_OUTPUT_BLOCKS)
    BY <1>1, FakeConstants, FromNext DEF OutThreads
  <2>2. /\ out.pc = "release"
        /\ out' = [out EXCEPT !.pc = "top",
                              !.block_idx = NextBlock(out.block_idx, N_OUTPUT_BLOCKS)]
    BY <1>3 DEF Out!Release, Out!At, Out!NextBlock, NextBlock
  <2> QED
    BY <1>1, <1>2, <2>1, <2>2 DEF OutThreads, OutLabels, Out!Keys
<1>4. CASE ~Out!Release
  <2>1. \/ /\ out.pc = "top" /\ running
           /\ out' = [out EXCEPT !.pc = "wait", !.run_always = keys.RUNALWYS]
        \/ out.pc = "top" /\ ~running /\ out' = [out EXCEPT !.pc = "exited"]
        \/ out.pc = "wait" /\ out' = [out EXCEPT !.pc = "modes"]
        \/ out.pc = "wait" /\ out' = [out EXCEPT !.pc = "exited"]
        \/ /\ out.pc = "modes"
           /\ out' = [out EXCEPT !.pc = "dumpvolt", !.idle = keys.IDLE, !.testmode = keys.TESTMODE]
        \/ out.pc = "dumpvolt" /\ out' = [out EXCEPT !.pc = "idle"]
        \/ out.pc = "idle" /\ out' = [out EXCEPT !.pc = "write", !.idle = 0]
        \/ out.pc = "write" /\ out' = [out EXCEPT !.pc = "clear"]
        \/ out.pc = "write" /\ out' = [out EXCEPT !.pc = "exited"]
        \/ out.pc = "clear" /\ out' = [out EXCEPT !.pc = "release"]
    BY <1>4 DEF Out!OutStep, Out!ReadRunAlways, Out!LeaveLoop, Out!WaitFilled, Out!ReadModes,
           Out!PutDumpVolt, Out!PutIdle, Out!WriteBlock, Out!ClearBlock,
           Out!OutWaitFails, Out!WriteFails, Out!At, Out!GoTo
  <2>2. out' \in OutThreads
    BY <1>1, <2>1 DEF OutThreads, OutLabels
  <2>3. \/ out.pc = "top" /\ running /\ out'.pc = "wait"
        \/ out.pc = "top" /\ ~running /\ out'.pc = "exited"
        \/ out.pc = "wait" /\ out'.pc \in {"modes", "exited"}
        \/ out.pc \in {"modes", "dumpvolt", "idle", "write", "clear"}
             /\ out'.pc \in {"dumpvolt", "idle", "write", "clear", "release", "exited"}
    BY <1>1, <2>1 DEF OutThreads
  <2> QED
    BY <1>2, <2>2, <2>3 DEF Out!Keys
<1> QED
  BY <1>3, <1>4
-----------------------------------------------------------------------------
(***************************************************************************)
(* A step is one thread's, which counts its last one of a block, or a stop *)
(* request; a thread that ends on an error counts nothing.                 *)
(***************************************************************************)
FakeTurn ==
    /\ \/ FakeStep /\ Count("fake", ~At("top") /\ fake'.pc = "top")
       \/ FakeWaitFails /\ UNCHANGED after
    /\ UNCHANGED <<osem, oblock, gpu, outVars, running>>

GpuTurn ==
    /\ \/ Gpu!GpuStep /\ Count("gpu", gpu.pc = "give_back")
       \/ Gpu!GpuWaitFails /\ UNCHANGED after
    /\ UNCHANGED <<iblock, fake, outVars, running>>

OutTurn ==
    /\ \/ Out!OutStep /\ Count("out", out.pc = "release")
       \/ (Out!OutWaitFails \/ Out!WriteFails) /\ UNCHANGED after
    /\ UNCHANGED <<inVars, fake, gpu, running>>

LEMMA TurnsOfThreads ==
    ASSUME [Next]_fakeVars
    PROVE  FakeTurn \/ GpuTurn \/ OutTurn \/ StopRequest \/ UNCHANGED fakeVars
<1>1. CASE Fails
  BY <1>1 DEF Fails, FakeTurn, GpuTurn, OutTurn
<1>2. CASE FakeMove \/ GpuMove \/ OutMove
  BY <1>2 DEF FakeMove, GpuMove, OutMove, FakeTurn, GpuTurn, OutTurn
<1> QED
  BY <1>1, <1>2 DEF Next, Rests

LEMMA InitThreadTypes == Init => ThreadTypes
<1> SUFFICES ASSUME Init PROVE ThreadTypes
  OBVIOUS
<1>1. 0 \in Nat /\ 0 \in 0 .. 1 /\ 1 \in 0 .. 1
  BY SMT
<1>2. /\ fake = [pc |-> "top", block_idx |-> 0, mcnt |-> 0, i |-> 1]
      /\ gpu = [pc |-> "top", curblock_in |-> 0, curblock_out |-> 0]
      /\ out = [pc |-> "top", block_idx |-> 0, run_always |-> 0, testmode |-> 1, idle |-> 0]
      /\ keys \in Out!Keys /\ faststatus \in 0 .. 1 /\ running = TRUE
  BY ModesAssumption DEF Init, Gpu!InitGpu, Out!InitOutput
<1> QED
  BY <1>1, <1>2, FakeConstants
     DEF ThreadTypes, FakeThreads, GpuThreads, OutThreads, FakeLabels, GpuLabels, OutLabels

LEMMA StepThreadTypes == ThreadTypes /\ [Next]_fakeVars => ThreadTypes'
<1> SUFFICES ASSUME ThreadTypes, [Next]_fakeVars PROVE ThreadTypes'
  OBVIOUS
<1>1. CASE FakeTurn
  <2>1. fake' \in FakeThreads
    BY <1>1, FakeThreadSteps DEF FakeTurn
  <2> QED
    BY <1>1, <2>1 DEF FakeTurn, ThreadTypes, outVars
<1>2. CASE GpuTurn
  <2>1. gpu' \in GpuThreads
    BY <1>2, GpuThreadSteps DEF GpuTurn
  <2> QED
    BY <1>2, <2>1 DEF GpuTurn, ThreadTypes, outVars
<1>3. CASE OutTurn
  <2>1. out' \in OutThreads /\ keys' \in Out!Keys /\ faststatus' \in 0 .. 1
    BY <1>3, OutThreadSteps DEF OutTurn
  <2> QED
    BY <1>3, <2>1 DEF OutTurn, ThreadTypes
<1>4. CASE StopRequest \/ UNCHANGED fakeVars
  BY <1>4 DEF StopRequest, ThreadTypes, fakeVars, outVars
<1> QED
  BY <1>1, <1>2, <1>3, <1>4, TurnsOfThreads
-----------------------------------------------------------------------------
(***************************************************************************)
(* A thread that has completed a block since the stop request is between   *)
(* two blocks, where it can only leave, or has left.                       *)
(***************************************************************************)
DoneAfterStop ==
    /\ after \in [Threads -> 0 .. 1]
    /\ \A t \in Threads : after[t] = 1 => ~running
    /\ after["fake"] = 1 => fake.pc \in {"top", "exited"}
    /\ after["gpu"] = 1  => gpu.pc \in {"top", "exited"}
    /\ after["out"] = 1  => out.pc \in {"top", "exited"}

LEMMA CountsToOne ==
    ASSUME after \in [Threads -> 0 .. 1], NEW t \in Threads, NEW completed \in BOOLEAN,
           Count(t, completed) \/ after' = after, completed => after[t] = 0
    PROVE  /\ after' \in [Threads -> 0 .. 1]
           /\ \A s \in Threads : s # t => after'[s] = after[s]
           /\ after'[t] = 1 => after[t] = 1 \/ (completed /\ ~running)
<1>1. CASE completed /\ ~running /\ Count(t, completed)
  <2>1. after' = [after EXCEPT ![t] = after[t] + 1] /\ after[t] = 0
    BY <1>1 DEF Count
  <2>2. after' = [after EXCEPT ![t] = 1]
    BY <2>1, SMT
  <2>3. 1 \in 0 .. 1
    BY SMT
  <2> QED
    BY <1>1, <2>2, <2>3
<1>2. CASE ~(completed /\ ~running /\ Count(t, completed))
  BY <1>2 DEF Count
<1> QED
  BY <1>1, <1>2

LEMMA StepDoneAfterStop ==
    (ThreadTypes /\ DoneAfterStop) /\ [Next]_fakeVars => DoneAfterStop'
<1> SUFFICES ASSUME ThreadTypes, DoneAfterStop, [Next]_fakeVars PROVE DoneAfterStop'
  OBVIOUS
<1>1. /\ after \in [Threads -> 0 .. 1] /\ running \in BOOLEAN
      /\ {"fake", "gpu", "out"} = Threads
      /\ \A t \in Threads : after[t] = 0 \/ after[t] = 1
  <2>1. \A k \in 0 .. 1 : k = 0 \/ k = 1
    BY SMT
  <2> QED
    BY <2>1 DEF DoneAfterStop, ThreadTypes, Threads
<1>2. CASE FakeTurn
  <2> DEFINE t == "fake"
             completed == ~At("top") /\ fake'.pc = "top"
  <2>1. /\ \/ fake.pc = "top" /\ running /\ fake'.pc = "wait"
           \/ fake.pc = "top" /\ ~running /\ fake'.pc = "exited"
           \/ fake.pc = "wait" /\ fake'.pc \in {"header", "exited"}
           \/ fake.pc \in {"header", "generate", "copy"}
                /\ fake'.pc \in {"generate", "copy", "top"}
        /\ UNCHANGED <<gpu, out, running>>
    BY <1>2, FakeThreadSteps DEF FakeTurn, outVars
  <2>2. completed => after[t] = 0
    BY <1>1, <2>1 DEF DoneAfterStop, At
  <2>3. Count(t, completed) \/ after' = after
    BY <1>2 DEF FakeTurn
  <2>4. /\ after' \in [Threads -> 0 .. 1]
        /\ \A s \in Threads : s # t => after'[s] = after[s]
        /\ after'[t] = 1 => after[t] = 1 \/ (completed /\ ~running)
    BY <1>1, <2>2, <2>3, CountsToOne
  <2>5. after'[t] = 1 => ~running /\ fake'.pc \in {"top", "exited"}
    BY <1>1, <2>1, <2>4 DEF DoneAfterStop
  <2> QED
    BY <1>1, <2>1, <2>4, <2>5 DEF DoneAfterStop
<1>3. CASE GpuTurn
  <2> DEFINE t == "gpu"
             completed == gpu.pc = "give_back"
  <2>1. /\ \/ gpu.pc = "top" /\ running /\ gpu'.pc = "wait_in"
           \/ gpu.pc = "top" /\ ~running /\ gpu'.pc = "exited"
           \/ gpu.pc \in {"wait_in", "wait_out"} /\ gpu'.pc \in {"wait_out", "header", "exited"}
           \/ gpu.pc \in {"header", "data", "pass_on"}
                /\ gpu'.pc \in {"data", "pass_on", "give_back"}
           \/ gpu.pc = "give_back" /\ gpu'.pc = "top"
        /\ UNCHANGED <<fake, out, running>>
    BY <1>3, GpuThreadSteps DEF GpuTurn, outVars
  <2>2. completed => after[t] = 0
    BY <1>1 DEF DoneAfterStop
  <2>3. Count(t, completed) \/ after' = after
    BY <1>3 DEF GpuTurn
  <2>4. /\ after' \in [Threads -> 0 .. 1]
        /\ \A s \in Threads : s # t => after'[s] = after[s]
        /\ after'[t] = 1 => after[t] = 1 \/ (completed /\ ~running)
    BY <1>1, <2>2, <2>3, CountsToOne
  <2>5. after'[t] = 1 => ~running /\ gpu'.pc \in {"top", "exited"}
    BY <1>1, <2>1, <2>4 DEF DoneAfterStop
  <2> QED
    BY <1>1, <2>1, <2>4, <2>5 DEF DoneAfterStop
<1>4. CASE OutTurn
  <2> DEFINE t == "out"
             completed == out.pc = "release"
  <2>1. /\ \/ out.pc = "top" /\ running /\ out'.pc = "wait"
           \/ out.pc = "top" /\ ~running /\ out'.pc = "exited"
           \/ out.pc = "wait" /\ out'.pc \in {"modes", "exited"}
           \/ out.pc \in {"modes", "dumpvolt", "idle", "write", "clear"}
                /\ out'.pc \in {"dumpvolt", "idle", "write", "clear", "release", "exited"}
           \/ out.pc = "release" /\ out'.pc = "top"
        /\ UNCHANGED <<fake, gpu, running>>
    BY <1>4, OutThreadSteps DEF OutTurn
  <2>2. completed => after[t] = 0
    BY <1>1 DEF DoneAfterStop
  <2>3. Count(t, completed) \/ after' = after
    BY <1>4 DEF OutTurn
  <2>4. /\ after' \in [Threads -> 0 .. 1]
        /\ \A s \in Threads : s # t => after'[s] = after[s]
        /\ after'[t] = 1 => after[t] = 1 \/ (completed /\ ~running)
    BY <1>1, <2>2, <2>3, CountsToOne
  <2>5. after'[t] = 1 => ~running /\ out'.pc \in {"top", "exited"}
    BY <1>1, <2>1, <2>4 DEF DoneAfterStop
  <2> QED
    BY <1>1, <2>1, <2>4, <2>5 DEF DoneAfterStop
<1>5. CASE StopRequest \/ UNCHANGED fakeVars
  BY <1>5 DEF StopRequest, DoneAfterStop, fakeVars, outVars
<1> QED
  BY <1>2, <1>3, <1>4, <1>5, TurnsOfThreads

(***************************************************************************)
(* Each thread completes at most one block after the stop request.         *)
(***************************************************************************)
THEOREM StopsAfterOneBlock == Spec => []OneBlockAfterStop
<1>1. Init => DoneAfterStop
  <2>1. 0 \in 0 .. 1 /\ 0 # 1
    BY SMT
  <2> QED
    BY <2>1 DEF Init, DoneAfterStop, Threads
<1>2. DoneAfterStop => OneBlockAfterStop
  <2>1. \A k \in 0 .. 1 : k <= 1
    BY SMT
  <2> QED
    BY <2>1 DEF DoneAfterStop, OneBlockAfterStop
<1> QED
  BY <1>1, <1>2, InitThreadTypes, StepThreadTypes, StepDoneAfterStop, PTL DEF Spec
-----------------------------------------------------------------------------
(***************************************************************************)
(* The filled blocks of the input ring are those from the GPU thread's     *)
(* block up to the one before the fake thread's, ...                       *)
(***************************************************************************)
InRun(len) ==
    /\ Run(sem, gpu.curblock_in, len, N_INPUT_BLOCKS)
    /\ (gpu.curblock_in + len) % N_INPUT_BLOCKS = fake.block_idx

\* ... those of the output ring are between the output and the GPU thread's.
OutRun(len) ==
    /\ Run(osem, out.block_idx, len, N_OUTPUT_BLOCKS)
    /\ (out.block_idx + len) % N_OUTPUT_BLOCKS = gpu.curblock_out

BlocksFollow ==
    /\ \E len \in 0 .. N_INPUT_BLOCKS : InRun(len)
    /\ \E len \in 0 .. N_OUTPUT_BLOCKS : OutRun(len)

\* What a thread has waited for stays as it is while the thread works on it.
FakeHasRoom ==
    fake.pc \in {"header", "generate", "copy"} => IsFree(sem, fake.block_idx)

GpuHolds ==
    gpu.pc \in {"wait_out", "header", "data", "pass_on", "give_back"}
        => IsFilled(sem, gpu.curblock_in)

GpuHasRoom ==
    gpu.pc \in {"header", "data", "pass_on"} => IsFree(osem, gpu.curblock_out)

OutHolds ==
    out.pc \in {"modes", "dumpvolt", "idle", "write", "clear", "release"}
        => IsFilled(osem, out.block_idx)

(***************************************************************************)
(* The blocks that are filled, and those the fake thread has copied to for *)
(* its next one, hold what it generates: it writes over the former what    *)
(* they hold already.                                                      *)
(***************************************************************************)
SameData ==
    /\ \A b \in InBlocks : IsFilled(sem, b) => iblock[b].data = gen_fake_data
    /\ fake.pc = "copy" => \A b \in InBlocks : b < fake.i => iblock[b].data = gen_fake_data

\* How much of the block the GPU thread has copied.
Copied ==
    /\ gpu.pc \in {"data", "pass_on"} =>
         oblock[gpu.curblock_out].header = iblock[gpu.curblock_in].header
    /\ gpu.pc = "pass_on" =>
         oblock[gpu.curblock_out].data = iblock[gpu.curblock_in].data

FakeInv ==
    /\ ThreadTypes
    /\ RingTypes
    /\ BlocksFollow
    /\ FakeHasRoom
    /\ GpuHolds
    /\ GpuHasRoom
    /\ OutHolds
    /\ SameData
    /\ Copied

LEMMA BlockNumbers ==
    ASSUME ThreadTypes
    PROVE  /\ fake.block_idx \in BlockIds(N_INPUT_BLOCKS)
           /\ gpu.curblock_in \in BlockIds(N_INPUT_BLOCKS)
           /\ gpu.curblock_out \in BlockIds(N_OUTPUT_BLOCKS)
           /\ out.block_idx \in BlockIds(N_OUTPUT_BLOCKS)
           /\ fake.i \in 1 .. N_INPUT_BLOCKS
  BY DEF ThreadTypes, FakeThreads, GpuThreads, OutThreads

LEMMA InitFakeInv == Init => FakeInv
<1> SUFFICES ASSUME Init PROVE FakeInv
  OBVIOUS
<1>1. /\ sem = DatabufCreate(N_INPUT_BLOCKS) /\ osem = DatabufCreate(N_OUTPUT_BLOCKS)
      /\ iblock = [b \in BlockIds(N_INPUT_BLOCKS) |-> Out!ZeroBlock]
      /\ oblock = [b \in BlockIds(N_OUTPUT_BLOCKS) |-> Out!ZeroBlock]
      /\ fake = [pc |-> "top", block_idx |-> 0, mcnt |-> 0, i |-> 1]
      /\ gpu = [pc |-> "top", curblock_in |-> 0, curblock_out |-> 0]
      /\ out = [pc |-> "top", block_idx |-> 0, run_always |-> 0, testmode |-> 1, idle |-> 0]
  BY FakeConstants DEF Init, Gpu!InitGpu, Out!InitOutput
<1>2. RingTypes
  BY <1>1, FakeConstants, EmptyRun, ZeroIsTyped DEF RingTypes
<1>3. BlocksFollow
  <2>1. /\ (0 + 0) % N_INPUT_BLOCKS = 0 /\ (0 + 0) % N_OUTPUT_BLOCKS = 0
        /\ 0 \in 0 .. N_INPUT_BLOCKS /\ 0 \in 0 .. N_OUTPUT_BLOCKS
    BY FakeConstants, SMT
  <2>2. InRun(0) /\ OutRun(0)
    BY <1>1, <2>1, FakeConstants, EmptyRun DEF InRun, OutRun
  <2> QED
    BY <2>1, <2>2 DEF BlocksFollow
<1>4. SameData
  BY <1>1, FakeConstants DEF SameData, IsFilled, DatabufCreate
<1>5. FakeHasRoom /\ GpuHolds /\ GpuHasRoom /\ OutHolds /\ Copied
  BY <1>1 DEF FakeHasRoom, GpuHolds, GpuHasRoom, OutHolds, Copied
<1> QED
  BY <1>2, <1>3, <1>4, <1>5, InitThreadTypes DEF FakeInv
-----------------------------------------------------------------------------
(***************************************************************************)
(* The fake thread.                                                        *)
(***************************************************************************)
\* It writes headers and data where nobody looks, or what is there already.
Writes ==
    /\ sem' = sem /\ fake'.block_idx = fake.block_idx
    /\ iblock' \in [BlockIds(N_INPUT_BLOCKS) -> BlockValue]
    /\ AgreeOnFilled(sem, iblock, iblock', N_INPUT_BLOCKS)
    /\ fake'.pc \in {"header", "generate", "copy"} => IsFree(sem, fake.block_idx)
    /\ fake'.pc = "copy" => \A b \in InBlocks : b < fake'.i => iblock'[b].data = gen_fake_data

LEMMA PutHeaderWrites ==
    ASSUME FakeInv, PutHeader
    PROVE  Writes
<1> DEFINE b == fake.block_idx
<1>1. /\ fake.pc = "header" /\ fake' = [fake EXCEPT !.pc = "generate"] /\ sem' = sem
      /\ iblock' = [iblock EXCEPT ![b].header.mcnt = fake.mcnt, ![b].header.missed_pkts = 0]
  BY DEF PutHeader, At, GoTo
<1>2. /\ fake \in FakeThreads /\ b \in BlockIds(N_INPUT_BLOCKS)
      /\ iblock \in [BlockIds(N_INPUT_BLOCKS) -> BlockValue]
  BY BlockNumbers DEF FakeInv, ThreadTypes, RingTypes
<1>3. fake'.pc = "generate" /\ fake'.block_idx = b
  BY <1>1, <1>2 DEF FakeThreads
<1>4. IsFree(sem, b)
  BY <1>1 DEF FakeInv, FakeHasRoom
<1>5. iblock' \in [BlockIds(N_INPUT_BLOCKS) -> BlockValue]
  <2>1. fake.mcnt \in Nat /\ 0 \in Nat
    BY <1>2, SMT DEF FakeThreads
  <2>2. iblock[b] \in [header : Header, data : SUBSET Nat]
    BY <1>2 DEF BlockValue
  <2> DEFINE h == [iblock[b].header EXCEPT !.mcnt = fake.mcnt, !.missed_pkts = 0]
  <2>3. h \in Header
    BY <2>1, <2>2 DEF Header
  <2>4. iblock' = [iblock EXCEPT ![b] = [iblock[b] EXCEPT !.header = h]]
    BY <1>1, <1>2, <2>2
  <2>5. [iblock[b] EXCEPT !.header = h] \in BlockValue
    BY <2>2, <2>3 DEF BlockValue
  <2> QED
    BY <1>2, <2>4, <2>5
<1>6. AgreeOnFilled(sem, iblock, iblock', N_INPUT_BLOCKS)
  <2>1. \A c \in BlockIds(N_INPUT_BLOCKS) : c # b => iblock'[c] = iblock[c]
    BY <1>1, <1>2
  <2> QED
    BY <1>4, <2>1 DEF AgreeOnFilled, IsFree, IsFilled
<1> QED
  BY <1>1, <1>3, <1>4, <1>5, <1>6 DEF Writes

\* Data that is the same is no change of a block.
LEMMA WritesData ==
    ASSUME FakeInv, NEW b \in InBlocks,
           iblock' = [iblock EXCEPT ![b].data = gen_fake_data]
    PROVE  /\ iblock' \in [BlockIds(N_INPUT_BLOCKS) -> BlockValue]
           /\ AgreeOnFilled(sem, iblock, iblock', N_INPUT_BLOCKS)
           /\ \A c \in InBlocks : iblock[c].data = gen_fake_data \/ c = b
                                    => iblock'[c].data = gen_fake_data
<1>1. /\ iblock \in [BlockIds(N_INPUT_BLOCKS) -> BlockValue]
      /\ iblock[b] \in [header : Header, data : SUBSET Nat]
      /\ b \in BlockIds(N_INPUT_BLOCKS) /\ InBlocks = BlockIds(N_INPUT_BLOCKS)
  BY FakeConstants DEF FakeInv, RingTypes, BlockValue
<1>2. gen_fake_data \in SUBSET Nat
  <2>1. 1 \in Nat
    BY SMT
  <2> QED
    BY <2>1 DEF gen_fake_data
<1>3. iblock' = [iblock EXCEPT ![b] = [iblock[b] EXCEPT !.data = gen_fake_data]]
  BY <1>1
<1>4. [iblock[b] EXCEPT !.data = gen_fake_data] \in BlockValue
  BY <1>1, <1>2 DEF BlockValue
<1>5. iblock' \in [BlockIds(N_INPUT_BLOCKS) -> BlockValue]
  BY <1>1, <1>3, <1>4
<1>6. /\ iblock'[b] = [iblock[b] EXCEPT !.data = gen_fake_data]
      /\ \A c \in InBlocks : c # b => iblock'[c] = iblock[c]
  BY <1>1, <1>3
<1>7. iblock'[b].data = gen_fake_data
  BY <1>1, <1>6
<1>8. IsFilled(sem, b) => iblock'[b] = iblock[b]
  <2> SUFFICES ASSUME IsFilled(sem, b) PROVE iblock'[b] = iblock[b]
    OBVIOUS
  <2>1. iblock[b].data = gen_fake_data
    BY DEF FakeInv, SameData
  <2> QED
    BY <1>1, <1>6, <2>1
<1> QED
  BY <1>1, <1>5, <1>6, <1>7, <1>8 DEF AgreeOnFilled

LEMMA GenerateDataWrites ==
    ASSUME FakeInv, GenerateData
    PROVE  Writes
<1>1. /\ fake.pc = "generate" /\ fake' = [fake EXCEPT !.pc = "copy", !.i = 1] /\ sem' = sem
      /\ iblock' = [iblock EXCEPT ![0].data = gen_fake_data] /\ 0 \in InBlocks
  BY FakeConstants DEF GenerateData, At
<1>2. fake'.pc = "copy" /\ fake'.block_idx = fake.block_idx /\ fake'.i = 1
  BY <1>1 DEF FakeInv, ThreadTypes, FakeThreads
<1>3. IsFree(sem, fake.block_idx)
  BY <1>1 DEF FakeInv, FakeHasRoom
<1>4. \A b \in InBlocks : b < 1 => b = 0
  BY FakeConstants, SMT DEF InBlocks, BlockIds
<1> QED
  BY <1>1, <1>2, <1>3, <1>4, WritesData DEF Writes

LEMMA CopyToBlockWrites ==
    ASSUME FakeInv, CopyToBlock
    PROVE  Writes
<1>1. /\ fake.pc = "copy" /\ fake' = [fake EXCEPT !.i = fake.i + 1] /\ sem' = sem
      /\ iblock' = [iblock EXCEPT ![fake.i].data = iblock[0].data]
      /\ fake.i < N_INPUT_BLOCKS
  BY DEF CopyToBlock, At
<1>2. fake'.pc = "copy" /\ fake'.block_idx = fake.block_idx /\ fake'.i = fake.i + 1
  BY <1>1 DEF FakeInv, ThreadTypes, FakeThreads
<1>3. IsFree(sem, fake.block_idx)
  BY <1>1 DEF FakeInv, FakeHasRoom
<1>4. /\ fake.i \in InBlocks /\ 0 \in InBlocks /\ 0 < fake.i
      /\ \A b \in InBlocks : b < fake.i + 1 => b < fake.i \/ b = fake.i
  <2>1. fake.i \in 1 .. N_INPUT_BLOCKS
    BY BlockNumbers DEF FakeInv
  <2> QED
    BY <1>1, <2>1, FakeConstants, SMT DEF InBlocks, BlockIds
<1>5. \A b \in InBlocks : b < fake.i => iblock[b].data = gen_fake_data
  BY <1>1 DEF FakeInv, SameData
<1>6. iblock' = [iblock EXCEPT ![fake.i].data = gen_fake_data]
  BY <1>1, <1>4, <1>5
<1> QED
  BY <1>1, <1>2, <1>3, <1>4, <1>5, <1>6, WritesData DEF Writes

\* Its other steps change its own variable only, but for the last one.
LEMMA FakeWrites ==
    ASSUME FakeInv, FakeStep \/ FakeWaitFails
    PROVE  Writes \/ MarkFilled
<1>1. CASE EnterLoop \/ LeaveLoop \/ WaitFree \/ FakeWaitFails
  <2>1. /\ UNCHANGED inVars
        /\ \/ fake' = [fake EXCEPT !.pc = "wait"] \/ fake' = [fake EXCEPT !.pc = "exited"]
           \/ fake' = [fake EXCEPT !.pc = "header"] /\ IsFree(sem, fake.block_idx)
    BY <1>1 DEF EnterLoop, LeaveLoop, WaitFree, FakeWaitFails, GoTo
  <2>2. /\ fake'.block_idx = fake.block_idx /\ fake'.pc # "copy"
        /\ fake'.pc \in {"header", "generate", "copy"} => IsFree(sem, fake.block_idx)
    BY <2>1 DEF FakeInv, ThreadTypes, FakeThreads
  <2>3. iblock' \in [BlockIds(N_INPUT_BLOCKS) -> BlockValue]
    BY <2>1 DEF FakeInv, RingTypes, inVars
  <2> QED
    BY <2>1, <2>2, <2>3 DEF Writes, inVars, AgreeOnFilled
<1> QED
  BY <1>1, PutHeaderWrites, GenerateDataWrites, CopyToBlockWrites DEF FakeStep

LEMMA WritesKeeps ==
    ASSUME FakeInv, ThreadTypes', Writes, UNCHANGED <<osem, oblock, gpu, outVars>>
    PROVE  FakeInv'
<1>1. /\ sem' = sem /\ fake'.block_idx = fake.block_idx /\ osem' = osem /\ oblock' = oblock
      /\ gpu' = gpu /\ out' = out
  BY DEF Writes, outVars
<1>2. \A b \in InBlocks : IsFilled(sem, b) => iblock'[b] = iblock[b]
  BY FakeConstants DEF Writes, AgreeOnFilled
<1>3. RingTypes'
  BY <1>1 DEF Writes, FakeInv, RingTypes
<1>4. BlocksFollow'
  BY <1>1 DEF FakeInv, BlocksFollow, InRun, OutRun, Run
<1>5. FakeHasRoom'
  BY <1>1 DEF Writes, FakeHasRoom, IsFree
<1>6. GpuHolds' /\ GpuHasRoom' /\ OutHolds'
  BY <1>1 DEF FakeInv, GpuHolds, GpuHasRoom, OutHolds, IsFilled, IsFree
<1>7. SameData'
  BY <1>1, <1>2 DEF Writes, FakeInv, SameData, IsFilled, gen_fake_data
<1>8. Copied'
  <2>1. gpu.pc \in {"data", "pass_on"} => iblock'[gpu.curblock_in] = iblock[gpu.curblock_in]
    BY <1>2, BlockNumbers, FakeConstants DEF FakeInv, GpuHolds
  <2> QED
    BY <1>1, <2>1 DEF FakeInv, Copied
<1> QED
  BY <1>3, <1>4, <1>5, <1>6, <1>7, <1>8 DEF FakeInv

\* The block it sets filled is the next one of the run.
LEMMA MarkFilledIsNext ==
    ASSUME FakeInv, MarkFilled
    PROVE  \E len \in 0 .. N_INPUT_BLOCKS :
              /\ len < N_INPUT_BLOCKS
              /\ InRun(len)
              /\ sem[fake.block_idx] = "free"
              /\ sem' = SetFilled(sem, fake.block_idx)
              /\ sem' \in Rings(N_INPUT_BLOCKS)
              /\ Run(sem', gpu.curblock_in, len + 1, N_INPUT_BLOCKS)
              /\ fake'.block_idx = (gpu.curblock_in + (len + 1)) % N_INPUT_BLOCKS
              /\ fake'.pc = "top"
<1>1. PICK len \in 0 .. N_INPUT_BLOCKS : InRun(len)
  BY DEF FakeInv, BlocksFollow
<1> DEFINE n == N_INPUT_BLOCKS
           first == gpu.curblock_in
           b == fake.block_idx
<1>2. /\ n \in Nat \ {0} /\ first \in BlockIds(n) /\ sem \in Rings(n)
      /\ Run(sem, first, len, n) /\ b = (first + len) % n
  BY <1>1, FakeConstants, BlockNumbers DEF FakeInv, RingTypes, InRun
<1>3. /\ fake.pc = "copy" /\ sem' = SetFilled(sem, b)
      /\ fake' = [fake EXCEPT !.pc = "top", !.mcnt = (fake.mcnt + 1) % U64,
                              !.block_idx = NextBlock(b, n)]
  BY DEF MarkFilled, At
<1>4. sem[b] = "free"
  BY <1>3 DEF FakeInv, FakeHasRoom, IsFree
<1>5. /\ len < n /\ SetFilled(sem, b) \in Rings(n)
      /\ Run(SetFilled(sem, b), first, len + 1, n)
  BY <1>2, <1>4, FillExtendsRun
<1>6. len \in 0 .. n - 1
  BY <1>2, <1>5, SMT
<1>7. fake'.block_idx = NextBlock(b, n) /\ fake'.pc = "top"
  BY <1>3 DEF FakeInv, ThreadTypes, FakeThreads
<1>8. NextBlock(b, n) = (first + (len + 1)) % n
  BY <1>2, <1>6, AfterRun
<1> QED
  BY <1>1, <1>3, <1>4, <1>5, <1>7, <1>8

LEMMA MarkFilledKeeps ==
    ASSUME FakeInv, ThreadTypes', MarkFilled, UNCHANGED <<osem, oblock, gpu, outVars>>
    PROVE  FakeInv'
<1> DEFINE b == fake.block_idx
<1>1. PICK len \in 0 .. N_INPUT_BLOCKS :
         /\ len < N_INPUT_BLOCKS
         /\ sem' = SetFilled(sem, b)
         /\ sem' \in Rings(N_INPUT_BLOCKS)
         /\ Run(sem', gpu.curblock_in, len + 1, N_INPUT_BLOCKS)
         /\ fake'.block_idx = (gpu.curblock_in + (len + 1)) % N_INPUT_BLOCKS
         /\ fake'.pc = "top"
  BY MarkFilledIsNext
<1>2. /\ iblock' = iblock /\ osem' = osem /\ oblock' = oblock /\ gpu' = gpu /\ out' = out
      /\ fake.pc = "copy" /\ fake.i = N_INPUT_BLOCKS
  BY DEF MarkFilled, At, outVars
<1>3. RingTypes'
  BY <1>1, <1>2 DEF FakeInv, RingTypes
<1>4. BlocksFollow'
  <2>1. len + 1 \in 0 .. N_INPUT_BLOCKS
    BY <1>1, FakeConstants, SMT
  <2>2. InRun(len + 1)'
    BY <1>1, <1>2 DEF InRun, Run
  <2>3. \E k \in 0 .. N_OUTPUT_BLOCKS : OutRun(k)'
    BY <1>2 DEF FakeInv, BlocksFollow, OutRun, Run
  <2> QED
    BY <2>1, <2>2, <2>3 DEF BlocksFollow
<1>5. \A c \in BlockIds(N_INPUT_BLOCKS) : IsFilled(sem, c) => IsFilled(sem', c)
  BY <1>1, BlockNumbers DEF FakeInv, RingTypes, Rings, SetFilled, IsFilled
<1>6. GpuHolds' /\ GpuHasRoom' /\ OutHolds' /\ FakeHasRoom'
  BY <1>1, <1>2, <1>5, BlockNumbers
     DEF FakeInv, GpuHolds, GpuHasRoom, OutHolds, FakeHasRoom, IsFilled, IsFree
<1>7. SameData'
  <2>1. \A c \in InBlocks : c < N_INPUT_BLOCKS
    BY FakeConstants, SMT DEF InBlocks, BlockIds
  <2>2. \A c \in InBlocks : iblock[c].data = gen_fake_data
    BY <1>2, <2>1 DEF FakeInv, SameData
  <2> QED
    BY <1>1, <1>2, <2>2 DEF SameData, gen_fake_data
<1>8. Copied'
  BY <1>2 DEF FakeInv, Copied
<1> QED
  BY <1>3, <1>4, <1>6, <1>7, <1>8 DEF FakeInv
-----------------------------------------------------------------------------
(***************************************************************************)
(* The GPU thread.                                                         *)
(***************************************************************************)
\* It moves between its waits, or ends.
GpuWaits ==
    \/ Gpu!EnterLoop \/ Gpu!LeaveLoop \/ Gpu!WaitInput \/ Gpu!WaitOutput \/ Gpu!GpuWaitFails

LEMMA GpuWaitsKeeps ==
    ASSUME FakeInv, ThreadTypes', GpuWaits, UNCHANGED <<iblock, fake, outVars>>
    PROVE  FakeInv'
<1>1. UNCHANGED <<sem, osem, iblock, oblock, fake, out>>
  BY DEF GpuWaits, Gpu!EnterLoop, Gpu!LeaveLoop, Gpu!WaitInput, Gpu!WaitOutput,
         Gpu!GpuWaitFails, outVars
<1>2. \/ gpu' = [gpu EXCEPT !.pc = "wait_in"] \/ gpu' = [gpu EXCEPT !.pc = "exited"]
      \/ gpu' = [gpu EXCEPT !.pc = "wait_out"] /\ IsFilled(sem, gpu.curblock_in)
      \/ /\ gpu' = [gpu EXCEPT !.pc = "header"] /\ gpu.pc = "wait_out"
         /\ IsFree(osem, gpu.curblock_out)
  BY DEF GpuWaits, Gpu!EnterLoop, Gpu!LeaveLoop, Gpu!WaitInput, Gpu!WaitOutput,
         Gpu!GpuWaitFails, Gpu!GoTo, Gpu!At, Gpu!IsFilled, Gpu!IsFree, IsFilled, IsFree
<1>3. /\ gpu'.curblock_in = gpu.curblock_in /\ gpu'.curblock_out = gpu.curblock_out
      /\ gpu'.pc \notin {"data", "pass_on", "give_back"}
      /\ gpu'.pc = "wait_out" => IsFilled(sem, gpu.curblock_in)
      /\ gpu'.pc = "header" => gpu.pc = "wait_out" /\ IsFree(osem, gpu.curblock_out)
  BY <1>2 DEF FakeInv, ThreadTypes, GpuThreads
<1>4. RingTypes' /\ SameData'
  BY <1>1 DEF FakeInv, RingTypes, SameData, IsFilled, gen_fake_data
<1>5. BlocksFollow'
  BY <1>1, <1>3 DEF FakeInv, BlocksFollow, InRun, OutRun, Run
<1>6. FakeHasRoom' /\ OutHolds'
  BY <1>1 DEF FakeInv, FakeHasRoom, OutHolds, IsFilled, IsFree
<1>7. GpuHolds' /\ GpuHasRoom' /\ Copied'
  BY <1>1, <1>3 DEF FakeInv, GpuHolds, GpuHasRoom, Copied, IsFilled, IsFree
<1> QED
  BY <1>4, <1>5, <1>6, <1>7 DEF FakeInv

\* What it copies goes to a block that is free.
LEMMA GpuCopyIs ==
    ASSUME FakeInv, Gpu!CopyHeader \/ Gpu!CopyData
    PROVE  /\ UNCHANGED <<sem, osem>>
           /\ gpu'.curblock_in = gpu.curblock_in /\ gpu'.curblock_out = gpu.curblock_out
           /\ gpu.pc \in {"header", "data"}
           /\ gpu'.pc = IF gpu.pc = "header" THEN "data" ELSE "pass_on"
           /\ IsFree(osem, gpu.curblock_out)
           /\ oblock' \in [BlockIds(N_OUTPUT_BLOCKS) -> BlockValue]
           /\ oblock'[gpu.curblock_out] =
                IF gpu.pc = "header"
                THEN [oblock[gpu.curblock_out] EXCEPT !.header = iblock[gpu.curblock_in].header]
                ELSE [oblock[gpu.curblock_out] EXCEPT !.data = iblock[gpu.curblock_in].data]
           /\ AgreeElsewhere(gpu.curblock_out, oblock, oblock', N_OUTPUT_BLOCKS)
<1> DEFINE cin == gpu.curblock_in
           cout == gpu.curblock_out
<1>1. /\ cin \in BlockIds(N_INPUT_BLOCKS) /\ cout \in BlockIds(N_OUTPUT_BLOCKS)
      /\ oblock \in [BlockIds(N_OUTPUT_BLOCKS) -> BlockValue]
      /\ iblock[cin] \in [header : Header, data : SUBSET Nat]
      /\ oblock[cout] \in [header : Header, data : SUBSET Nat]
  BY BlockNumbers DEF FakeInv, RingTypes, BlockValue
<1>2. /\ UNCHANGED <<sem, osem>>
      /\ \/ /\ gpu.pc = "header" /\ gpu' = [gpu EXCEPT !.pc = "data"]
            /\ oblock' = [oblock EXCEPT ![cout].header = iblock[cin].header]
         \/ /\ gpu.pc = "data" /\ gpu' = [gpu EXCEPT !.pc = "pass_on"]
            /\ oblock' = [oblock EXCEPT ![cout].data = iblock[cin].data]
  BY DEF Gpu!CopyHeader, Gpu!CopyData, Gpu!GoTo, Gpu!At
<1>3. /\ gpu'.curblock_in = cin /\ gpu'.curblock_out = cout
      /\ gpu.pc \in {"header", "data"}
      /\ gpu'.pc = IF gpu.pc = "header" THEN "data" ELSE "pass_on"
  BY <1>2 DEF FakeInv, ThreadTypes, GpuThreads
<1>4. IsFree(osem, cout)
  BY <1>3 DEF FakeInv, GpuHasRoom
<1> DEFINE new == IF gpu.pc = "header"
                  THEN [oblock[cout] EXCEPT !.header = iblock[cin].header]
                  ELSE [oblock[cout] EXCEPT !.data = iblock[cin].data]
<1>5. new \in BlockValue
  BY <1>1 DEF BlockValue
<1>6. oblock' = [oblock EXCEPT ![cout] = new]
  BY <1>1, <1>2
<1> HIDE DEF new
<1>7. /\ oblock' \in [BlockIds(N_OUTPUT_BLOCKS) -> BlockValue] /\ oblock'[cout] = new
      /\ AgreeElsewhere(cout, oblock, oblock', N_OUTPUT_BLOCKS)
  BY <1>1, <1>5, <1>6 DEF AgreeElsewhere
<1> QED
  BY <1>2, <1>3, <1>4, <1>7 DEF new

LEMMA GpuCopyKeeps ==
    ASSUME FakeInv, ThreadTypes', Gpu!CopyHeader \/ Gpu!CopyData,
           UNCHANGED <<iblock, fake, outVars>>
    PROVE  FakeInv'
<1> DEFINE cin == gpu.curblock_in
           cout == gpu.curblock_out
<1>1. /\ UNCHANGED <<sem, osem, iblock, fake, out>>
      /\ gpu'.curblock_in = cin /\ gpu'.curblock_out = cout
      /\ gpu.pc \in {"header", "data"}
      /\ gpu'.pc = IF gpu.pc = "header" THEN "data" ELSE "pass_on"
      /\ oblock' \in [BlockIds(N_OUTPUT_BLOCKS) -> BlockValue]
      /\ oblock'[cout] = IF gpu.pc = "header"
                         THEN [oblock[cout] EXCEPT !.header = iblock[cin].header]
                         ELSE [oblock[cout] EXCEPT !.data = iblock[cin].data]
  BY GpuCopyIs DEF outVars
<1>2. RingTypes' /\ SameData'
  BY <1>1 DEF FakeInv, RingTypes, SameData, IsFilled, gen_fake_data
<1>3. BlocksFollow'
  BY <1>1 DEF FakeInv, BlocksFollow, InRun, OutRun, Run
<1>4. FakeHasRoom' /\ OutHolds' /\ GpuHolds' /\ GpuHasRoom'
  BY <1>1 DEF FakeInv, FakeHasRoom, OutHolds, GpuHolds, GpuHasRoom, IsFilled, IsFree
<1>5. Copied'
  <2>1. oblock[cout] \in [header : Header, data : SUBSET Nat]
    BY BlockNumbers DEF FakeInv, RingTypes, BlockValue
  <2>2. CASE gpu.pc = "header"
    <3>1. gpu'.pc = "data" /\ oblock'[cout].header = iblock[cin].header
      BY <1>1, <2>1, <2>2
    <3> QED
      BY <1>1, <3>1 DEF Copied
  <2>3. CASE gpu.pc = "data"
    <3>1. oblock[cout].header = iblock[cin].header
      BY <2>3 DEF FakeInv, Copied
    <3>2. oblock'[cout].header = iblock[cin].header /\ oblock'[cout].data = iblock[cin].data
      BY <1>1, <2>1, <2>3, <3>1
    <3> QED
      BY <1>1, <3>2 DEF Copied
  <2> QED
    BY <1>1, <2>2, <2>3
<1> QED
  BY <1>2, <1>3, <1>4, <1>5 DEF FakeInv

\* The block it passes on goes after the last one of the output ring.
LEMMA PassesOnNext ==
    ASSUME FakeInv, Gpu!PassOn
    PROVE  \E len \in 0 .. N_OUTPUT_BLOCKS :
              /\ len < N_OUTPUT_BLOCKS
              /\ OutRun(len)
              /\ osem[gpu.curblock_out] = "free"
              /\ osem' = SetFilled(osem, gpu.curblock_out)
              /\ osem' \in Rings(N_OUTPUT_BLOCKS)
              /\ Run(osem', out.block_idx, len + 1, N_OUTPUT_BLOCKS)
              /\ gpu'.curblock_out = (out.block_idx + (len + 1)) % N_OUTPUT_BLOCKS
              /\ gpu'.curblock_in = gpu.curblock_in /\ gpu'.pc = "give_back"
<1>1. PICK len \in 0 .. N_OUTPUT_BLOCKS : OutRun(len)
  BY DEF FakeInv, BlocksFollow
<1> DEFINE n == N_OUTPUT_BLOCKS
           first == out.block_idx
           b == gpu.curblock_out
<1>2. /\ n \in Nat \ {0} /\ first \in BlockIds(n) /\ osem \in Rings(n)
      /\ Run(osem, first, len, n) /\ b = (first + len) % n
  BY <1>1, FakeConstants, BlockNumbers DEF FakeInv, RingTypes, OutRun
<1>3. osem[b] = "free"
  BY DEF FakeInv, GpuHasRoom, Gpu!PassOn, Gpu!At, IsFree
<1>4. osem' = SetFilled(osem, b)
  BY DEF Gpu!PassOn, Gpu!SetFilled, SetFilled
<1>5. /\ len < n /\ SetFilled(osem, b) \in Rings(n)
      /\ Run(SetFilled(osem, b), first, len + 1, n)
  BY <1>2, <1>3, FillExtendsRun
<1>6. len \in 0 .. n - 1
  BY <1>2, <1>5, SMT
<1>7. /\ gpu'.curblock_out = NextBlock(b, n)
      /\ gpu'.curblock_in = gpu.curblock_in /\ gpu'.pc = "give_back"
  <2>1. gpu' = [gpu EXCEPT !.pc = "give_back", !.curblock_out = NextBlock(b, n)]
    BY DEF Gpu!PassOn, Gpu!NextBlock, NextBlock
  <2> QED
    BY <2>1 DEF FakeInv, ThreadTypes, GpuThreads
<1>8. NextBlock(b, n) = (first + (len + 1)) % n
  BY <1>2, <1>6, AfterRun
<1> QED
  BY <1>1, <1>3, <1>4, <1>5, <1>7, <1>8

LEMMA PassOnKeeps ==
    ASSUME FakeInv, ThreadTypes', Gpu!PassOn, UNCHANGED <<iblock, fake, outVars>>
    PROVE  FakeInv'
<1>1. PICK len \in 0 .. N_OUTPUT_BLOCKS :
         /\ len < N_OUTPUT_BLOCKS
         /\ osem' = SetFilled(osem, gpu.curblock_out)
         /\ osem' \in Rings(N_OUTPUT_BLOCKS)
         /\ Run(osem', out.block_idx, len + 1, N_OUTPUT_BLOCKS)
         /\ gpu'.curblock_out = (out.block_idx + (len + 1)) % N_OUTPUT_BLOCKS
         /\ gpu'.curblock_in = gpu.curblock_in /\ gpu'.pc = "give_back"
  BY PassesOnNext
<1>2. UNCHANGED <<sem, iblock, oblock, fake, out>> /\ gpu.pc = "pass_on"
  BY DEF Gpu!PassOn, Gpu!At, outVars
<1>3. RingTypes' /\ SameData'
  BY <1>1, <1>2 DEF FakeInv, RingTypes, SameData, IsFilled, gen_fake_data
<1>4. BlocksFollow'
  <2>1. len + 1 \in 0 .. N_OUTPUT_BLOCKS
    BY <1>1, FakeConstants, SMT
  <2>2. OutRun(len + 1)'
    BY <1>1, <1>2 DEF OutRun, Run
  <2>3. \E k \in 0 .. N_INPUT_BLOCKS : InRun(k)'
    BY <1>1, <1>2 DEF FakeInv, BlocksFollow, InRun, Run
  <2> QED
    BY <2>1, <2>2, <2>3 DEF BlocksFollow
<1>5. \A b \in BlockIds(N_OUTPUT_BLOCKS) : IsFilled(osem, b) => IsFilled(osem', b)
  BY <1>1, BlockNumbers DEF FakeInv, RingTypes, Rings, SetFilled, IsFilled
<1>6. FakeHasRoom' /\ OutHolds' /\ GpuHolds' /\ GpuHasRoom' /\ Copied'
  BY <1>1, <1>2, <1>5, BlockNumbers
     DEF FakeInv, FakeHasRoom, OutHolds, GpuHolds, GpuHasRoom, Copied, IsFilled, IsFree
<1> QED
  BY <1>3, <1>4, <1>6 DEF FakeInv

\* It gives its input block back, the first one of that ring.
LEMMA GiveBackKeeps ==
    ASSUME FakeInv, ThreadTypes', Gpu!GiveBack, UNCHANGED <<iblock, fake, outVars>>
    PROVE  FakeInv'
<1> DEFINE n == N_INPUT_BLOCKS
           first == gpu.curblock_in
<1>1. /\ UNCHANGED <<osem, iblock, oblock, fake, out>> /\ sem' = SetFree(sem, first)
      /\ gpu.pc = "give_back"
      /\ gpu' = [gpu EXCEPT !.pc = "top", !.curblock_in = NextBlock(first, n)]
  BY DEF Gpu!GiveBack, Gpu!SetFree, SetFree, Gpu!NextBlock, NextBlock, Gpu!At, outVars
<1>2. /\ gpu'.curblock_in = NextBlock(first, n) /\ gpu'.curblock_out = gpu.curblock_out
      /\ gpu'.pc = "top"
  BY <1>1 DEF FakeInv, ThreadTypes, GpuThreads
<1>3. PICK len \in 0 .. n : InRun(len)
  BY DEF FakeInv, BlocksFollow
<1>4. /\ n \in Nat \ {0} /\ first \in BlockIds(n) /\ sem \in Rings(n)
      /\ Run(sem, first, len, n) /\ sem[first] = "filled"
  BY <1>1, <1>3, FakeConstants, BlockNumbers
     DEF FakeInv, RingTypes, InRun, GpuHolds, IsFilled
<1>5. /\ len - 1 \in 0 .. n /\ SetFree(sem, first) \in Rings(n)
      /\ Run(SetFree(sem, first), NextBlock(first, n), len - 1, n)
      /\ (NextBlock(first, n) + (len - 1)) % n = (first + len) % n
  BY <1>4, FreeShortensRun
<1>6. RingTypes'
  BY <1>1, <1>5 DEF FakeInv, RingTypes
<1>7. BlocksFollow'
  <2>1. InRun(len - 1)'
    BY <1>1, <1>2, <1>3, <1>5 DEF InRun, Run
  <2>2. \E k \in 0 .. N_OUTPUT_BLOCKS : OutRun(k)'
    BY <1>1, <1>2 DEF FakeInv, BlocksFollow, OutRun, Run
  <2> QED
    BY <1>5, <2>1, <2>2 DEF BlocksFollow
<1>8. \A b \in BlockIds(n) : /\ IsFree(sem, b) => IsFree(sem', b)
                             /\ IsFilled(sem', b) => IsFilled(sem, b)
  BY <1>1, <1>4 DEF IsFree, IsFilled, SetFree, Rings
<1>9. SameData'
  BY <1>1, <1>8, FakeConstants DEF FakeInv, SameData, gen_fake_data
<1>10. FakeHasRoom' /\ OutHolds' /\ GpuHolds' /\ GpuHasRoom' /\ Copied'
  BY <1>1, <1>2, <1>8, BlockNumbers
     DEF FakeInv, FakeHasRoom, OutHolds, GpuHolds, GpuHasRoom, Copied, IsFilled
<1> QED
  BY <1>6, <1>7, <1>9, <1>10 DEF FakeInv
-----------------------------------------------------------------------------
(***************************************************************************)
(* The output thread.                                                      *)
(***************************************************************************)
\* It does something that leaves the ring as it is, or ends.
OutOnly ==
    \/ Out!ReadRunAlways \/ Out!LeaveLoop \/ Out!WaitFilled \/ Out!ReadModes \/ Out!PutDumpVolt
    \/ Out!PutIdle \/ Out!WriteBlock \/ Out!OutWaitFails \/ Out!WriteFails

LEMMA OutOnlyIs ==
    ASSUME FakeInv, OutOnly
    PROVE  /\ UNCHANGED <<osem, oblock>> /\ out'.block_idx = out.block_idx
           /\ out'.pc \in {"modes", "dumpvolt", "idle", "write", "clear", "release"}
                => IsFilled(osem, out.block_idx)
           /\ out.pc # "release" /\ out'.pc # "release"
<1>1. UNCHANGED <<osem, oblock>>
  BY DEF OutOnly, Out!ReadRunAlways, Out!LeaveLoop, Out!WaitFilled, Out!ReadModes,
         Out!PutDumpVolt, Out!PutIdle, Out!WriteBlock, Out!OutWaitFails, Out!WriteFails
<1>2. \/ out.pc = "top" /\ out' = [out EXCEPT !.pc = "wait", !.run_always = keys.RUNALWYS]
      \/ out.pc \in {"top", "wait", "write"} /\ out' = [out EXCEPT !.pc = "exited"]
      \/ /\ out.pc = "wait" /\ out' = [out EXCEPT !.pc = "modes"]
         /\ IsFilled(osem, out.block_idx)
      \/ /\ out.pc = "modes"
         /\ out' = [out EXCEPT !.pc = "dumpvolt", !.idle = keys.IDLE, !.testmode = keys.TESTMODE]
      \/ out.pc = "dumpvolt" /\ out' = [out EXCEPT !.pc = "idle"]
      \/ out.pc = "idle" /\ out' = [out EXCEPT !.pc = "write", !.idle = 0]
      \/ out.pc = "write" /\ out' = [out EXCEPT !.pc = "clear"]
  BY DEF OutOnly, Out!ReadRunAlways, Out!LeaveLoop, Out!WaitFilled, Out!ReadModes,
         Out!PutDumpVolt, Out!PutIdle, Out!WriteBlock, Out!OutWaitFails, Out!WriteFails,
         Out!At, Out!GoTo, Out!IsFilled, IsFilled
<1>3. /\ out'.block_idx = out.block_idx /\ out.pc # "release" /\ out'.pc # "release"
      /\ out'.pc \in {"modes", "dumpvolt", "idle", "write", "clear"}
           => out.pc \in {"modes", "dumpvolt", "idle", "write"} \/ IsFilled(osem, out.block_idx)
  BY <1>2 DEF FakeInv, ThreadTypes, OutThreads
<1> QED
  BY <1>1, <1>3 DEF FakeInv, OutHolds

LEMMA OutOnlyKeeps ==
    ASSUME FakeInv, ThreadTypes', OutOnly, UNCHANGED <<inVars, fake, gpu>>
    PROVE  FakeInv'
<1>1. /\ UNCHANGED <<sem, iblock, osem, oblock, fake, gpu>> /\ out'.block_idx = out.block_idx
      /\ out'.pc \in {"modes", "dumpvolt", "idle", "write", "clear", "release"}
           => IsFilled(osem, out.block_idx)
  BY OutOnlyIs DEF inVars
<1>2. RingTypes' /\ SameData'
  BY <1>1 DEF FakeInv, RingTypes, SameData, IsFilled, gen_fake_data
<1>3. BlocksFollow'
  BY <1>1 DEF FakeInv, BlocksFollow, InRun, OutRun, Run
<1>4. FakeHasRoom' /\ OutHolds' /\ GpuHolds' /\ GpuHasRoom' /\ Copied'
  BY <1>1 DEF FakeInv, FakeHasRoom, OutHolds, GpuHolds, GpuHasRoom, Copied, IsFilled, IsFree
<1> QED
  BY <1>2, <1>3, <1>4 DEF FakeInv

LEMMA ClearBlockIs ==
    ASSUME FakeInv, Out!ClearBlock
    PROVE  /\ osem' = osem /\ out.pc = "clear" /\ out'.pc = "release"
           /\ out'.block_idx = out.block_idx /\ IsFilled(osem, out.block_idx)
           /\ oblock' \in [BlockIds(N_OUTPUT_BLOCKS) -> BlockValue]
           /\ AgreeElsewhere(out.block_idx, oblock, oblock', N_OUTPUT_BLOCKS)
<1>1. /\ osem' = osem /\ oblock' = [oblock EXCEPT ![out.block_idx] = Out!ZeroBlock]
      /\ out.pc = "clear" /\ out' = [out EXCEPT !.pc = "release"]
  BY DEF Out!ClearBlock, Out!At, Out!GoTo
<1>2. out'.pc = "release" /\ out'.block_idx = out.block_idx
  BY <1>1 DEF FakeInv, ThreadTypes, OutThreads
<1>3. oblock \in [BlockIds(N_OUTPUT_BLOCKS) -> BlockValue]
  BY DEF FakeInv, RingTypes
<1>4. IsFilled(osem, out.block_idx)
  BY <1>1 DEF FakeInv, OutHolds
<1> QED
  BY <1>1, <1>2, <1>3, <1>4, ZeroIsTyped DEF AgreeElsewhere

LEMMA ClearBlockKeeps ==
    ASSUME FakeInv, ThreadTypes', Out!ClearBlock, UNCHANGED <<inVars, fake, gpu>>
    PROVE  FakeInv'
<1>1. /\ UNCHANGED <<sem, iblock, osem, fake, gpu>> /\ out'.block_idx = out.block_idx
      /\ IsFilled(osem, out.block_idx)
      /\ oblock' \in [BlockIds(N_OUTPUT_BLOCKS) -> BlockValue]
      /\ AgreeElsewhere(out.block_idx, oblock, oblock', N_OUTPUT_BLOCKS)
  BY ClearBlockIs DEF inVars
<1>2. RingTypes' /\ SameData'
  BY <1>1 DEF FakeInv, RingTypes, SameData, IsFilled, gen_fake_data
<1>3. BlocksFollow'
  BY <1>1 DEF FakeInv, BlocksFollow, InRun, OutRun, Run
<1>4. FakeHasRoom' /\ OutHolds' /\ GpuHolds' /\ GpuHasRoom'
  BY <1>1 DEF FakeInv, FakeHasRoom, OutHolds, GpuHolds, GpuHasRoom, IsFilled, IsFree
<1>5. Copied'
  <2>1. gpu.pc \in {"data", "pass_on"} => gpu.curblock_out # out.block_idx
    BY <1>1 DEF FakeInv, GpuHasRoom, IsFilled, IsFree
  <2>2. gpu.pc \in {"data", "pass_on"} => oblock'[gpu.curblock_out] = oblock[gpu.curblock_out]
    BY <1>1, <2>1, BlockNumbers DEF AgreeElsewhere, FakeInv
  <2> QED
    BY <1>1, <2>2 DEF FakeInv, Copied
<1> QED
  BY <1>2, <1>3, <1>4, <1>5 DEF FakeInv

LEMMA ReleaseKeeps ==
    ASSUME FakeInv, ThreadTypes', Out!Release, UNCHANGED <<inVars, fake, gpu>>
    PROVE  FakeInv'
<1> DEFINE n == N_OUTPUT_BLOCKS
           first == out.block_idx
<1>1. /\ UNCHANGED <<sem, iblock, oblock, fake, gpu>> /\ osem' = SetFree(osem, first)
      /\ out.pc = "release"
      /\ out' = [out EXCEPT !.pc = "top", !.block_idx = NextBlock(first, n)]
  BY DEF Out!Release, Out!At, Out!SetFree, SetFree, Out!NextBlock, NextBlock, inVars
<1>2. out'.pc = "top" /\ out'.block_idx = NextBlock(first, n)
  BY <1>1 DEF FakeInv, ThreadTypes, OutThreads
<1>3. PICK len \in 0 .. n : OutRun(len)
  BY DEF FakeInv, BlocksFollow
<1>4. /\ n \in Nat \ {0} /\ first \in BlockIds(n) /\ osem \in Rings(n)
      /\ Run(osem, first, len, n) /\ osem[first] = "filled"
  BY <1>1, <1>3, FakeConstants, BlockNumbers
     DEF FakeInv, RingTypes, OutRun, OutHolds, IsFilled
<1>5. /\ len - 1 \in 0 .. n /\ SetFree(osem, first) \in Rings(n)
      /\ Run(SetFree(osem, first), NextBlock(first, n), len - 1, n)
      /\ (NextBlock(first, n) + (len - 1)) % n = (first + len) % n
  BY <1>4, FreeShortensRun
<1>6. RingTypes' /\ SameData'
  BY <1>1, <1>5 DEF FakeInv, RingTypes, SameData, IsFilled, gen_fake_data
<1>7. BlocksFollow'
  <2>1. OutRun(len - 1)'
    BY <1>1, <1>2, <1>3, <1>5 DEF OutRun, Run
  <2>2. \E k \in 0 .. N_INPUT_BLOCKS : InRun(k)'
    BY <1>1 DEF FakeInv, BlocksFollow, InRun, Run
  <2> QED
    BY <1>5, <2>1, <2>2 DEF BlocksFollow
<1>8. \A b \in BlockIds(n) : IsFree(osem, b) => IsFree(osem', b)
  BY <1>1, <1>4 DEF IsFree, SetFree, Rings
<1>9. FakeHasRoom' /\ OutHolds' /\ GpuHolds' /\ GpuHasRoom' /\ Copied'
  BY <1>1, <1>2, <1>8, BlockNumbers
     DEF FakeInv, FakeHasRoom, OutHolds, GpuHolds, GpuHasRoom, Copied, IsFilled
<1> QED
  BY <1>6, <1>7, <1>9 DEF FakeInv
-----------------------------------------------------------------------------
\* The steps of the threads, by what they do to the rings.
LEMMA GpuTurnIs ==
    ASSUME GpuTurn
    PROVE  GpuWaits \/ Gpu!CopyHeader \/ Gpu!CopyData \/ Gpu!PassOn \/ Gpu!GiveBack
  BY DEF GpuTurn, GpuWaits, Gpu!GpuStep

LEMMA OutTurnIs ==
    ASSUME OutTurn
    PROVE  OutOnly \/ Out!ClearBlock \/ Out!Release
  BY DEF OutTurn, OutOnly, Out!OutStep

LEMMA StepFakeInv == FakeInv /\ [Next]_fakeVars => FakeInv'
<1> SUFFICES ASSUME FakeInv, [Next]_fakeVars PROVE FakeInv'
  OBVIOUS
<1>1. ThreadTypes'
  BY StepThreadTypes DEF FakeInv
<1>2. CASE FakeTurn
  <2>1. UNCHANGED <<osem, oblock, gpu, outVars>> /\ (Writes \/ MarkFilled)
    BY <1>2, FakeWrites DEF FakeTurn
  <2> QED
    BY <1>1, <2>1, WritesKeeps, MarkFilledKeeps
<1>3. CASE GpuTurn
  <2>1. UNCHANGED <<iblock, fake, outVars>>
    BY <1>3 DEF GpuTurn
  <2> QED
    BY <1>1, <1>3, <2>1, GpuTurnIs, GpuWaitsKeeps, GpuCopyKeeps, PassOnKeeps, GiveBackKeeps
<1>4. CASE OutTurn
  <2>1. UNCHANGED <<inVars, fake, gpu>>
    BY <1>4 DEF OutTurn
  <2> QED
    BY <1>1, <1>4, <2>1, OutTurnIs, OutOnlyKeeps, ClearBlockKeeps, ReleaseKeeps
<1>5. CASE StopRequest \/ UNCHANGED fakeVars
  <2>1. UNCHANGED <<sem, iblock, osem, oblock, fake, gpu, out>>
    BY <1>5 DEF StopRequest, fakeVars, inVars, outVars
  <2> QED
    BY <1>1, <2>1 DEF FakeInv, RingTypes, BlocksFollow, InRun, OutRun, Run, FakeHasRoom,
          GpuHolds, GpuHasRoom, OutHolds, SameData, Copied, IsFilled, IsFree, gen_fake_data
<1> QED
  BY <1>2, <1>3, <1>4, <1>5, TurnsOfThreads

\* FakeInv is an invariant of the pipeline with the fake network thread.
THEOREM FakeInvariance == Spec => []FakeInv
<1> QED
  BY InitFakeInv, StepFakeInv, PTL DEF Spec
-----------------------------------------------------------------------------
(***************************************************************************)
(* The pipeline as a queue.  The blocks of the output ring come first.     *)
(***************************************************************************)
Front == FilledBlocks(osem, oblock, out.block_idx, N_OUTPUT_BLOCKS, out.pc = "release")
Back  == FilledBlocks(sem, iblock, gpu.curblock_in, N_INPUT_BLOCKS, gpu.pc = "give_back")

LEMMA FrontIs ==
    /\ Front = IF out.pc = "release"
                 THEN FilledBlocks(osem, oblock, out.block_idx, N_OUTPUT_BLOCKS, TRUE)
                 ELSE FilledBlocks(osem, oblock, out.block_idx, N_OUTPUT_BLOCKS, FALSE)
    /\ Front' = IF out'.pc = "release"
                  THEN FilledBlocks(osem', oblock', out'.block_idx, N_OUTPUT_BLOCKS, TRUE)
                  ELSE FilledBlocks(osem', oblock', out'.block_idx, N_OUTPUT_BLOCKS, FALSE)
  BY DEF Front, FilledBlocks

LEMMA BackIs ==
    /\ Back = IF gpu.pc = "give_back"
                THEN FilledBlocks(sem, iblock, gpu.curblock_in, N_INPUT_BLOCKS, TRUE)
                ELSE FilledBlocks(sem, iblock, gpu.curblock_in, N_INPUT_BLOCKS, FALSE)
    /\ Back' = IF gpu'.pc = "give_back"
                 THEN FilledBlocks(sem', iblock', gpu'.curblock_in, N_INPUT_BLOCKS, TRUE)
                 ELSE FilledBlocks(sem', iblock', gpu'.curblock_in, N_INPUT_BLOCKS, FALSE)
  BY DEF Back, FilledBlocks

\* A block that is passed on but not freed is in its ring.
LEMMA SkipsFilled ==
    ASSUME FakeInv
    PROVE  /\ \A len \in 0 .. N_INPUT_BLOCKS :
                 InRun(len) => Skip(gpu.pc = "give_back") <= len
           /\ \A len \in 0 .. N_OUTPUT_BLOCKS :
                 OutRun(len) => Skip(out.pc = "release") <= len
<1>1. ASSUME NEW len \in 0 .. N_INPUT_BLOCKS, InRun(len)
      PROVE  Skip(gpu.pc = "give_back") <= len
  <2>1. sem[gpu.curblock_in] = IF 0 < len THEN "filled" ELSE "free"
    BY <1>1, FakeConstants, BlockNumbers, FirstOfRun DEF InRun, FakeInv, RingTypes
  <2>2. gpu.pc = "give_back" => 0 < len
    BY <2>1 DEF FakeInv, GpuHolds, IsFilled
  <2> QED
    BY <2>2, SMT DEF Skip
<1>2. ASSUME NEW len \in 0 .. N_OUTPUT_BLOCKS, OutRun(len)
      PROVE  Skip(out.pc = "release") <= len
  <2>1. osem[out.block_idx] = IF 0 < len THEN "filled" ELSE "free"
    BY <1>2, FakeConstants, BlockNumbers, FirstOfRun DEF OutRun, FakeInv, RingTypes
  <2>2. out.pc = "release" => 0 < len
    BY <2>1 DEF FakeInv, OutHolds, IsFilled
  <2> QED
    BY <2>2, SMT DEF Skip
<1> QED
  BY <1>1, <1>2

LEMMA QueueIsTyped ==
    ASSUME FakeInv
    PROVE  /\ \A len \in 0 .. N_INPUT_BLOCKS :
                 InRun(len) => Back \in Seq(BlockValue) /\ Len(Back) <= len
           /\ \A len \in 0 .. N_OUTPUT_BLOCKS :
                 OutRun(len) => Front \in Seq(BlockValue) /\ Len(Front) <= len
<1>1. ASSUME NEW len \in 0 .. N_INPUT_BLOCKS, InRun(len)
      PROVE  Back \in Seq(BlockValue) /\ Len(Back) <= len
  <2> DEFINE passedOn == gpu.pc = "give_back"
             skip == Skip(passedOn)
  <2>1. skip <= len /\ skip \in 0 .. 1
    BY <1>1, SkipsFilled, SMT DEF Skip
  <2>2. Back = FilledBlocks(sem, iblock, gpu.curblock_in, N_INPUT_BLOCKS, passedOn)
    BY DEF Back
  <2> HIDE DEF passedOn
  <2>3. HoldsBlocks(FilledBlocks(sem, iblock, gpu.curblock_in, N_INPUT_BLOCKS, passedOn),
                    BlockValue, len - skip, iblock, gpu.curblock_in, skip, N_INPUT_BLOCKS)
    BY <1>1, <2>1, FakeConstants, BlockNumbers, FilledBlocksAre
       DEF InRun, FakeInv, RingTypes
  <2>4. Back \in Seq(BlockValue) /\ Len(Back) = len - skip
    BY <2>2, <2>3 DEF HoldsBlocks
  <2> HIDE DEF skip
  <2> QED
    BY <2>1, <2>4, SMT
<1>2. ASSUME NEW len \in 0 .. N_OUTPUT_BLOCKS, OutRun(len)
      PROVE  Front \in Seq(BlockValue) /\ Len(Front) <= len
  <2> DEFINE passedOn == out.pc = "release"
             skip == Skip(passedOn)
  <2>1. skip <= len /\ skip \in 0 .. 1
    BY <1>2, SkipsFilled, SMT DEF Skip
  <2>2. Front = FilledBlocks(osem, oblock, out.block_idx, N_OUTPUT_BLOCKS, passedOn)
    BY DEF Front
  <2> HIDE DEF passedOn
  <2>3. HoldsBlocks(FilledBlocks(osem, oblock, out.block_idx, N_OUTPUT_BLOCKS, passedOn),
                    BlockValue, len - skip, oblock, out.block_idx, skip, N_OUTPUT_BLOCKS)
    BY <1>2, <2>1, FakeConstants, BlockNumbers, FilledBlocksAre
       DEF OutRun, FakeInv, RingTypes
  <2>4. Front \in Seq(BlockValue) /\ Len(Front) = len - skip
    BY <2>2, <2>3 DEF HoldsBlocks
  <2> HIDE DEF skip
  <2> QED
    BY <2>1, <2>4, SMT
<1> QED
  BY <1>1, <1>2

\* A ring does not notice what is written to its free blocks.
LEMMA BackKeeps ==
    ASSUME FakeInv, Writes
    PROVE  FilledBlocks(sem, iblock', gpu.curblock_in, N_INPUT_BLOCKS, gpu.pc = "give_back") = Back
<1> DEFINE n == N_INPUT_BLOCKS
           first == gpu.curblock_in
           block == iblock
           new == iblock'
           passedOn == gpu.pc = "give_back"
<1>1. PICK len \in 0 .. n : InRun(len)
  BY DEF FakeInv, BlocksFollow
<1>2. Run(sem, first, len, n) /\ Skip(passedOn) <= len
  BY <1>1, SkipsFilled DEF InRun
<1>3. n \in Nat \ {0} /\ first \in BlockIds(n) /\ block \in [BlockIds(n) -> BlockValue]
  BY FakeConstants, BlockNumbers DEF FakeInv, RingTypes
<1>4. new \in [BlockIds(n) -> BlockValue] /\ AgreeOnFilled(sem, block, new, n)
  BY DEF Writes
<1>5. Back = FilledBlocks(sem, block, first, n, passedOn)
  BY DEF Back
<1> HIDE DEF n, first, block, new, passedOn
<1>6. FilledBlocks(sem, new, first, n, passedOn) = FilledBlocks(sem, block, first, n, passedOn)
  BY <1>2, <1>3, <1>4, FreeBlocksDoNotCount
<1> QED
  BY <1>5, <1>6 DEF n, first, new, passedOn

LEMMA FrontKeeps ==
    ASSUME FakeInv, Gpu!CopyHeader \/ Gpu!CopyData
    PROVE  FilledBlocks(osem, oblock', out.block_idx, N_OUTPUT_BLOCKS, out.pc = "release") = Front
<1> DEFINE n == N_OUTPUT_BLOCKS
           first == out.block_idx
           block == oblock
           new == oblock'
           passedOn == out.pc = "release"
<1>1. PICK len \in 0 .. n : OutRun(len)
  BY DEF FakeInv, BlocksFollow
<1>2. Run(osem, first, len, n) /\ Skip(passedOn) <= len
  BY <1>1, SkipsFilled DEF OutRun
<1>3. n \in Nat \ {0} /\ first \in BlockIds(n) /\ block \in [BlockIds(n) -> BlockValue]
  BY FakeConstants, BlockNumbers DEF FakeInv, RingTypes
<1>4. new \in [BlockIds(n) -> BlockValue] /\ AgreeOnFilled(osem, block, new, n)
  BY GpuCopyIs DEF AgreeElsewhere, AgreeOnFilled, IsFree, IsFilled
<1>5. Front = FilledBlocks(osem, block, first, n, passedOn)
  BY DEF Front
<1> HIDE DEF n, first, block, new, passedOn
<1>6. FilledBlocks(osem, new, first, n, passedOn) = FilledBlocks(osem, block, first, n, passedOn)
  BY <1>2, <1>3, <1>4, FreeBlocksDoNotCount
<1> QED
  BY <1>5, <1>6 DEF n, first, new, passedOn
-----------------------------------------------------------------------------
(***************************************************************************)
(* What the fake thread writes, the queue does not hold, or holds already. *)
(***************************************************************************)
LEMMA WritesIsStutter ==
    ASSUME FakeInv, Writes, UNCHANGED <<osem, oblock, gpu, outVars>>
    PROVE  InFlight' = InFlight
<1>1. Front' = Front
  BY DEF Front, outVars
<1>2. Back' = FilledBlocks(sem, iblock', gpu.curblock_in, N_INPUT_BLOCKS, gpu.pc = "give_back")
  BY DEF Writes, Back
<1>3. Back' = Back
  BY <1>2, BackKeeps
<1> QED
  BY <1>1, <1>3 DEF InFlight, Front, Back

LEMMA MarkFilledIsPut ==
    ASSUME FakeInv, MarkFilled, UNCHANGED <<osem, oblock, gpu, outVars>>
    PROVE  Queue!Put
<1> DEFINE n == N_INPUT_BLOCKS
           first == gpu.curblock_in
           passedOn == gpu.pc = "give_back"
           block == iblock
           b == fake.block_idx
<1>1. iblock' = iblock /\ Front' = Front
  BY DEF MarkFilled, Front, outVars
<1>2. PICK len \in 0 .. n :
         /\ len < n /\ InRun(len) /\ sem[b] = "free" /\ sem' = SetFilled(sem, b)
  BY MarkFilledIsNext
<1>3. /\ Back = FilledBlocks(sem, block, first, n, passedOn)
      /\ Back' = FilledBlocks(SetFilled(sem, b), block, first, n, passedOn)
  BY <1>1, <1>2 DEF Back
<1>4. /\ n \in Nat \ {0} /\ first \in BlockIds(n) /\ sem \in Rings(n)
      /\ block \in [BlockIds(n) -> BlockValue]
      /\ IsNext(b, sem, first, len, n) /\ Skip(passedOn) <= len
  BY <1>2, FakeConstants, BlockNumbers, SkipsFilled DEF FakeInv, RingTypes, InRun, IsNext
<1>5. AgreeOnFilled(sem, block, block, n)
  BY DEF AgreeOnFilled
<1>6. PICK olen \in 0 .. N_OUTPUT_BLOCKS : OutRun(olen)
  BY DEF FakeInv, BlocksFollow
<1>7. Front \in Seq(BlockValue) /\ Len(Front) <= olen /\ Len(Back) <= len
  BY <1>2, <1>6, QueueIsTyped
<1> HIDE DEF n, first, passedOn, block, b
<1>8. Appends(FilledBlocks(SetFilled(sem, b), block, first, n, passedOn),
              FilledBlocks(sem, block, first, n, passedOn), block[b], BlockValue)
  BY <1>4, <1>5, FillAppends, Zenon
<1>9. Back \in Seq(BlockValue) /\ block[b] \in BlockValue /\ Back' = Append(Back, block[b])
  BY <1>3, <1>8 DEF Appends
<1>10. InFlight = Front \o Back /\ InFlight' = Front' \o Back'
  BY DEF InFlight, Front, Back
<1>11. /\ InFlight \in Seq(BlockValue) /\ Len(InFlight) = Len(Front) + Len(Back)
       /\ Len(InFlight') = Len(InFlight) + 1
       /\ SubSeq(InFlight', 1, Len(InFlight)) = InFlight
  <2>1. GoesInBehind(Front, Back, block[b], BlockValue)
    BY <1>7, <1>9, PutAtBack, Zenon
  <2> QED
    BY <1>1, <1>9, <1>10, <2>1, Zenon DEF GoesInBehind
<1>12. Len(InFlight) < N_INPUT_BLOCKS + N_OUTPUT_BLOCKS
  <2>1. Len(Front) \in Nat /\ Len(Back) \in Nat
    BY <1>7, <1>9, LenProperties
  <2> QED
    BY <1>2, <1>7, <1>11, <2>1, FakeConstants, SMT DEF n
<1> QED
  BY <1>11, <1>12 DEF Queue!Put
-----------------------------------------------------------------------------
LEMMA GpuWaitsIsStutter ==
    ASSUME FakeInv, GpuWaits, UNCHANGED <<iblock, fake, outVars>>
    PROVE  InFlight' = InFlight
<1>1. /\ UNCHANGED <<sem, osem, oblock>>
      /\ \E label \in {"wait_in", "wait_out", "header", "exited"} :
             gpu' = [gpu EXCEPT !.pc = label]
      /\ gpu.pc # "give_back"
  BY DEF GpuWaits, Gpu!EnterLoop, Gpu!LeaveLoop, Gpu!WaitInput, Gpu!WaitOutput,
         Gpu!GpuWaitFails, Gpu!GoTo, Gpu!At
<1>2. gpu'.pc # "give_back" /\ gpu'.curblock_in = gpu.curblock_in
  BY <1>1 DEF FakeInv, ThreadTypes, GpuThreads
<1>3. Back' = Back /\ Front' = Front
  BY <1>1, <1>2, BackIs, FrontIs DEF outVars
<1> QED
  BY <1>3 DEF InFlight, Front, Back

LEMMA GpuCopyIsStutter ==
    ASSUME FakeInv, Gpu!CopyHeader \/ Gpu!CopyData, UNCHANGED <<iblock, fake, outVars>>
    PROVE  InFlight' = InFlight
<1>1. /\ UNCHANGED <<sem, osem>> /\ gpu'.curblock_in = gpu.curblock_in
      /\ gpu.pc # "give_back" /\ gpu'.pc # "give_back"
  BY GpuCopyIs
<1>2. Back' = Back
  BY <1>1, BackIs
<1>3. Front' = FilledBlocks(osem, oblock', out.block_idx, N_OUTPUT_BLOCKS, out.pc = "release")
  BY <1>1 DEF Front, outVars
<1>4. Front' = Front
  BY <1>3, FrontKeeps
<1> QED
  BY <1>2, <1>4 DEF InFlight, Front, Back

\* A block that is passed on leaves the input ring and enters the output ring.
LEMMA PassOnIsStutter ==
    ASSUME FakeInv, Gpu!PassOn, UNCHANGED <<iblock, fake, outVars>>
    PROVE  InFlight' = InFlight
<1> DEFINE n == N_OUTPUT_BLOCKS
           first == out.block_idx
           b == gpu.curblock_out
           in == N_INPUT_BLOCKS
           cin == gpu.curblock_in
           block == oblock
           inblock == iblock
           passedOn == out.pc = "release"
<1>1. UNCHANGED <<sem, oblock, iblock, out>> /\ gpu.pc = "pass_on"
  BY DEF Gpu!PassOn, Gpu!At, outVars
<1>2. PICK len \in 0 .. n : /\ OutRun(len) /\ osem[b] = "free" /\ osem' = SetFilled(osem, b)
                            /\ gpu'.curblock_in = cin /\ gpu'.pc = "give_back"
  BY PassesOnNext
<1>3. /\ Back = FilledBlocks(sem, inblock, cin, in, FALSE)
      /\ Back' = FilledBlocks(sem, inblock, cin, in, TRUE)
  BY <1>1, <1>2, BackIs
<1>4. PICK ilen \in 0 .. in : InRun(ilen)
  BY DEF FakeInv, BlocksFollow
<1>5. /\ Run(sem, cin, ilen, in) /\ sem[cin] = "filled" /\ in \in Nat \ {0}
      /\ cin \in BlockIds(in) /\ inblock \in [BlockIds(in) -> BlockValue]
  BY <1>1, <1>4, FakeConstants, BlockNumbers
     DEF InRun, FakeInv, RingTypes, GpuHolds, IsFilled
<1>6. 0 < ilen
  BY <1>5, FirstOfRun
<1>7. block[b] = inblock[cin]
  <2>1. oblock[b].header = iblock[cin].header /\ oblock[b].data = iblock[cin].data
    BY <1>1 DEF FakeInv, Copied
  <2>2. oblock[b] \in BlockValue /\ iblock[cin] \in BlockValue
    BY BlockNumbers DEF FakeInv, RingTypes
  <2> QED
    BY <2>1, <2>2 DEF BlockValue
<1>8. /\ Front = FilledBlocks(osem, block, first, n, passedOn)
      /\ Front' = FilledBlocks(SetFilled(osem, b), block, first, n, passedOn)
  BY <1>1, <1>2 DEF Front
<1>9. /\ n \in Nat \ {0} /\ first \in BlockIds(n) /\ osem \in Rings(n)
      /\ block \in [BlockIds(n) -> BlockValue]
      /\ IsNext(b, osem, first, len, n) /\ Skip(passedOn) <= len
  BY <1>2, FakeConstants, BlockNumbers, SkipsFilled DEF FakeInv, RingTypes, OutRun, IsNext
<1>10. AgreeOnFilled(osem, block, block, n)
  BY DEF AgreeOnFilled
<1> HIDE DEF n, first, b, in, cin, block, inblock, passedOn
<1>11. Takes(FilledBlocks(sem, inblock, cin, in, TRUE),
             FilledBlocks(sem, inblock, cin, in, FALSE), inblock[cin], BlockValue)
  BY <1>4, <1>5, <1>6, PassingOnTakes, ZenonT(60)
<1>12. Back \in Seq(BlockValue) /\ Back # << >> /\ Head(Back) = inblock[cin] /\ Back' = Tail(Back)
  BY <1>3, <1>11, Zenon DEF Takes
<1>13. Appends(FilledBlocks(SetFilled(osem, b), block, first, n, passedOn),
               FilledBlocks(osem, block, first, n, passedOn), block[b], BlockValue)
  BY <1>9, <1>10, FillAppends, Zenon
<1>14. Front \in Seq(BlockValue) /\ Front' = Append(Front, Head(Back))
  BY <1>7, <1>8, <1>12, <1>13 DEF Appends
<1>15. Front' \o Back' = Front \o Back
  BY <1>12, <1>14, PassBetween
<1> QED
  BY <1>15 DEF InFlight, Front, Back

LEMMA GiveBackIsStutter ==
    ASSUME FakeInv, Gpu!GiveBack, UNCHANGED <<iblock, fake, outVars>>
    PROVE  InFlight' = InFlight
<1> DEFINE n == N_INPUT_BLOCKS
           first == gpu.curblock_in
           block == iblock
<1>1. /\ UNCHANGED <<osem, oblock, out>> /\ sem' = SetFree(sem, first)
      /\ gpu.pc = "give_back"
      /\ gpu' = [gpu EXCEPT !.pc = "top", !.curblock_in = NextBlock(first, n)]
  BY DEF Gpu!GiveBack, Gpu!At, Gpu!SetFree, SetFree, Gpu!NextBlock, NextBlock, outVars
<1>2. gpu'.pc # "give_back" /\ gpu'.curblock_in = NextBlock(first, n)
  BY <1>1 DEF FakeInv, ThreadTypes, GpuThreads
<1>3. Front' = Front
  BY <1>1, FrontIs
<1>4. /\ Back = FilledBlocks(sem, block, first, n, TRUE)
      /\ Back' = FilledBlocks(SetFree(sem, first), block, NextBlock(first, n), n, FALSE)
  BY <1>1, <1>2, BackIs
<1>5. PICK len \in 0 .. n : InRun(len)
  BY DEF FakeInv, BlocksFollow
<1>6. /\ Run(sem, first, len, n) /\ sem[first] = "filled"
      /\ n \in Nat \ {0} /\ first \in BlockIds(n) /\ sem \in Rings(n)
      /\ block \in [BlockIds(n) -> BlockValue]
  BY <1>1, <1>5, FakeConstants, BlockNumbers DEF InRun, FakeInv, RingTypes, GpuHolds, IsFilled
<1> HIDE DEF n, first, block
<1>7. Back' = Back
  BY <1>4, <1>5, <1>6, FreeingKeeps
<1> QED
  BY <1>3, <1>7 DEF InFlight, Front, Back
-----------------------------------------------------------------------------
LEMMA OutOnlyIsStutter ==
    ASSUME FakeInv, OutOnly, UNCHANGED <<inVars, fake, gpu>>
    PROVE  InFlight' = InFlight
<1>1. Front' = Front
  BY OutOnlyIs, FrontIs
<1>2. Back' = Back
  BY BackIs DEF inVars
<1> QED
  BY <1>1, <1>2 DEF InFlight, Front, Back

\* A block is out of the queue when the output thread has cleared it.
LEMMA ClearBlockIsTake ==
    ASSUME FakeInv, Out!ClearBlock, UNCHANGED <<inVars, fake, gpu>>
    PROVE  Queue!Take
<1> DEFINE n == N_OUTPUT_BLOCKS
           first == out.block_idx
           block == oblock
           new == oblock'
<1>1. /\ osem' = osem /\ out.pc = "clear" /\ out'.pc = "release" /\ out'.block_idx = first
      /\ osem[first] = "filled"
  BY ClearBlockIs DEF IsFilled
<1>2. new \in [BlockIds(n) -> BlockValue] /\ AgreeElsewhere(first, block, new, n)
  BY ClearBlockIs
<1>3. Back' = Back
  BY BackIs DEF inVars
<1>4. /\ Front = FilledBlocks(osem, block, first, n, FALSE)
      /\ Front' = FilledBlocks(osem, new, first, n, TRUE)
  BY <1>1, FrontIs
<1>5. n \in Nat \ {0} /\ first \in BlockIds(n) /\ block \in [BlockIds(n) -> BlockValue]
  BY FakeConstants, BlockNumbers DEF FakeInv, RingTypes
<1>6. PICK len \in 0 .. n : OutRun(len)
  BY DEF FakeInv, BlocksFollow
<1>7. Run(osem, first, len, n) /\ 0 < len
  <2>1. Run(osem, first, len, n)
    BY <1>6 DEF OutRun
  <2> QED
    BY <1>1, <1>5, <2>1, FirstOfRun
<1>8. Back \in Seq(BlockValue)
  BY QueueIsTyped DEF FakeInv, BlocksFollow
<1> HIDE DEF n, first, block, new
<1>9. Takes(FilledBlocks(osem, block, first, n, TRUE),
            FilledBlocks(osem, block, first, n, FALSE), block[first], BlockValue)
  BY <1>5, <1>7, PassingOnTakes, ZenonT(60)
<1>10. FilledBlocks(osem, new, first, n, TRUE) = FilledBlocks(osem, block, first, n, TRUE)
  BY <1>2, <1>5, <1>7, PassedOnDoesNotCount, ZenonT(60)
<1>11. Front \in Seq(BlockValue) /\ Front # << >> /\ Front' = Tail(Front)
  BY <1>4, <1>9, <1>10, Zenon DEF Takes
<1>12. Front \o Back # << >> /\ Tail(Front) \o Back = Tail(Front \o Back)
  BY <1>8, <1>11, TakeFromFront
<1>13. InFlight = Front \o Back /\ InFlight' = Front' \o Back'
  BY DEF InFlight, Front, Back
<1>14. InFlight # << >> /\ InFlight' = Tail(InFlight)
  BY <1>3, <1>11, <1>12, <1>13
<1> QED
  BY <1>14 DEF Queue!Take

LEMMA ReleaseIsStutter ==
    ASSUME FakeInv, Out!Release, UNCHANGED <<inVars, fake, gpu>>
    PROVE  InFlight' = InFlight
<1> DEFINE n == N_OUTPUT_BLOCKS
           first == out.block_idx
           block == oblock
<1>1. /\ oblock' = oblock /\ osem' = SetFree(osem, first) /\ out.pc = "release"
      /\ out' = [out EXCEPT !.pc = "top", !.block_idx = NextBlock(first, n)]
  BY DEF Out!Release, Out!At, Out!SetFree, SetFree, Out!NextBlock, NextBlock
<1>2. out'.pc # "release" /\ out'.block_idx = NextBlock(first, n)
  BY <1>1 DEF FakeInv, ThreadTypes, OutThreads
<1>3. Back' = Back
  BY BackIs DEF inVars
<1>4. /\ Front = FilledBlocks(osem, block, first, n, TRUE)
      /\ Front' = FilledBlocks(SetFree(osem, first), block, NextBlock(first, n), n, FALSE)
  BY <1>1, <1>2, FrontIs
<1>5. PICK len \in 0 .. n : OutRun(len)
  BY DEF FakeInv, BlocksFollow
<1>6. /\ Run(osem, first, len, n) /\ osem[first] = "filled"
      /\ n \in Nat \ {0} /\ first \in BlockIds(n) /\ osem \in Rings(n)
      /\ block \in [BlockIds(n) -> BlockValue]
  BY <1>1, <1>5, FakeConstants, BlockNumbers
     DEF OutRun, FakeInv, RingTypes, OutHolds, IsFilled
<1> HIDE DEF n, first, block
<1>7. Front' = Front
  BY <1>4, <1>5, <1>6, FreeingKeeps
<1> QED
  BY <1>3, <1>7 DEF InFlight, Front, Back

LEMMA StepOfFakeQueue == FakeInv /\ [Next]_fakeVars => [Queue!QueueNext]_InFlight
<1> SUFFICES ASSUME FakeInv, [Next]_fakeVars
             PROVE  Queue!Put \/ Queue!Take \/ InFlight' = InFlight
  BY DEF Queue!QueueNext
<1>1. CASE FakeTurn
  <2>1. UNCHANGED <<osem, oblock, gpu, outVars>> /\ (Writes \/ MarkFilled)
    BY <1>1, FakeWrites DEF FakeTurn
  <2> QED
    BY <2>1, WritesIsStutter, MarkFilledIsPut
<1>2. CASE GpuTurn
  <2>1. UNCHANGED <<iblock, fake, outVars>>
    BY <1>2 DEF GpuTurn
  <2> QED
    BY <1>2, <2>1, GpuTurnIs, GpuWaitsIsStutter, GpuCopyIsStutter, PassOnIsStutter,
       GiveBackIsStutter
<1>3. CASE OutTurn
  <2>1. UNCHANGED <<inVars, fake, gpu>>
    BY <1>3 DEF OutTurn
  <2> QED
    BY <1>3, <2>1, OutTurnIs, OutOnlyIsStutter, ClearBlockIsTake, ReleaseIsStutter
<1>4. CASE StopRequest \/ UNCHANGED fakeVars
  BY <1>4 DEF StopRequest, fakeVars, inVars, outVars, InFlight
<1> QED
  BY <1>1, <1>2, <1>3, <1>4, TurnsOfThreads

LEMMA InitOfFakeQueue == Init => Queue!QueueInit
<1> SUFFICES ASSUME Init PROVE InFlight = << >>
  BY DEF Queue!QueueInit
<1>1. FakeInv
  BY InitFakeInv
<1>2. InRun(0) /\ OutRun(0) /\ 0 \in 0 .. N_INPUT_BLOCKS /\ 0 \in 0 .. N_OUTPUT_BLOCKS
  <2>1. /\ sem = DatabufCreate(N_INPUT_BLOCKS) /\ osem = DatabufCreate(N_OUTPUT_BLOCKS)
        /\ fake.block_idx = 0 /\ gpu.curblock_in = 0 /\ gpu.curblock_out = 0
        /\ out.block_idx = 0
    BY DEF Init, Gpu!InitGpu, Out!InitOutput
  <2>2. /\ (0 + 0) % N_INPUT_BLOCKS = 0 /\ (0 + 0) % N_OUTPUT_BLOCKS = 0
        /\ 0 \in 0 .. N_INPUT_BLOCKS /\ 0 \in 0 .. N_OUTPUT_BLOCKS
    BY FakeConstants, SMT
  <2> QED
    BY <2>1, <2>2, FakeConstants, EmptyRun DEF InRun, OutRun
<1>3. Back \in Seq(BlockValue) /\ Len(Back) <= 0 /\ Front \in Seq(BlockValue) /\ Len(Front) <= 0
  BY <1>1, <1>2, QueueIsTyped
<1>4. Back = << >> /\ Front = << >>
  <2>1. Len(Back) = 0 /\ Len(Front) = 0
    BY <1>3, LenProperties, SMT
  <2> QED
    BY <1>3, <2>1, EmptySeq
<1>5. Front \o Back = << >>
  BY <1>4, SMT
<1> QED
  BY <1>5 DEF InFlight, Front, Back

(***************************************************************************)
(* The rings are a bounded queue here too, up to a stop and after it: the  *)
(* data the fake thread writes into blocks that are in the queue is what   *)
(* they hold.                                                              *)
(***************************************************************************)
THEOREM FakePipelineIsAQueue == Spec => FakeImplementsQueue
<1> QED
  BY InitOfFakeQueue, FakeInvariance, StepOfFakeQueue, PTL
     DEF Spec, FakeImplementsQueue, Queue!QueueSafety
=============================================================================
