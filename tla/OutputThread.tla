--------------------------- MODULE OutputThread ---------------------------
(***************************************************************************)
(* The last thread of the pipeline, s6_output_thread.cpp.  It takes the    *)
(* blocks of the output ring in turn, writes the data of each to a file if *)
(* testmode or run_always says so, clears the block and frees it.          *)
(*                                                                         *)
(* The modes come from the status buffer, where an operator sets them.     *)
(* RUNALWYS is read under the lock and before the wait for the block, the  *)
(* others without the lock and after it.  The thread writes two of the     *)
(* keys back: IDLE, and DUMPVOLT from an observatory status that nothing   *)
(* fetches any more.                                                       *)
(*                                                                         *)
(* The module has the thread's steps only; Pipeline composes it.  Left     *)
(* out: the keys the thread reports by, and the file-change events, which  *)
(* set fields that write_to_file does not look at.                         *)
(***************************************************************************)
EXTENDS Databuf

CONSTANT N_OUTPUT_BLOCKS

VARIABLES
    osem,        \* semaphores of the output ring
    oblock,      \* its blocks: [header, data]
    keys,        \* the modes in the status buffer
    faststatus,  \* the DUMPVOLT field of the thread's observatory status
    file,        \* the data in test.dat
    out,         \* the thread: pc, block_idx, and its copies of the modes
    running      \* run_threads(): no stop has been requested

Keys == [RUNALWYS : 0 .. 1, TESTMODE : 0 .. 1, IDLE : 0 .. 1, DUMPVOLT : 0 .. 1]

ZeroBlock == [header |-> [mcnt |-> 0, sid |-> 0, time |-> 0, missed_pkts |-> 0], data |-> {}]

\* The observatory status is not initialised.
InitOutput ==
    /\ out = [pc |-> "top", block_idx |-> 0, run_always |-> 0, testmode |-> 1, idle |-> 0]
    /\ faststatus \in 0 .. 1
    /\ file = {}

At(label) == out.pc = label
GoTo(label) == out' = [out EXCEPT !.pc = label]

ReadRunAlwaysWaits ==
    /\ At("top") /\ running
    /\ keys.RUNALWYS = 1
    /\ out' = [out EXCEPT !.pc = "wait", !.run_always = keys.RUNALWYS]
    /\ UNCHANGED <<osem, oblock, keys, faststatus, file>>

ReadRunAlwaysOnce ==
    /\ At("top") /\ running
    /\ out' = [out EXCEPT !.pc = "wait", !.run_always = IF @ = 1 THEN 1 ELSE keys.RUNALWYS]
    /\ UNCHANGED <<osem, oblock, keys, faststatus, file>>

ReadRunAlways ==
    /\ At("top") /\ running
    /\ out' = [out EXCEPT !.pc = "wait", !.run_always = keys.RUNALWYS]
    /\ UNCHANGED <<osem, oblock, keys, faststatus, file>>

\* A stop request is noticed between two blocks only.
LeaveLoop ==
    /\ At("top") /\ ~running
    /\ GoTo("exited")
    /\ UNCHANGED <<osem, oblock, keys, faststatus, file>>

WaitFilledTimesOut ==
    /\ At("wait")
    /\ GoTo("modes")
    /\ UNCHANGED <<osem, oblock, keys, faststatus, file>>

WaitFilled ==
    /\ At("wait")
    /\ IsFilled(osem, out.block_idx)
    /\ GoTo("modes")
    /\ UNCHANGED <<osem, oblock, keys, faststatus, file>>

ReadModes ==
    /\ At("modes")
    /\ out' = [out EXCEPT !.pc = "dumpvolt", !.idle = keys.IDLE, !.testmode = keys.TESTMODE]
    /\ UNCHANGED <<osem, oblock, keys, faststatus, file>>

PutDumpVoltAlways ==
    /\ At("dumpvolt")
    /\ keys' = [keys EXCEPT !.DUMPVOLT = faststatus]
    /\ faststatus' = IF out.testmode = 1 THEN 0 ELSE faststatus
    /\ GoTo("idle")
    /\ UNCHANGED <<osem, oblock, file>>

\* In test mode the observatory status is zeroed, otherwise it is believed.
PutDumpVolt ==
    /\ At("dumpvolt")
    /\ \/ out.testmode = 0 /\ keys' = [keys EXCEPT !.DUMPVOLT = faststatus] /\ UNCHANGED faststatus
       \/ out.testmode = 1 /\ faststatus' = 0 /\ UNCHANGED keys
    /\ GoTo("idle")
    /\ UNCHANGED <<osem, oblock, file>>

\* No condition sets idle_flag in this build: idle is cleared whatever it was.
PutIdle ==
    /\ At("idle")
    /\ keys' = [keys EXCEPT !.IDLE = 0]
    /\ out' = [out EXCEPT !.pc = "write", !.idle = 0]
    /\ UNCHANGED <<osem, oblock, faststatus, file>>

Writes == out.testmode = 1 \/ out.run_always = 1

\* The file is opened anew, and cut, for each block.
WriteBlock ==
    /\ At("write")
    /\ file' = IF Writes THEN oblock[out.block_idx].data ELSE file
    /\ GoTo("clear")
    /\ UNCHANGED <<osem, oblock, keys, faststatus>>

\* The file cannot be opened: the thread ends and keeps the block.
WriteFails ==
    /\ At("write")
    /\ Writes
    /\ GoTo("exited")
    /\ UNCHANGED <<osem, oblock, keys, faststatus, file>>

ClearBlock ==
    /\ At("clear")
    /\ oblock' = [oblock EXCEPT ![out.block_idx] = ZeroBlock]
    /\ GoTo("release")
    /\ UNCHANGED <<osem, keys, faststatus, file>>

ReleaseUnfreed ==
    /\ At("release")
    /\ out' = [out EXCEPT !.pc = "top", !.block_idx = NextBlock(@, N_OUTPUT_BLOCKS)]
    /\ UNCHANGED <<osem, oblock, keys, faststatus, file>>

Release ==
    /\ At("release")
    /\ osem' = SetFree(osem, out.block_idx)
    /\ out' = [out EXCEPT !.pc = "top", !.block_idx = NextBlock(@, N_OUTPUT_BLOCKS)]
    /\ UNCHANGED <<oblock, keys, faststatus, file>>

OutWaitFails ==
    /\ At("wait")
    /\ GoTo("exited")
    /\ UNCHANGED <<osem, oblock, keys, faststatus, file>>

OutStep ==
    \/ ReadRunAlways \/ LeaveLoop \/ WaitFilled \/ ReadModes \/ PutDumpVolt \/ PutIdle
    \/ WriteBlock \/ ClearBlock \/ Release

OutTypeOK ==
    /\ keys \in Keys /\ faststatus \in 0 .. 1
    /\ out \in [pc : {"top", "wait", "modes", "dumpvolt", "idle", "write", "clear", "release",
                      "exited"},
                block_idx : BlockIds(N_OUTPUT_BLOCKS),
                run_always : 0 .. 1, testmode : 0 .. 1, idle : 0 .. 1]
=============================================================================
