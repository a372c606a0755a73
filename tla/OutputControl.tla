---------------------------- MODULE OutputControl ----------------------------
(***************************************************************************)
(* What an operator's commands do.  The keys of the status buffer are      *)
(* shared by three parties: the operator sets them with                    *)
(* hashpipe_check_status, at any time; the output thread reads the modes,  *)
(* and writes IDLE and DUMPVOLT; the network thread looks at DUMPVOLT when *)
(* it has completed a block, takes the request back and dumps the input    *)
(* ring (s6_pktsock_thread.cpp).                                           *)
(*                                                                         *)
(* The threads before the output ring are left out: blocks come, one after *)
(* the other, whenever one is free.  Getting and putting one key is taken  *)
(* as one step, with or without the lock.                                  *)
(***************************************************************************)
EXTENDS Databuf

CONSTANTS
    N_OUTPUT_BLOCKS,
    MaxCommands        \* bound on the operator's commands

ASSUME ControlAssumption == N_OUTPUT_BLOCKS \in Nat \ {0} /\ MaxCommands \in Nat

VARIABLES
    osem, oblock, out, keys, faststatus, file,  \* as in OutputThread
    next,      \* the output block the GPU thread fills next
    net,       \* the network thread: pc, dumpbool, and whether the last dump was written
    commands,  \* commands given
    asked,     \* ... of them, requests for a dump
    pending,   \* a request was made and neither taken nor withdrawn
    taken,     \* requests the network thread took, up to MaxCommands + 1
    decided    \* decisions to write or not since the last command, up to 2

outVars     == <<out, keys, faststatus, file>>
netVars     == <<net, taken, pending>>
controlVars == <<osem, oblock, outVars, next, netVars, commands, asked, decided>>

Out == INSTANCE OutputThread WITH running <- TRUE
-----------------------------------------------------------------------------
\* As s6_init_fast.sh starts it; TESTMODE is not set yet, so that the thread
\* is in test mode of itself.
Init ==
    /\ osem = DatabufCreate(N_OUTPUT_BLOCKS)
    /\ oblock = [b \in BlockIds(N_OUTPUT_BLOCKS) |-> Out!ZeroBlock]
    /\ Out!InitOutput
    /\ keys = [RUNALWYS |-> 1, TESTMODE |-> 1, IDLE |-> 0, DUMPVOLT |-> 0]
    /\ next = 0
    /\ net = [pc |-> "recv", dumpbool |-> 0, written |-> FALSE]
    /\ commands = 0 /\ asked = 0 /\ taken = 0 /\ decided = 0
    /\ pending = FALSE

\* hashpipe_check_status -k <key> -s <value>
Command(key, value) ==
    /\ commands < MaxCommands
    /\ keys' = [keys EXCEPT ![key] = value]
    /\ commands' = commands + 1
    /\ asked' = IF key = "DUMPVOLT" THEN asked + value ELSE asked
    /\ pending' = IF key = "DUMPVOLT" THEN value = 1 ELSE pending
    /\ decided' = 0
    /\ UNCHANGED <<osem, oblock, out, faststatus, file, next, net, taken>>

\* The GPU thread fills the next block.
FillBlock ==
    /\ IsFree(osem, next)
    /\ oblock' = [oblock EXCEPT ![next].data = {1}]
    /\ osem' = SetFilled(osem, next)
    /\ next' = NextBlock(next, N_OUTPUT_BLOCKS)
    /\ UNCHANGED <<outVars, netVars, commands, asked, decided>>

OutMove ==
    /\ Out!OutStep
    /\ decided' = IF out.pc = "write" /\ decided < 2 THEN decided + 1 ELSE decided
    /\ UNCHANGED <<next, netVars, commands, asked>>

\* With a block completed, the status is updated under the lock.
CompleteBlock ==
    /\ net.pc = "recv"
    /\ net' = [net EXCEPT !.pc = IF keys.DUMPVOLT # 0 THEN "reset" ELSE "recv",
                          !.dumpbool = keys.DUMPVOLT]
    /\ UNCHANGED <<keys, taken, pending>>

\* The thread goes on to the dump.
Take ==
    /\ net' = [net EXCEPT !.pc = "open", !.written = FALSE]
    /\ taken' = IF taken <= MaxCommands THEN taken + 1 ELSE taken
    /\ pending' = FALSE

DumpWithoutReset ==
    /\ net.pc = "reset"
    /\ Take
    /\ UNCHANGED keys

\* "reset so we only do it once", with the lock taken anew.
ResetRequest ==
    /\ net.pc = "reset"
    /\ keys' = [keys EXCEPT !.DUMPVOLT = 0]
    /\ Take

\* open(voltage_filename, O_RDWR, O_CREAT|O_WRONLY): the third argument is
\* the mode of a file that is created, and the flags do not create one.
OpenFlags == {"O_RDWR"}

\* The name has the host and the time in it; nothing here makes such a file
\* beforehand, but there may be one.
OpenVoltageFile ==
    /\ net.pc = "open"
    /\ \E exists \in BOOLEAN :
         net' = [net EXCEPT !.pc = IF exists \/ "O_CREAT" \in OpenFlags THEN "write" ELSE "close"]
    /\ UNCHANGED <<keys, taken, pending>>

WriteRing ==
    /\ net.pc = "write"
    /\ net' = [net EXCEPT !.pc = "close", !.written = TRUE]
    /\ UNCHANGED <<keys, taken, pending>>

CloseFile ==
    /\ net.pc = "close"
    /\ net' = [net EXCEPT !.pc = "recv"]
    /\ UNCHANGED <<keys, taken, pending>>

NetStep == ResetRequest \/ OpenVoltageFile \/ WriteRing \/ CloseFile

NetMove ==
    /\ CompleteBlock \/ NetStep
    /\ UNCHANGED <<osem, oblock, out, faststatus, file, next, commands, asked, decided>>

Next ==
    \/ \E key \in {"RUNALWYS", "TESTMODE", "IDLE", "DUMPVOLT"}, value \in 0 .. 1 :
         Command(key, value)
    \/ FillBlock \/ OutMove \/ NetMove

\* Blocks keep coming, and the two threads take the steps they can take.
Fairness == WF_controlVars(FillBlock) /\ WF_controlVars(OutMove) /\ WF_controlVars(NetMove)

Spec == Init /\ [][Next]_controlVars /\ Fairness
-----------------------------------------------------------------------------
(***************************************************************************)
(* A command to write, or not to write, holds from the second block on at  *)
(* the latest: the copy of RUNALWYS that was read before the wait for a    *)
(* block decides on one block only.                                        *)
(***************************************************************************)
ModesHoldAfterOneBlock ==
    out.pc = "write" /\ decided >= 1 =>
        (Out!Writes <=> keys.TESTMODE = 1 \/ keys.RUNALWYS = 1)

(***************************************************************************)
(* One request, one dump at most ("reset so we only do it once"), whatever *)
(* the operator and the output thread do to the key meanwhile, unless the  *)
(* observatory status, which is not initialised, asks for a dump itself.   *)
(***************************************************************************)
DumpsOnlyOnRequest == faststatus = 0 => [](taken <= asked)

(***************************************************************************)
(* In test mode, where the output thread leaves the key alone, a request   *)
(* is taken by the network thread unless the operator takes it back.       *)
(***************************************************************************)
InTestMode == keys.TESTMODE = 1 /\ out.testmode = 1

RequestIsServed == []InTestMode => (pending ~> ~pending)

(***************************************************************************)
(* "dump all raw voltages (the input buffer) to file": when the network    *)
(* thread goes on after a request, the file is there.                      *)
(***************************************************************************)
DumpIsMade == net.pc = "close" => net.written
=============================================================================
