------------------------ MODULE OutputControlProofs ------------------------
(***************************************************************************)
(* What an operator's commands do, for every ring and every number of      *)
(* commands.                                                               *)
(***************************************************************************)
EXTENDS OutputControl, TLAPS

OutPcs == {"top", "wait", "modes", "dumpvolt", "idle", "write", "clear", "release", "exited"}

OutRec == [pc : OutPcs, block_idx : BlockIds(N_OUTPUT_BLOCKS),
           run_always : 0 .. 1, testmode : 0 .. 1, idle : 0 .. 1]

NetRec == [pc : {"recv", "reset", "open", "write", "close"}, dumpbool : 0 .. 1, written : BOOLEAN]

\* The variables that decide when a command takes effect.
ModesTypeOK ==
    /\ keys \in Out!Keys /\ faststatus \in 0 .. 1
    /\ out \in OutRec
    /\ decided \in 0 .. 2
    /\ net \in NetRec

(***************************************************************************)
(* A decision was taken since the last command: a copy of a mode that is   *)
(* still to be used was read after that command.                           *)
(***************************************************************************)
CopiesAreCurrent ==
    decided >= 1 =>
        /\ out.pc \in {"wait", "modes", "dumpvolt", "idle", "write"} =>
               out.run_always = keys.RUNALWYS
        /\ out.pc \in {"dumpvolt", "idle", "write"} => out.testmode = keys.TESTMODE

ModesInv == ModesTypeOK /\ CopiesAreCurrent

LEMMA NextBlockInRing ==
    ASSUME NEW b \in BlockIds(N_OUTPUT_BLOCKS)
    PROVE  NextBlock(b, N_OUTPUT_BLOCKS) \in BlockIds(N_OUTPUT_BLOCKS)
  BY ControlAssumption, SMT DEF BlockIds, NextBlock

LEMMA InitModes == Init => ModesInv
<1> SUFFICES ASSUME Init PROVE ModesInv
  OBVIOUS
<1>1. 0 \in BlockIds(N_OUTPUT_BLOCKS)
  BY ControlAssumption, SMT DEF BlockIds
<1>2. /\ out = [pc |-> "top", block_idx |-> 0, run_always |-> 0, testmode |-> 1, idle |-> 0]
      /\ faststatus \in 0 .. 1 /\ decided = 0
      /\ keys = [RUNALWYS |-> 1, TESTMODE |-> 1, IDLE |-> 0, DUMPVOLT |-> 0]
      /\ net = [pc |-> "recv", dumpbool |-> 0, written |-> FALSE]
  BY DEF Init, Out!InitOutput
<1>3. ModesTypeOK
  BY <1>1, <1>2, SMT DEF ModesTypeOK, OutRec, OutPcs, NetRec, Out!Keys
<1> QED
  BY <1>2, <1>3, SMT DEF ModesInv, CopiesAreCurrent

LEMMA CommandModes ==
    ASSUME ModesInv, NEW key \in {"RUNALWYS", "TESTMODE", "IDLE", "DUMPVOLT"}, NEW value \in 0 .. 1,
           Command(key, value)
    PROVE  ModesInv'
<1>1. keys' \in Out!Keys
  BY DEF ModesInv, ModesTypeOK, Command, Out!Keys
<1> QED
  BY <1>1, SMT DEF ModesInv, ModesTypeOK, CopiesAreCurrent, Command

LEMMA OutModes == ASSUME ModesInv, OutMove PROVE ModesInv'
<1>1. decided' = IF out.pc = "write" /\ decided < 2 THEN decided + 1 ELSE decided
  BY DEF OutMove
<1>2. /\ out \in OutRec /\ keys \in Out!Keys /\ faststatus \in 0 .. 1 /\ decided \in 0 .. 2
      /\ CopiesAreCurrent
  BY DEF ModesInv, ModesTypeOK
<1>3. decided' \in 0 .. 2 /\ (out.pc # "write" => decided' = decided)
  BY <1>1, <1>2, SMT
<1>4. /\ UNCHANGED net
      /\ net \in NetRec
  BY DEF OutMove, netVars, ModesInv, ModesTypeOK
<1>5. CASE Out!ReadRunAlways
  <2>1. /\ out' \in OutRec /\ out'.pc = "wait" /\ out'.run_always = keys.RUNALWYS
        /\ UNCHANGED <<keys, faststatus>>
    BY <1>2, <1>5 DEF Out!ReadRunAlways, Out!At, OutRec, OutPcs, Out!Keys
  <2> QED
    BY <1>2, <1>3, <1>4, <2>1 DEF ModesInv, ModesTypeOK, CopiesAreCurrent
<1>6. CASE Out!LeaveLoop \/ Out!WaitFilled
  <2>1. /\ out' \in OutRec /\ out'.run_always = out.run_always /\ out'.testmode = out.testmode
        /\ out.pc = "wait" /\ out'.pc = "modes"
        /\ UNCHANGED <<keys, faststatus>>
    BY <1>2, <1>6 DEF Out!LeaveLoop, Out!WaitFilled, Out!At, Out!GoTo, OutRec, OutPcs
  <2> QED
    BY <1>2, <1>3, <1>4, <2>1 DEF ModesInv, ModesTypeOK, CopiesAreCurrent
<1>7. CASE Out!ReadModes
  <2>1. /\ out' \in OutRec /\ out'.run_always = out.run_always /\ out'.testmode = keys.TESTMODE
        /\ out.pc = "modes" /\ out'.pc = "dumpvolt"
        /\ UNCHANGED <<keys, faststatus>>
    BY <1>2, <1>7 DEF Out!ReadModes, Out!At, OutRec, OutPcs, Out!Keys
  <2> QED
    BY <1>2, <1>3, <1>4, <2>1 DEF ModesInv, ModesTypeOK, CopiesAreCurrent
<1>8. CASE Out!PutDumpVolt \/ Out!PutIdle
  <2>1. CASE Out!PutDumpVolt
    <3>1. /\ out' \in OutRec /\ out'.run_always = out.run_always /\ out'.testmode = out.testmode
          /\ out.pc = "dumpvolt" /\ out'.pc = "idle"
      BY <1>2, <2>1 DEF Out!PutDumpVolt, Out!At, Out!GoTo, OutRec, OutPcs
    <3>2. /\ keys' \in Out!Keys /\ faststatus' \in 0 .. 1
          /\ keys'.RUNALWYS = keys.RUNALWYS /\ keys'.TESTMODE = keys.TESTMODE
      BY <1>2, <2>1 DEF Out!PutDumpVolt, Out!Keys
    <3> QED
      BY <1>2, <1>3, <1>4, <3>1, <3>2 DEF ModesInv, ModesTypeOK, CopiesAreCurrent
  <2>2. CASE Out!PutIdle
    <3>1. /\ out' \in OutRec /\ out'.run_always = out.run_always /\ out'.testmode = out.testmode
          /\ out.pc = "idle" /\ out'.pc = "write"
      BY <1>2, <2>2, 0 \in 0 .. 1 DEF Out!PutIdle, Out!At, OutRec, OutPcs
    <3>2. /\ keys' \in Out!Keys /\ UNCHANGED faststatus
          /\ keys'.RUNALWYS = keys.RUNALWYS /\ keys'.TESTMODE = keys.TESTMODE
      BY <1>2, <2>2 DEF Out!PutIdle, Out!Keys
    <3> QED
      BY <1>2, <1>3, <1>4, <3>1, <3>2 DEF ModesInv, ModesTypeOK, CopiesAreCurrent
  <2> QED
    BY <1>8, <2>1, <2>2
<1>9. CASE Out!WriteBlock \/ Out!ClearBlock \/ Out!Release
  <2>1. out' \in OutRec /\ out'.pc \in {"clear", "release", "top"}
    BY <1>2, <1>9, NextBlockInRing
       DEF Out!WriteBlock, Out!ClearBlock, Out!Release, Out!At, Out!GoTo, OutRec, OutPcs,
           NextBlock, BlockIds, Out!NextBlock, Out!BlockIds
  <2>2. UNCHANGED <<keys, faststatus>>
    BY <1>9 DEF Out!WriteBlock, Out!ClearBlock, Out!Release
  <2> QED
    BY <1>2, <1>3, <1>4, <2>1, <2>2 DEF ModesInv, ModesTypeOK, CopiesAreCurrent
<1> QED
  BY <1>5, <1>6, <1>7, <1>8, <1>9 DEF OutMove, Out!OutStep

\* The network thread touches DUMPVOLT only.
LEMMA NetModes == ASSUME ModesInv, NetMove PROVE ModesInv'
<1>1. keys \in Out!Keys /\ net \in NetRec
  BY DEF ModesInv, ModesTypeOK
<1>2. keys' \in Out!Keys /\ keys'.RUNALWYS = keys.RUNALWYS /\ keys'.TESTMODE = keys.TESTMODE
  BY <1>1, 0 \in 0 .. 1
     DEF NetMove, NetStep, CompleteBlock, ResetRequest, OpenVoltageFile, Take, WriteRing, CloseFile,
         Out!Keys
<1>3. net' \in NetRec
  <2>1. CASE CompleteBlock
    <3>1. keys.DUMPVOLT \in 0 .. 1
      BY <1>1 DEF Out!Keys
    <3> QED
      BY <1>1, <2>1, <3>1 DEF CompleteBlock, NetRec
  <2>2. CASE NetStep
    BY <1>1, <2>2 DEF NetStep, ResetRequest, Take, OpenVoltageFile, WriteRing, CloseFile, NetRec
  <2> QED
    BY <2>1, <2>2 DEF NetMove
<1>4. UNCHANGED <<out, faststatus, decided>>
  BY DEF NetMove
<1> QED
  BY <1>2, <1>3, <1>4 DEF ModesInv, ModesTypeOK, CopiesAreCurrent

LEMMA StepModes == ModesInv /\ [Next]_controlVars => ModesInv'
<1> SUFFICES ASSUME ModesInv, [Next]_controlVars PROVE ModesInv'
  OBVIOUS
<1>1. CASE FillBlock \/ UNCHANGED controlVars
  <2>1. UNCHANGED <<out, keys, faststatus, decided, net>>
    BY <1>1 DEF FillBlock, outVars, netVars, controlVars
  <2> QED
    BY <2>1 DEF ModesInv, ModesTypeOK, CopiesAreCurrent
<1> QED
  BY <1>1, CommandModes, OutModes, NetModes DEF Next

(***************************************************************************)
(* A command to write, or not to write, holds from the second block on at  *)
(* the latest, whenever it is given: the output thread reads RUNALWYS      *)
(* before its wait for a block, TESTMODE after it, and every copy older    *)
(* than the command has been used up by then.                              *)
(***************************************************************************)
THEOREM ModesHold == Spec => []ModesHoldAfterOneBlock
<1>1. ModesInv => ModesHoldAfterOneBlock
  BY DEF ModesInv, ModesTypeOK, CopiesAreCurrent, ModesHoldAfterOneBlock, Out!Writes
<1> QED
  BY <1>1, InitModes, StepModes, PTL DEF Spec
-----------------------------------------------------------------------------
(***************************************************************************)
(* Every dump is owed to a request of its own: a request that is in the    *)
(* key, or on its way from the key to the reset, is not yet taken.  The    *)
(* output thread, with a zero observatory status, makes no request.        *)
(***************************************************************************)
Owed == IF net.pc = "reset" \/ keys.DUMPVOLT = 1 THEN 1 ELSE 0

RequestsInv ==
    /\ asked \in Nat /\ taken \in Nat
    /\ faststatus = 0
    /\ taken + Owed <= asked

LEMMA InitRequests == Init /\ faststatus = 0 => RequestsInv
  BY SMT DEF Init, RequestsInv, Owed

LEMMA CommandRequests ==
    ASSUME ModesInv, RequestsInv, NEW key \in {"RUNALWYS", "TESTMODE", "IDLE", "DUMPVOLT"},
           NEW value \in 0 .. 1, Command(key, value)
    PROVE  RequestsInv'
<1>1. UNCHANGED <<faststatus, net, taken>>
  BY DEF Command
<1>2. CASE key = "DUMPVOLT"
  <2>1. keys'.DUMPVOLT = value /\ asked' = asked + value
    BY <1>2 DEF Command, ModesInv, ModesTypeOK, Out!Keys
  <2> QED
    BY <1>1, <2>1, SMT DEF RequestsInv, Owed
<1>3. CASE key # "DUMPVOLT"
  <2>1. keys'.DUMPVOLT = keys.DUMPVOLT /\ asked' = asked
    BY <1>3 DEF Command, ModesInv, ModesTypeOK, Out!Keys
  <2> QED
    BY <1>1, <2>1 DEF RequestsInv, Owed
<1> QED
  BY <1>2, <1>3

LEMMA OutRequests == ASSUME ModesInv, RequestsInv, OutMove PROVE RequestsInv'
<1>1. UNCHANGED <<net, taken, asked>>
  BY DEF OutMove, netVars
<1>2. faststatus' = 0 /\ (keys'.DUMPVOLT = keys.DUMPVOLT \/ keys'.DUMPVOLT = 0)
  BY DEF ModesInv, ModesTypeOK, RequestsInv, OutMove, Out!OutStep, Out!ReadRunAlways,
         Out!LeaveLoop, Out!WaitFilled, Out!ReadModes, Out!PutDumpVolt, Out!PutIdle,
         Out!WriteBlock, Out!ClearBlock, Out!Release, Out!Keys
<1> QED
  BY <1>1, <1>2, SMT DEF RequestsInv, Owed

LEMMA NetRequests == ASSUME ModesInv, RequestsInv, NetMove PROVE RequestsInv'
<1>1. UNCHANGED <<faststatus, asked>>
  BY DEF NetMove
<1>2. keys.DUMPVOLT \in 0 .. 1
  BY DEF ModesInv, ModesTypeOK, Out!Keys
<1>3. CASE CompleteBlock
  <2>1. UNCHANGED <<keys, taken>> /\ (net'.pc = "reset" => keys.DUMPVOLT = 1)
    BY <1>2, <1>3, SMT DEF CompleteBlock, ModesInv, ModesTypeOK, NetRec
  <2> QED
    BY <1>1, <2>1 DEF RequestsInv, Owed
<1>4. CASE ResetRequest
  <2>1. net.pc = "reset" /\ net'.pc = "open" /\ keys'.DUMPVOLT = 0
    BY <1>4 DEF ResetRequest, Take, ModesInv, ModesTypeOK, NetRec, Out!Keys
  <2>2. taken' = taken + 1 \/ taken' = taken
    BY <1>4 DEF ResetRequest, Take
  <2> QED
    BY <1>1, <2>1, <2>2, SMT DEF RequestsInv, Owed
<1>5. CASE OpenVoltageFile \/ WriteRing \/ CloseFile
  <2>1. UNCHANGED <<keys, taken>> /\ net'.pc # "reset"
    BY <1>5 DEF OpenVoltageFile, WriteRing, CloseFile, ModesInv, ModesTypeOK, NetRec
  <2> QED
    BY <1>1, <2>1, SMT DEF RequestsInv, Owed
<1> QED
  BY <1>3, <1>4, <1>5 DEF NetMove, NetStep

LEMMA StepRequests == ModesInv /\ RequestsInv /\ [Next]_controlVars => RequestsInv'
<1> SUFFICES ASSUME ModesInv, RequestsInv, [Next]_controlVars PROVE RequestsInv'
  OBVIOUS
<1>1. CASE FillBlock \/ UNCHANGED controlVars
  <2>1. UNCHANGED <<keys, faststatus, net, taken, asked>>
    BY <1>1 DEF FillBlock, outVars, netVars, controlVars
  <2> QED
    BY <2>1 DEF RequestsInv, Owed
<1> QED
  BY <1>1, CommandRequests, OutRequests, NetRequests DEF Next

(***************************************************************************)
(* There are never more dumps than requests: the network thread reads      *)
(* DUMPVOLT and resets it under two locks, but what an operator does       *)
(* between them can only lose a request, not double one.                   *)
(***************************************************************************)
THEOREM NoDumpUnasked == Spec => DumpsOnlyOnRequest
<1>1. ModesInv /\ RequestsInv => taken <= asked
  BY SMT DEF ModesInv, RequestsInv, Owed
<1> QED
  BY <1>1, InitModes, StepModes, InitRequests, StepRequests, PTL DEF Spec, DumpsOnlyOnRequest
=============================================================================
