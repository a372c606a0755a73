--------------------------- MODULE MCFakePipeline ---------------------------
(***************************************************************************)
(* FakePipeline on small rings.                                            *)
(***************************************************************************)
EXTENDS FakePipeline

\* s6_test.sh sets RUNALWYS to 1 and leaves the test mode the thread starts
\* in; an operator may have taken it back.
MCModes ==
    {[RUNALWYS |-> 1, TESTMODE |-> t, IDLE |-> 0, DUMPVOLT |-> 0] : t \in 0 .. 1}
=============================================================================
