----------------------------- MODULE MCPipeline -----------------------------
(***************************************************************************)
(* Pipeline on small rings.                                                *)
(***************************************************************************)
EXTENDS Pipeline

\* The operator has left the data acquisition on or off.  (Test mode is in
\* MCFakePipeline and OutputControl.)
MCModes ==
    {[RUNALWYS |-> r, TESTMODE |-> 0, IDLE |-> 0, DUMPVOLT |-> 0] : r \in 0 .. 1}
=============================================================================
