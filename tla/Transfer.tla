------------------------------ MODULE Transfer ------------------------------
(***************************************************************************)
(* The scripts xfer_to_ucb and xfer_gbt_to_ucb: they copy the files of the *)
(* head node and of the compute nodes to Berkeley, one at a time, and keep *)
(* their whole state in the suffix of a file's name:                       *)
(*                                                                         *)
(*     file  ->  file.xfer_to_ucb  ->  file.at_ucb                         *)
(*                                                                         *)
(* The script may be killed between any two of its commands, and whoever   *)
(* runs it starts it again.  It bails out when a copy fails.               *)
(*                                                                         *)
(* A file's content is how much of it there is.  Files of the head node    *)
(* ("raw") are compressed first.                                           *)
(***************************************************************************)
EXTENDS Integers, FiniteSets

CONSTANTS
    WithHead,    \* whether the head node's files are copied (not at GBT)
    NodeCount,   \* compute nodes
    LogKinds,    \* kinds of logs a node keeps (*.out*.0, *.err*.0, ...)
    MaxPerSource, MaxFiles, MaxSize,  \* bounds on the files and on a log's size
    MaxCrashes, MaxKills, MaxFails    \* bounds on what goes wrong

ASSUME TransferAssumption ==
    /\ WithHead \in BOOLEAN
    /\ {NodeCount, LogKinds, MaxPerSource, MaxFiles, MaxSize} \subseteq Nat
    /\ {MaxCrashes, MaxKills, MaxFails} \subseteq Nat

VARIABLES
    made,   \* number of files each source has made
    local,  \* content of each file under each name it may have
    remote, \* content of each file's copy at Berkeley
    pc,     \* where the script is, "down" when it does not run
    todo,   \* DO_THIS_FILE
    faults  \* what has gone wrong so far

xferVars == <<made, local, remote, pc, todo, faults>>

Head == -1

\* Where files come from: a place, and 0 for FITS files (compressed dumps on
\* the head node) or the kind of log.
Sources ==
    (IF WithHead THEN {<<Head, 0>>} ELSE {}) \cup (0 .. NodeCount - 1) \X (0 .. LogKinds)

Files  == Sources \X (1 .. MaxPerSource)
Names  == {"raw", "plain", "xfer", "done"}
Absent == -1
NoFile == <<>>

Place(f) == f[1][1]
IsLog(s) == s[1] # Head /\ s[2] > 0

\* The order in which the script looks at the sources.
Before(s, t) == s[1] < t[1] \/ (s[1] = t[1] /\ s[2] < t[2])

Named(name) == {f \in Files : local[f][name] # Absent}

\* mv, which overwrites the target.
Move(f, from, to) == local' = [local EXCEPT ![f][to] = local[f][from], ![f][from] = Absent]

Init ==
    /\ made = [s \in Sources |-> 0]
    /\ local = [f \in Files |-> [name \in Names |-> Absent]]
    /\ remote = [f \in Files |-> Absent]
    /\ pc = "down"
    /\ todo = NoFile
    /\ faults = [crashes |-> 0, kills |-> 0, fails |-> 0]
-----------------------------------------------------------------------------
\* A node closes a FITS file, starts a log, or rotates a dump.  The log it
\* wrote before is then complete.
MadeSoFar == Cardinality({f \in Files : f[2] <= made[f[1]]})

Produce(s) ==
    /\ MadeSoFar < MaxFiles
    /\ made[s] < MaxPerSource
    /\ made' = [made EXCEPT ![s] = @ + 1]
    /\ local' = [local EXCEPT ![<<s, made[s] + 1>>] =
                    IF s[1] = Head THEN [@ EXCEPT !.raw = 1]
                    ELSE [@ EXCEPT !.plain = IF IsLog(s) THEN 0 ELSE 1]]
    /\ UNCHANGED <<remote, pc, todo, faults>>

\* The current log grows, whatever its name is meanwhile.
Grow(s) ==
    /\ IsLog(s) /\ made[s] > 0
    /\ LET f == <<s, made[s]>>
       IN  \E name \in Names :
               /\ local[f][name] \in 0 .. MaxSize - 1
               /\ local' = [local EXCEPT ![f][name] = @ + 1]
    /\ UNCHANGED <<made, remote, pc, todo, faults>>
-----------------------------------------------------------------------------
\* The servers answer and their disks are mounted.
Start ==
    /\ pc = "down"
    /\ pc' = "compress"
    /\ UNCHANGED <<made, local, remote, todo, faults>>

\* Without a terminal gzip leaves a dump alone whose .gz is there already.
ToCompress == Named("raw") \ Named("plain")

Compress ==
    /\ pc = "compress"
    /\ \/ \E f \in ToCompress : Move(f, "raw", "plain") /\ UNCHANGED pc
       \/ ToCompress = {} /\ pc' = "find" /\ UNCHANGED local
    /\ UNCHANGED <<made, remote, todo, faults>>

\* Files with the transfer suffix on all nodes: broken transfers.  They come
\* before any other file.
FindOnHeadOnly  == {f \in Named("xfer") : Place(f) = Head}
FindNothing     == {}
FindInterrupted == Named("xfer")

TakeUp ==
    /\ pc = "find"
    /\ \E f \in FindInterrupted :
        /\ \A g \in FindInterrupted : Place(f) <= Place(g)
        /\ todo' = f
    /\ pc' = "rename"
    /\ UNCHANGED <<made, local, remote, faults>>

\* How many files of a source are left alone: of the logs, the current one.
KeptOfNone(s) == 0
Kept(s)       == IF IsLog(s) THEN 1 ELSE 0

Ready(s)   == {n \in 1 .. MaxPerSource : <<s, n>> \in Named("plain")}
Candidates == {s \in Sources : Cardinality(Ready(s)) > Kept(s)}

\* The oldest file of the first source that has one.
TakeNew ==
    /\ pc = "find"
    /\ FindInterrupted = {}
    /\ \E s \in Candidates :
        /\ \A t \in Candidates : ~Before(t, s)
        /\ \E n \in Ready(s) :
            /\ \A k \in Ready(s) : n <= k
            /\ todo' = <<s, n>>
    /\ pc' = "rename"
    /\ UNCHANGED <<made, local, remote, faults>>

Sleep ==
    /\ pc = "find"
    /\ FindInterrupted = {} /\ Candidates = {}
    /\ pc' = "compress"
    /\ todo' = NoFile
    /\ UNCHANGED <<made, local, remote, faults>>

RenameForTransfer ==
    /\ pc = "rename"
    /\ IF todo \in Named("xfer") THEN UNCHANGED local ELSE Move(todo, "plain", "xfer")
    /\ pc' = "rsync"
    /\ UNCHANGED <<made, remote, todo, faults>>

\* rsync replaces the copy when it has the whole file.
Rsync ==
    /\ pc = "rsync"
    /\ remote' = [remote EXCEPT ![todo] = local[todo].xfer]
    /\ pc' = "mark"
    /\ UNCHANGED <<made, local, todo, faults>>

Mark ==
    /\ pc = "mark"
    /\ Move(todo, "xfer", "done")
    /\ pc' = "compress"
    /\ UNCHANGED <<made, remote, todo, faults>>

BailOut ==
    /\ pc = "back"
    /\ Move(todo, "xfer", "plain")
    /\ pc' = "down" /\ todo' = NoFile
    /\ UNCHANGED <<made, remote, faults>>

Script ==
    \/ Start \/ Compress \/ TakeUp \/ TakeNew \/ Sleep
    \/ RenameForTransfer \/ Rsync \/ Mark \/ BailOut
-----------------------------------------------------------------------------
RsyncFails ==
    /\ pc = "rsync"
    /\ faults.fails < MaxFails
    /\ faults' = [faults EXCEPT !.fails = @ + 1]
    /\ pc' = "back"
    /\ UNCHANGED <<made, local, remote, todo>>

\* The script ends between two commands, or in one that cleans up.
Crash ==
    /\ pc # "down"
    /\ faults.crashes < MaxCrashes
    /\ faults' = [faults EXCEPT !.crashes = @ + 1]
    /\ pc' = "down" /\ todo' = NoFile
    /\ UNCHANGED <<made, local, remote>>

\* The power fails while gzip writes: part of the .gz stays beside the dump.
PowerFails ==
    /\ pc = "compress"
    /\ faults.kills < MaxKills
    /\ faults' = [faults EXCEPT !.kills = @ + 1]
    /\ \E f \in ToCompress : local' = [local EXCEPT ![f].plain = 0]
    /\ pc' = "down" /\ todo' = NoFile
    /\ UNCHANGED <<made, remote>>

Next ==
    \/ \E s \in Sources : Produce(s) \/ Grow(s)
    \/ Script
    \/ RsyncFails \/ Crash \/ PowerFails

\* The script takes its steps, and is started again when it has ended.
Spec == Init /\ [][Next]_xferVars /\ WF_xferVars(Script)
-----------------------------------------------------------------------------
(***************************************************************************)
(* At most one file is in transit, over all nodes and across crashes: a    *)
(* broken transfer is taken up before another one is begun ("thus restart  *)
(* on that file").                                                         *)
(***************************************************************************)
OneInTransit == Cardinality(Named("xfer")) <= 1

(***************************************************************************)
(* A file marked .at_ucb is at Berkeley as it is on the node: it was not   *)
(* marked before its copy was made, nor did it grow afterwards.            *)
(***************************************************************************)
MarkedIsCopied == \A f \in Named("done") : remote[f] >= local[f].done

(***************************************************************************)
(* Every file that is ready is marked in the end, in spite of crashes and  *)
(* failed copies; and if no power failure cut a compression short, all of  *)
(* it has arrived: what was given back, taken up again or copied twice     *)
(* replaced nothing by less.                                               *)
(***************************************************************************)
IsReady(f) == f[2] <= made[f[1]] - Kept(f[1])

Arrived(f) ==
    /\ f \in Named("done")
    /\ faults.kills = 0 => remote[f] >= IF IsLog(f[1]) THEN local[f].done ELSE 1

EveryFileArrives == \A f \in Files : IsReady(f) ~> Arrived(f)
=============================================================================
